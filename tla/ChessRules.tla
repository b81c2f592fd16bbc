----------------------------- MODULE ChessRules -----------------------------
(***************************************************************************)
(* The rules of the game as pure operators: which cells exist              *)
(* (model/board.cpp), how each kind of piece may travel                    *)
(* (rules/piece_rules.cpp) and when a requested move is legal              *)
(* (rules/rule_engine.cpp).  A position is the pair <<row, col>>; row 0 is  *)
(* the far side for WHITE, which moves towards smaller rows.               *)
(***************************************************************************)
EXTENDS Integers

CONSTANTS
    Width,      \* Board::width
    Height,     \* Board::height
    Pieces,     \* the pieces of the game (shared_ptr<Piece>)
    NoPiece,    \* nullptr
    Color       \* Piece::color, which never changes

Colors == {"WHITE", "BLACK"}
Kinds  == {"KING", "QUEEN", "ROOK", "BISHOP", "KNIGHT", "PAWN"}

ASSUME SizeAssumption  == Width \in Nat \ {0} /\ Height \in Nat \ {0}
ASSUME PieceAssumption == NoPiece \notin Pieces
ASSUME ColorAssumption == Color \in [Pieces -> Colors]

(* The cells for which Board::is_in_bounds holds.                          *)
Cell == (0 .. Height - 1) \X (0 .. Width - 1)

Abs(n)      == IF n < 0 THEN -n ELSE n
Larger(a,b) == IF a > b THEN a ELSE b
Sign(n)     == IF n = 0 THEN 0 ELSE IF n > 0 THEN 1 ELSE -1

DRow(src, dst) == dst[1] - src[1]
DCol(src, dst) == dst[2] - src[2]

(* The number of cells a motion crosses (the Chebyshev distance), as       *)
(* GameEngine::request_move computes it.                                   *)
Dist(src, dst) == Larger(Abs(DRow(src, dst)), Abs(DCol(src, dst)))

-----------------------------------------------------------------------------
(* PieceRules::is_valid_geometry.                                          *)

forward_dir(color) == IF color = "WHITE" THEN -1 ELSE 1
start_row(color)   == IF color = "WHITE" THEN Height - 2 ELSE 1

PawnGeometry(color, src, dst, is_capturing) ==
    LET d_row == DRow(src, dst)
        d_col == Abs(DCol(src, dst))
    IN  IF is_capturing
        THEN d_row = forward_dir(color) /\ d_col = 1
        ELSE /\ d_col = 0
             /\ \/ d_row = forward_dir(color)
                \/ src[1] = start_row(color) /\ d_row = 2 * forward_dir(color)

is_valid_geometry(knd, color, src, dst, is_capturing) ==
    LET d_row    == Abs(DRow(src, dst))
        d_col    == Abs(DCol(src, dst))
        straight == d_row = 0 \/ d_col = 0
        diagonal == d_row = d_col
    IN  \/ knd = "KING"   /\ d_row <= 1 /\ d_col <= 1
        \/ knd = "ROOK"   /\ straight
        \/ knd = "BISHOP" /\ diagonal
        \/ knd = "QUEEN"  /\ (straight \/ diagonal)
        \/ knd = "KNIGHT" /\ {d_row, d_col} = {1, 2}
        \/ knd = "PAWN"   /\ PawnGeometry(color, src, dst, is_capturing)

(* PieceRules::is_path_clear: the k-th cell its loop visits, and its       *)
(* result.  The loop walks from src in unit steps until it meets dst; on   *)
(* the lines that is_valid_geometry admits this visits the steps           *)
(* 1 .. Dist - 1 (theorem PathWalkEnds of GameEngineProofs).               *)
StepCell(src, dst, k) ==
    << src[1] + k * Sign(DRow(src, dst)), src[2] + k * Sign(DCol(src, dst)) >>

is_path_clear(board, knd, src, dst) ==
    \/ knd = "KNIGHT"
    \/ \A k \in 1 .. Dist(src, dst) - 1 : board[StepCell(src, dst, k)] = NoPiece

(* RuleEngine::validate_move.                                              *)
validate_move(board, kind, src, dst) ==
    LET piece  == board[src]
        target == board[dst]
    IN  /\ piece # NoPiece
        /\ target # NoPiece => Color[target] # Color[piece]
        /\ is_valid_geometry(kind[piece], Color[piece], src, dst, target # NoPiece)
        /\ is_path_clear(board, kind[piece], src, dst)

=============================================================================
