------------------------------ MODULE GameSpec ------------------------------
(***************************************************************************)
(* The game that the engine promises to its players, without clocks: no    *)
(* frames, no order of events within one, no jumps, rests or piece states. *)
(* A piece stands on a cell, flies from one cell to another, or has been   *)
(* taken; a flight ends in one of five ways.  GameEngine implements this   *)
(* (module GameRefinement).                                                *)
(***************************************************************************)
EXTENDS ChessRules

CONSTANTS
    StartKind,  \* the kinds of the pieces at the start
    Starts      \* the boards a game may start from

VARIABLES
    on,     \* the piece on each cell
    air,    \* the flights under way
    taken,  \* the pieces that have been captured
    kind,   \* the kinds of the pieces
    score,  \* the points of the sides
    over    \* the game is decided

gameVars == << on, air, taken, kind, score, over >>

Flight == [piece : Pieces, source : Cell, dest : Cell]

GameInit ==
    /\ on \in Starts
    /\ air = {} /\ taken = {}
    /\ kind = StartKind
    /\ score = [c \in Colors |-> 0]
    /\ over = FALSE

Value(k) == CASE k = "PAWN" -> 1 [] k \in {"KNIGHT", "BISHOP"} -> 3
              [] k = "ROOK" -> 5 [] k = "QUEEN" -> 9 [] k = "KING" -> 10

GoalRow(color) == IF color = "WHITE" THEN 0 ELSE Height - 1

Crowned(p, c) ==
    IF kind[p] = "PAWN" /\ c[1] = GoalRow(Color[p]) THEN [kind EXCEPT ![p] = "QUEEN"] ELSE kind

-----------------------------------------------------------------------------
(* A piece on the board leaves on a move that is legal at that moment.     *)
Depart(src, dst) ==
    /\ ~over
    /\ on[src] # NoPiece
    /\ validate_move(on, kind, src, dst)
    /\ on' = [on EXCEPT ![src] = NoPiece]
    /\ air' = air \cup {[piece |-> on[src], source |-> src, dest |-> dst]}
    /\ UNCHANGED << taken, kind, score, over >>

Alight(f) ==
    /\ on[f.dest] = NoPiece
    /\ on' = [on EXCEPT ![f.dest] = f.piece]
    /\ air' = air \ {f}
    /\ kind' = Crowned(f.piece, f.dest)
    /\ UNCHANGED << taken, score, over >>

(* The loss of a king decides the game.                                    *)
Take(f) ==
    /\ on[f.dest] # NoPiece
    /\ Color[on[f.dest]] # Color[f.piece]
    /\ on' = [on EXCEPT ![f.dest] = f.piece]
    /\ air' = air \ {f}
    /\ taken' = taken \cup {on[f.dest]}
    /\ kind' = Crowned(f.piece, f.dest)
    /\ score' = [score EXCEPT ![Color[f.piece]] = @ + Value(kind[on[f.dest]])]
    /\ over' = (over \/ kind[on[f.dest]] = "KING")

(* Sent back where it came from, as long as that cell is free.             *)
Return(f) ==
    /\ on[f.source] = NoPiece
    /\ on' = [on EXCEPT ![f.source] = f.piece]
    /\ air' = air \ {f}
    /\ UNCHANGED << taken, kind, score, over >>

(* Sent back where somebody else stands by now: the piece is out of the    *)
(* game, and nobody has taken it.                                          *)
Vanish(f) ==
    /\ on[f.source] # NoPiece
    /\ air' = air \ {f}
    /\ UNCHANGED << on, taken, kind, score, over >>

(* Taken at the end of its flight by an enemy that jumped.                 *)
TakenInFlight(f, p) ==
    /\ Color[p] # Color[f.piece]
    /\ air' = air \ {f}
    /\ taken' = taken \cup {f.piece}
    /\ score' = [score EXCEPT ![Color[p]] = @ + Value(kind[f.piece])]
    /\ UNCHANGED << on, kind, over >>

(* A side that began with kings has none on the board or in the air.       *)
Kingless(color) ==
    /\ \E p \in Pieces : StartKind[p] = "KING" /\ Color[p] = color
    /\ \A p \in Pieces : (kind[p] = "KING" /\ Color[p] = color) =>
           /\ \A c \in Cell : on[c] # p
           /\ \A f \in air : f.piece # p

Decide ==
    /\ \E color \in Colors : Kingless(color)
    /\ over' = TRUE
    /\ UNCHANGED << on, air, taken, kind, score >>

GameNext ==
    \/ \E src, dst \in Cell : Depart(src, dst)
    \/ \E f \in air : \/ Alight(f) \/ Take(f) \/ Return(f) \/ Vanish(f)
                      \/ \E p \in Pieces : TakenInFlight(f, p)
    \/ Decide

Game == GameInit /\ [][GameNext]_gameVars

=============================================================================
