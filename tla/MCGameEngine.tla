---------------------------- MODULE MCGameEngine ----------------------------
(* Small games for TLC: a rook against a king and a rook, and pawns around *)
(* a king, on a board small enough for every race between them to happen. *)
EXTENDS GameRefinement

CONSTANTS wK, wR, wP, bK, bR, bP, MaxTimers

AllColors == [p \in {wK, wR, wP, bK, bR, bP} |-> IF p \in {wK, wR, wP} THEN "WHITE" ELSE "BLACK"]
AllKinds  == [p \in {wK, wR, wP, bK, bR, bP} |->
                IF p \in {wK, bK} THEN "KING" ELSE IF p \in {wR, bR} THEN "ROOK" ELSE "PAWN"]

MCColor == [p \in Pieces |-> AllColors[p]]
MCKind  == [p \in Pieces |-> AllKinds[p]]

BoundedTimers ==
    ms = 0 => Cardinality(motions) + Cardinality(jumps) + Cardinality(cooldowns) <= MaxTimers

(* A white rook against a black king and rook on two files.               *)
RookLayouts ==
    {[p \in Pieces |-> CASE p = wR -> <<2, 1>> [] p = bK -> <<0, 0>> [] p = bR -> <<0, 1>>]}

(* Pawns that meet, and can pass, a king on two files.                     *)
PawnLayouts ==
    {[p \in Pieces |-> CASE p = wP -> <<2, 1>> [] p = bK -> <<0, 0>> [] p = bP -> <<1, 0>>]}

=============================================================================
