---------------------------- MODULE MCLocalInput ----------------------------
(* A local game of a rook against a king on two files.                     *)
EXTENDS LocalInput

CONSTANTS wR, bK

MCColor == [p \in {wR, bK} |-> IF p = wR THEN "WHITE" ELSE "BLACK"]
MCKind  == [p \in {wR, bK} |-> IF p = wR THEN "ROOK" ELSE "KING"]

RookAgainstKing == {[p \in {wR, bK} |-> IF p = wR THEN <<2, 1>> ELSE <<0, 0>>]}

=============================================================================
