--------------------------- MODULE MCSocketServer ---------------------------
(* Three or four connections of a few accounts, one of which comes back on *)
(* a second connection, and one or two rooms of the same name.             *)
EXTENDS SocketServer, TLC

CONSTANTS c1, c2, c3, c4, u1, u2, u3

(* c1 and c3 are the same player before and after a disconnection.         *)
ReturningPlayer == [c \in Conns |-> IF c \in {c1, c3} THEN u1 ELSE IF c = c2 THEN u2 ELSE u3]

(* Nothing tells these two connections apart.                              *)
SameAccount == Permutations({c1, c3})
=============================================================================
