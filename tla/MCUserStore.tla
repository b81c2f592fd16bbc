---------------------------- MODULE MCUserStore ----------------------------
(* Two plain names and one with a comma behind which the first is left;    *)
(* an empty password and one that is a brace.                              *)
EXTENDS UserStore

CONSTANTS a, b, ac, empty, brace

InOrder  == [n \in Names |-> CASE n = a -> 1 [] n = ac -> 2 [] OTHER -> 3]
UpToComma == [n \in Names |-> IF n = ac THEN a ELSE n]
UpToBrace == [p \in Passwords |-> empty]
=============================================================================
