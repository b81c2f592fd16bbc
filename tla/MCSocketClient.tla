--------------------------- MODULE MCSocketClient ---------------------------
(* A rook and the king it attacks, on a board of one row.                  *)
EXTENDS SocketClient

CONSTANTS wR, bK

RookAndKing      == [p \in Pieces |-> IF p = wR THEN "ROOK" ELSE "KING"]
RookAndKingColor == [p \in Pieces |-> IF p = wR THEN "WHITE" ELSE "BLACK"]
Corners          == {[p \in Pieces |-> IF p = wR THEN << 0, 0 >> ELSE << 0, Width - 1 >>]}
=============================================================================
