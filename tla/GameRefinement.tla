--------------------------- MODULE GameRefinement ---------------------------
(***************************************************************************)
(* GameEngine implements GameSpec: what the timed engine does to the board,*)
(* one resolved event at a time, is a play of the clockless game.  Motions *)
(* that an update has resolved but not yet erased are not in the air.      *)
(***************************************************************************)
EXTENDS GameEngine

Flying == {[piece |-> m.piece, source |-> m.source, dest |-> m.dest] : m \in Unhandled}

Captured == {p \in Pieces : pstate[p] = "CAPTURED"}

Abstract == INSTANCE GameSpec WITH
    Starts <- {BoardOf(f) : f \in Layouts},
    on     <- board,
    air    <- Flying,
    taken  <- Captured,
    over   <- game_over

(* Every step of the engine is a departure, one of the five ends of a      *)
(* flight, the decision of the game, or invisible on the board: timers,    *)
(* jumps, rests and the order in which advance_time resolves one frame add *)
(* no behaviour that the clockless game does not have.                     *)
ImplementsGame == Abstract!Game

=============================================================================
