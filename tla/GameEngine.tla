----------------------------- MODULE GameEngine -----------------------------
(***************************************************************************)
(* One game: engine::GameEngine with the model::Board and model::GameState *)
(* it owns and the realtime::RealTimeArbiter that resolves moves and jumps *)
(* as time passes.  Callers are sequential: request_move, request_jump and *)
(* update never overlap, as in the local game loop and in the unit tests.  *)
(*                                                                         *)
(* update(ms) is one call, modelled as several steps so that the order in  *)
(* which it resolves the arrivals of one frame is visible: BeginUpdate     *)
(* (rest timers, which events fall due), one HandleJump or HandleMotion    *)
(* per due event, and EndUpdate (timers of what is still in the air, then  *)
(* GameState::check_game_status).  Between calls, ms = 0.                  *)
(*                                                                         *)
(* Vectors are sets here.  Equal jumps of one piece and equal cooldowns    *)
(* behave as one, and OneJumperPerCell shows that which jump a search of   *)
(* the vector meets first does not matter.                                 *)
(***************************************************************************)
EXTENDS ChessRules, FiniteSetsExt

CONSTANTS
    StartKind,  \* Piece::kind when the board is built
    Layouts,    \* the placements a game may start from
    MoveTime,   \* BASE_MOVE_TIME_MS, the time per cell of a move
    JumpTime,   \* the duration of a jump
    RestTime,   \* the duration of a cooldown
    Ticks       \* the values of ms that update is called with

Placement == {f \in [Pieces -> Cell] : \A p, q \in Pieces : f[p] = f[q] => p = q}
LastRow(color) == IF color = "WHITE" THEN 0 ELSE Height - 1

ASSUME TimeAssumption   == /\ MoveTime \in Nat \ {0}
                           /\ JumpTime \in Nat \ {0}
                           /\ RestTime \in Nat \ {0}
                           /\ JumpTime <= RestTime
                           /\ Ticks \subseteq Nat \ {0}
ASSUME FiniteAssumption == IsFiniteSet(Pieces)
ASSUME KindAssumption   == StartKind \in [Pieces -> Kinds]
ASSUME LayoutAssumption == Layouts \subseteq Placement
(* No board is built with a pawn already on the row where it promotes.     *)
ASSUME PawnAssumption   == \A f \in Layouts, p \in Pieces :
                              StartKind[p] = "PAWN" => f[p][1] # LastRow(Color[p])

VARIABLES
    board,              \* Board::grid
    cell,               \* Piece::cell
    pstate,             \* Piece::state
    kind,               \* Piece::kind
    motions,            \* RealTimeArbiter::active_motions
    jumps,              \* RealTimeArbiter::active_jumps
    cooldowns,          \* RealTimeArbiter::active_cooldowns
    game_over,          \* GameState::game_over_flag
    score,              \* GameState::white_score, black_score
    ms,                 \* the argument of the update in progress, 0 between updates
    handled_motions,    \* local to advance_time
    handled_jumps       \* local to advance_time

boardVars == << board, cell, pstate, kind >>
timeVars  == << motions, jumps, cooldowns >>
loopVars  == << ms, handled_motions, handled_jumps >>
stateVars == << game_over, score >>
vars      == << boardVars, timeVars, loopVars, stateVars >>

States   == {"IDLE", "MOVING", "CAPTURED"}
Motion   == [piece : Pieces, source : Cell, dest : Cell, remaining : Nat \ {0}]
Jump     == [piece : Pieces, pos : Cell, remaining : Nat \ {0}]
Cooldown == [piece : Pieces, remaining : Nat \ {0}]

-----------------------------------------------------------------------------
(* Board and GameState helpers.                                            *)

BoardOf(start) ==
    [c \in Cell |-> IF \E p \in Pieces : start[p] = c
                    THEN CHOOSE p \in Pieces : start[p] = c
                    ELSE NoPiece]

Init ==
    /\ cell \in Layouts
    /\ board = BoardOf(cell)
    /\ pstate = [p \in Pieces |-> "IDLE"]
    /\ kind = StartKind
    /\ motions = {} /\ jumps = {} /\ cooldowns = {}
    /\ game_over = FALSE
    /\ score = [c \in Colors |-> 0]
    /\ ms = 0 /\ handled_motions = {} /\ handled_jumps = {}

(* Board::add_piece refuses an occupied cell; no caller looks at the       *)
(* result, so the piece is then simply nowhere.                            *)
add_piece(b, p, c) == IF b[c] = NoPiece THEN [b EXCEPT ![c] = p] ELSE b

get_piece_value(k) ==
    CASE k = "PAWN" -> 1 [] k \in {"KNIGHT", "BISHOP"} -> 3
      [] k = "ROOK" -> 5 [] k = "QUEEN" -> 9 [] k = "KING" -> 10

(* The pawn-to-queen change at the end of a landing or a capture.          *)
PromoteSkippingBlack(p, dst) ==
    IF kind[p] = "PAWN" /\ dst[1] = LastRow(Color[p]) /\ Color[p] = "WHITE"
    THEN [kind EXCEPT ![p] = "QUEEN"] ELSE kind

Promote(p, dst) ==
    IF kind[p] = "PAWN" /\ dst[1] = LastRow(Color[p])
    THEN [kind EXCEPT ![p] = "QUEEN"] ELSE kind

(* GameState's constructor counts the kings a side starts with;            *)
(* check_game_status counts the ones that are left.                        *)
InitialKings(color) == {p \in Pieces : StartKind[p] = "KING" /\ Color[p] = color}

KingsLeftIgnoringState(color, b, ms_, js) ==
    {p \in Pieces : /\ kind[p] = "KING" /\ Color[p] = color
                    /\ \/ \E c \in Cell : b[c] = p
                       \/ \E e \in ms_ \cup js : e.piece = p}

KingsLeft(color, b, ms_, js) ==
    {p \in Pieces : /\ kind[p] = "KING" /\ Color[p] = color
                    /\ \/ \E c \in Cell : b[c] = p
                       \/ /\ pstate[p] # "CAPTURED"
                          /\ \E e \in ms_ \cup js : e.piece = p}

check_game_status(b, ms_, js) ==
    game_over' = (game_over \/ \E c \in Colors : /\ InitialKings(c) # {}
                                                 /\ KingsLeft(c, b, ms_, js) = {})

-----------------------------------------------------------------------------
(* Requests of the players.                                                *)

is_piece_moving(p)       == \E m \in motions : m.piece = p
is_piece_cooling_down(p) == \E cd \in cooldowns : cd.piece = p

(* RealTimeArbiter::start_motion takes the piece off the board: while it   *)
(* is in the air it occupies no cell.                                      *)
start_motion_KeepsSource(p, src, dst, total) ==
    /\ pstate' = [pstate EXCEPT ![p] = "MOVING"]
    /\ board' = board
    /\ motions' = motions \cup {[piece |-> p, source |-> src, dest |-> dst, remaining |-> total]}

start_motion(p, src, dst, total) ==
    /\ pstate' = [pstate EXCEPT ![p] = "MOVING"]
    /\ board' = [board EXCEPT ![src] = NoPiece]
    /\ motions' = motions \cup {[piece |-> p, source |-> src, dest |-> dst, remaining |-> total]}

CanActWhileResting(p) == p # NoPiece /\ ~is_piece_moving(p)

(* The guard that request_move and request_jump share.  A piece that jumps *)
(* is not moving for it: it may jump again, or move away.                  *)
CanAct(p) == p # NoPiece /\ ~is_piece_moving(p) /\ ~is_piece_cooling_down(p)

RequestMove(src, dst) ==
    /\ ms = 0
    /\ ~game_over
    /\ CanAct(board[src])
    /\ validate_move(board, kind, src, dst)
    /\ start_motion(board[src], src, dst, Dist(src, dst) * MoveTime)
    /\ UNCHANGED << cell, kind, jumps, cooldowns, stateVars, loopVars >>

RequestJump_AfterGameOver(pos) ==
    /\ ms = 0
    /\ CanAct(board[pos])
    /\ pstate' = [pstate EXCEPT ![board[pos]] = "MOVING"]
    /\ jumps' = jumps \cup {[piece |-> board[pos], pos |-> pos, remaining |-> JumpTime]}
    /\ UNCHANGED << board, cell, kind, motions, cooldowns, stateVars, loopVars >>

RequestJump(pos) ==
    /\ ms = 0
    /\ ~game_over
    /\ CanAct(board[pos])
    /\ pstate' = [pstate EXCEPT ![board[pos]] = "MOVING"]
    /\ jumps' = jumps \cup {[piece |-> board[pos], pos |-> pos, remaining |-> JumpTime]}
    /\ UNCHANGED << board, cell, kind, motions, cooldowns, stateVars, loopVars >>

-----------------------------------------------------------------------------
(* update: RealTimeArbiter::advance_time, then check_game_status.          *)

AgedAll(timers, t)    == {[e EXCEPT !.remaining = @ - t] : e \in timers}
AgedFrozen(timers, t) == {x \in timers : x.remaining > t}

Aged(timers, t) ==
    {[e EXCEPT !.remaining = @ - t] : e \in {x \in timers : x.remaining > t}}

BeginUpdate(t) ==
    /\ ms = 0
    /\ ms' = t
    /\ cooldowns' = Aged(cooldowns, t)
    /\ handled_motions' = {} /\ handled_jumps' = {}
    /\ UNCHANGED << boardVars, motions, jumps, stateVars >>

Unhandled  == motions \ handled_motions
DueMotions == {m \in Unhandled : m.remaining <= ms}
DueJumps   == {j \in jumps \ handled_jumps : j.remaining <= ms}

(* std::sort orders the due events by arrival_time and leaves the order of *)
(* simultaneous ones open.                                                 *)
IsNextEvent(e) == \A x \in DueMotions \cup DueJumps : e.remaining <= x.remaining

RestForgotten(p) == cooldowns

Rest(p) == cooldowns \cup {[piece |-> p, remaining |-> RestTime]}

LandsAnyway(j)  == TRUE
LandsNowhere(j) == FALSE

(* Whether the jumper is still (or again) on the cell it jumped from.      *)
LandsAtHome(j) == board[j.pos] = j.piece

HandleJump(j) ==
    /\ ms > 0
    /\ j \in DueJumps /\ IsNextEvent(j)
    /\ handled_jumps' = handled_jumps \cup {j}
    /\ IF LandsAtHome(j)
       THEN /\ pstate' = [pstate EXCEPT ![j.piece] = "IDLE"]
            /\ cooldowns' = Rest(j.piece)
       ELSE UNCHANGED << pstate, cooldowns >>
    /\ UNCHANGED << board, cell, kind, motions, jumps, stateVars, ms, handled_motions >>

(* The jumps that meet a motion at its destination: in the air there, and  *)
(* not completed strictly before the motion arrives.                       *)
InterceptorsStrict(m) ==
    {j \in jumps : j.pos = m.dest /\ ~(j.remaining <= ms /\ j.remaining <= m.remaining)}

Interceptors(m) ==
    {j \in jumps : j.pos = m.dest /\ ~(j.remaining <= ms /\ j.remaining < m.remaining)}

(* piece_at_dest, after the is_escaping search.                            *)
PieceAtDest(m) ==
    LET p == board[m.dest]
    IN  IF \E o \in Unhandled \ {m} : o.piece = p THEN NoPiece ELSE p

(* Friendly block: back to the source cell, if add_piece still accepts it. *)
BlockAt(m) ==
    /\ cell' = [cell EXCEPT ![m.piece] = m.source]
    /\ board' = add_piece(board, m.piece, m.source)
    /\ pstate' = [pstate EXCEPT ![m.piece] = "IDLE"]
    /\ cooldowns' = Rest(m.piece)
    /\ UNCHANGED << kind, stateVars >>

CaptureUnscored(m, j) ==
    /\ pstate' = [pstate EXCEPT ![m.piece] = "CAPTURED"]
    /\ UNCHANGED << board, cell, kind, cooldowns, game_over, score >>

(* Mid-air capture: the jumper takes the arriving piece.                   *)
MidAirCapture(m, j) ==
    /\ pstate' = [pstate EXCEPT ![m.piece] = "CAPTURED"]
    /\ score' = [score EXCEPT ![Color[j.piece]] = @ + get_piece_value(kind[m.piece])]
    /\ UNCHANGED << board, cell, kind, cooldowns, game_over >>

(* The arriving piece takes the enemy piece that stands on its cell.       *)
Capture(m, victim) ==
    /\ board' = [board EXCEPT ![m.dest] = m.piece]
    /\ cell' = [cell EXCEPT ![m.piece] = m.dest]
    /\ pstate' = [pstate EXCEPT ![victim] = "CAPTURED", ![m.piece] = "IDLE"]
    /\ kind' = Promote(m.piece, m.dest)
    /\ cooldowns' = Rest(m.piece)
    /\ game_over' = (game_over \/ kind[victim] = "KING")
    /\ score' = [score EXCEPT ![Color[m.piece]] = @ + get_piece_value(kind[victim])]

LandKeepingCell(m) ==
    /\ board' = add_piece(board, m.piece, m.dest)
    /\ cell' = cell
    /\ pstate' = [pstate EXCEPT ![m.piece] = "IDLE"]
    /\ kind' = Promote(m.piece, m.dest)
    /\ cooldowns' = Rest(m.piece)
    /\ UNCHANGED stateVars

Land(m) ==
    /\ board' = add_piece(board, m.piece, m.dest)
    /\ cell' = [cell EXCEPT ![m.piece] = m.dest]
    /\ pstate' = [pstate EXCEPT ![m.piece] = "IDLE"]
    /\ kind' = Promote(m.piece, m.dest)
    /\ cooldowns' = Rest(m.piece)
    /\ UNCHANGED stateVars

(* What an arriving motion runs into.                                      *)
Arrive(m) ==
    \/ \E j \in Interceptors(m) :
          \/ Color[j.piece] = Color[m.piece] /\ BlockAt(m)
          \/ Color[j.piece] # Color[m.piece] /\ MidAirCapture(m, j)
    \/ /\ Interceptors(m) = {}
       /\ PieceAtDest(m) # NoPiece
       /\ \/ Color[PieceAtDest(m)] = Color[m.piece] /\ BlockAt(m)
          \/ Color[PieceAtDest(m)] # Color[m.piece] /\ Capture(m, PieceAtDest(m))
    \/ /\ Interceptors(m) = {}
       /\ PieceAtDest(m) = NoPiece
       /\ Land(m)

HandleMotion(m) ==
    /\ ms > 0
    /\ m \in DueMotions /\ IsNextEvent(m)
    /\ handled_motions' = handled_motions \cup {m}
    /\ IF pstate[m.piece] # "CAPTURED"
       THEN Arrive(m)
       ELSE UNCHANGED << boardVars, cooldowns, stateVars >>
    /\ UNCHANGED << motions, jumps, ms, handled_jumps >>

EndUpdate ==
    /\ ms > 0
    /\ DueMotions = {} /\ DueJumps = {}
    /\ motions' = Aged(motions, ms)
    /\ jumps' = Aged(jumps, ms)
    /\ check_game_status(board, motions', jumps')
    /\ ms' = 0 /\ handled_motions' = {} /\ handled_jumps' = {}
    /\ UNCHANGED << boardVars, cooldowns, score >>

-----------------------------------------------------------------------------
Update == \/ \E t \in Ticks : BeginUpdate(t)
          \/ \E j \in jumps : HandleJump(j)
          \/ \E m \in motions : HandleMotion(m)
          \/ EndUpdate

Next == \/ \E src, dst \in Cell : RequestMove(src, dst)
        \/ \E pos \in Cell : RequestJump(pos)
        \/ Update

Spec == Init /\ [][Next]_vars

(* The loop that owns the engine calls update every frame; players need    *)
(* not do anything.                                                        *)
FairSpec == Spec /\ WF_vars(Update)

-----------------------------------------------------------------------------
(* Types of the engine's state: timers of what is in the air are positive, *)
(* so no motion, jump or cooldown outlives the update in which it falls    *)
(* due (advance_time erases or rebuilds its three vectors).                *)
TypeOK ==
    /\ board \in [Cell -> Pieces \cup {NoPiece}]
    /\ cell \in [Pieces -> Cell]
    /\ pstate \in [Pieces -> States]
    /\ kind \in [Pieces -> Kinds]
    /\ motions \subseteq Motion
    /\ jumps \subseteq Jump
    /\ cooldowns \subseteq Cooldown
    /\ game_over \in BOOLEAN
    /\ score \in [Colors -> Nat]
    /\ ms \in Ticks \cup {0}
    /\ handled_motions \subseteq motions
    /\ handled_jumps \subseteq jumps

(* The grid and the pieces agree: a piece on the grid knows its cell (so   *)
(* it stands on one cell only) and has not been captured.  start_motion,   *)
(* the blocks, captures and landings of advance_time update both sides     *)
(* separately.                                                             *)
BoardConsistent ==
    \A c \in Cell : board[c] # NoPiece =>
        cell[board[c]] = c /\ pstate[board[c]] # "CAPTURED"

(* A piece in the air is on no cell, is marked MOVING and has one motion.  *)
(* It therefore cannot be captured where it came from, and the is_escaping *)
(* search of advance_time never finds anything.                            *)
InFlightOffBoard ==
    \A m \in Unhandled :
        /\ \A c \in Cell : board[c] # m.piece
        /\ pstate[m.piece] = "MOVING"
        /\ \A o \in Unhandled : o.piece = m.piece => o = m

(* A resting piece is never in flight: is_piece_cooling_down keeps it on   *)
(* the ground until every cooldown it collected (one per landing, also of  *)
(* overlapping jumps) has run out.                                         *)
RestingNotInFlight ==
    \A cd \in cooldowns, m \in Unhandled : cd.piece # m.piece

(* All jumps in the air over one cell belong to one piece, so the first    *)
(* match of the search over active_jumps is the only possible one, even    *)
(* though a jumper may move away, or jump again, before its jump ends.     *)
OneJumperPerCell ==
    \A j, k \in jumps : j.pos = k.pos => j.piece = k.piece

(* A piece marked MOVING has a motion or a jump that will mark it IDLE or  *)
(* CAPTURED: none is left MOVING for ever by a jump cut short.             *)
MovingIsTemporary ==
    \A p \in Pieces : pstate[p] = "MOVING" =>
        \/ \E m \in Unhandled : m.piece = p
        \/ \E j \in jumps \ handled_jumps : j.piece = p /\ board[j.pos] = p

(* Between updates, once the only king of a side has been captured, on the *)
(* board or in mid-air, the game is over.                                  *)
CapturedKingEndsGame ==
    ms = 0 => \A k \in Pieces :
        (InitialKings(Color[k]) = {k} /\ pstate[k] = "CAPTURED") => game_over

(* No pawn stands unpromoted on its last row, however it got there.        *)
PawnsPromote ==
    \A c \in Cell : board[c] # NoPiece =>
        ~(kind[board[c]] = "PAWN" /\ c[1] = LastRow(Color[board[c]]))

(* The scoreboard is the material captured: each captured piece is counted *)
(* once, for the other side, at the value it had when it was taken.        *)
Total(worth, S) == MapThenSumSet(LAMBDA p : worth[p], S)
Worth           == [p \in Pieces |-> get_piece_value(kind[p])]
TakenBy(c)      == {p \in Pieces : Color[p] # c /\ pstate[p] = "CAPTURED"}
ScoreAccounts   == \A c \in Colors : score[c] = Total(Worth, TakenBy(c))

(* A captured piece stays captured and off the board, whatever jump of its *)
(* own, or motion towards it, is still pending.                            *)
StaysCaptured(p) ==
    pstate[p] = "CAPTURED" => pstate'[p] = "CAPTURED" /\ \A c \in Cell : board'[c] # p

CaptureIsFinal == [][\A p \in Pieces : StaysCaptured(p)]_vars

(* A piece that is in the air over its own cell is not taken there by a    *)
(* motion that arrives no later than the jump ends.                        *)
Shielded(m, j) ==
    (j.pos = m.dest /\ board[j.pos] = j.piece /\ j.remaining >= m.remaining)
        => board'[j.pos] = j.piece /\ pstate'[j.piece] # "CAPTURED"

JumperIsShielded ==
    [][\A m \in handled_motions' \ handled_motions, j \in jumps : Shielded(m, j)]_vars

(* Every motion ends: the piece lands, is blocked or is captured.          *)
MotionsEnd ==
    \A p \in Pieces : is_piece_moving(p) ~> ~is_piece_moving(p)

(* After game over the board comes to rest for good: what is in the air    *)
(* finishes and nothing new starts.                                        *)
GameOverQuiesces ==
    game_over ~> [](motions = {} /\ jumps = {})

-----------------------------------------------------------------------------
(* What the unit tests of the arbiter say of every game.                   *)

(* "late arrival gets blocked and stuck": a piece that is not captured is  *)
(* on the board or in the air.                                             *)
BlockedPieceIsStuck ==
    \A p \in Pieces : pstate[p] # "CAPTURED" =>
        \/ \E c \in Cell : board[c] = p
        \/ \E m \in Unhandled : m.piece = p

(* "attacker lands on empty cell": a motion that arrives at a cell from    *)
(* which the defender has moved away ends on that cell.                    *)
AttackerLandsOnEmptyCell ==
    [][\A m \in motions :
          (m \in handled_motions' \ handled_motions /\ board[m.dest] = NoPiece)
              => board'[m.dest] = m.piece]_vars

=============================================================================
