---------------------------- MODULE SocketClient ----------------------------
(***************************************************************************)
(* network::SocketClient showing the match that the server plays:          *)
(* GameEngine on the server, snapshots of it in a TCP connection, and the  *)
(* two threads of the client.  The network thread takes a message in       *)
(* on_message; parse_and_update_state decides about the end of the game    *)
(* before it takes state_mutex (Decide) and merges under the mutex         *)
(* (Merge).  The GUI thread's advance_animations runs in between.          *)
(*                                                                         *)
(* The client animates motions with clocks of its own and keeps those that *)
(* the server has finished, so it shows the end of a game later than the   *)
(* snapshot that reports it.  Names, ratings, sounds and the pixels of an  *)
(* animation are left out; a client in a room gets the same snapshots.     *)
(***************************************************************************)
EXTENDS GameEngine, Sequences

CONSTANTS
    Frames,     \* the values of ms that advance_animations is called with
    MaxQueue,   \* bound: messages on their way to the client
    MaxGames,   \* bound: matches that process_matchmaking makes
    MaxRequests \* bound: moves and jumps that the server accepts

(* No motion is over within the update that first sees it: the shortest    *)
(* lasts 500 ms, an update 30 ms.  So no match is over in its first      *)
(* snapshot.                                                               *)
ASSUME ClientAssumption == /\ Frames \subseteq Nat \ {0}
                           /\ MaxQueue \in Nat \ {0}
                           /\ MaxGames \in Nat /\ MaxRequests \in Nat
                           /\ \A t \in Ticks : t < MoveTime

VARIABLES
    victim,     \* server: Motion::captured_piece of the motion of each piece
    requests,   \* server: moves and jumps accepted so far
    serial,     \* server: which match m_game_engine plays
    ended,      \* the matches that were over at some time
    due,        \* server: game_loop has updated the engine but not broadcast it
    channel,    \* messages on their way to the client, oldest first
    npc,        \* the network thread: between messages, or before the merge
    m_server_game_over,
    local_game_over,    \* local to parse_and_update_state
    shown,      \* the match the client shows
    shown_over, \* GameState::game_over_flag of the client
    view,       \* Board of the client
    anim,       \* RealTimeArbiter::active_motions of the client
    hops,       \* RealTimeArbiter::active_jumps of the client
    rests       \* RealTimeArbiter::active_cooldowns of the client

serverVars == << victim, requests, serial, ended, due >>
netVars    == << npc, m_server_game_over, local_game_over >>
showVars   == << shown, shown_over, view, anim, hops, rests >>
clientVars == << serverVars, channel, netVars, showVars >>

Of(p, timers) == {e \in timers : e.piece = p}

Empty == [c \in Cell |-> NoPiece]

ClientInit ==
    /\ Init
    /\ victim = [p \in Pieces |-> NoPiece]
    /\ requests = 0 /\ serial = 0 /\ ended = {} /\ due = FALSE
    /\ channel = << >>
    /\ npc = "idle" /\ m_server_game_over = FALSE /\ local_game_over = FALSE
    /\ shown = 0 /\ shown_over = FALSE
    /\ view = Empty /\ anim = {} /\ hops = {} /\ rests = {}

-----------------------------------------------------------------------------
(* The server.                                                             *)

(* MOVE and JUMP of the players reach the engine.                          *)
Requests ==
    /\ requests < MaxRequests /\ requests' = requests + 1
    /\ \/ \E src, dst \in Cell : /\ RequestMove(src, dst)
                                 /\ victim' = [victim EXCEPT ![board[src]] = board[dst]]
       \/ \E pos \in Cell : RequestJump(pos) /\ UNCHANGED victim
    /\ UNCHANGED << serial, ended, due, channel, netVars, showVars >>

(* process_matchmaking, at the start of a turn of game_loop.  The client   *)
(* is one of the two players, or waits, or plays the match that is lost.   *)
NewMatch ==
    /\ ms = 0 /\ ~due
    /\ serial < MaxGames /\ Len(channel) < MaxQueue
    /\ cell' \in Layouts
    /\ board' = BoardOf(cell')
    /\ pstate' = [p \in Pieces |-> "IDLE"] /\ kind' = StartKind
    /\ motions' = {} /\ jumps' = {} /\ cooldowns' = {}
    /\ game_over' = FALSE /\ score' = [c \in Colors |-> 0]
    /\ serial' = serial + 1
    /\ channel' \in {channel, Append(channel, [type |-> "MATCH_FOUND", game |-> serial'])}
    /\ victim' = [p \in Pieces |-> NoPiece]
    /\ UNCHANGED << loopVars, requests, ended, due, netVars, showVars >>

UpdateEngine ==
    /\ \/ ~due /\ Len(channel) < MaxQueue /\ (\E t \in Ticks : BeginUpdate(t)) /\ UNCHANGED due
       \/ ((\E j \in jumps : HandleJump(j)) \/ \E m \in motions : HandleMotion(m)) /\ UNCHANGED due
       \/ EndUpdate /\ due' = TRUE
    /\ victim' = [p \in Pieces |-> IF Of(p, motions') = {} THEN NoPiece ELSE victim[p]]
    /\ ended' = ended \cup (IF game_over' THEN {serial} ELSE {})
    /\ UNCHANGED << requests, serial, channel, netVars, showVars >>

(* A piece is listed while it is on the board, in a motion or in a jump.   *)
Listed == {m.piece : m \in motions} \cup {j.piece : j \in jumps}
          \cup {p \in Pieces : \E c \in Cell : board[c] = p}

serialize_game_state ==
    [type    |-> "STATE",
     game    |-> serial,
     over    |-> game_over,
     kinds   |-> [p \in Listed |-> kind[p]],
     board   |-> board,
     resting |-> {p \in Listed : is_piece_cooling_down(p)},
     motions |-> {[piece |-> m.piece, remaining |-> m.remaining, victim |-> victim[m.piece]]
                      : m \in motions},
     jumps   |-> {j.piece : j \in jumps}]

broadcast_state ==
    /\ ms = 0 /\ due
    /\ due' = FALSE
    /\ channel' = Append(channel, serialize_game_state)
    /\ UNCHANGED << vars, victim, requests, serial, ended, netVars, showVars >>

-----------------------------------------------------------------------------
(* The network thread of the client.                                       *)

OnMatchFound_KeepsVerdict ==
    /\ npc = "idle"
    /\ channel # << >> /\ Head(channel).type = "MATCH_FOUND"
    /\ channel' = Tail(channel)
    /\ shown_over' = FALSE
    /\ shown' = Head(channel).game
    /\ UNCHANGED << vars, serverVars, npc, m_server_game_over, local_game_over, view, anim, hops, rests >>

(* MATCH_FOUND; ROOM_CREATED and ROOM_JOINED reset the same two flags.     *)
OnMatchFound ==
    /\ npc = "idle"
    /\ channel # << >> /\ Head(channel).type = "MATCH_FOUND"
    /\ channel' = Tail(channel)
    /\ m_server_game_over' = FALSE /\ shown_over' = FALSE
    /\ shown' = Head(channel).game
    /\ UNCHANGED << vars, serverVars, npc, local_game_over, view, anim, hops, rests >>

KingCaptureUnderWay(ms_) == \E m \in ms_ : m.king /\ m.remaining > 0

Verdict_LeftToFrames(over) == FALSE

(* The end of the game is held back while a king is still being taken on   *)
(* the screen.                                                             *)
Verdict(over) == over /\ ~KingCaptureUnderWay(anim)

(* parse_and_update_state, up to the lock.                                 *)
Decide ==
    /\ npc = "idle"
    /\ channel # << >> /\ Head(channel).type = "STATE"
    /\ npc' = "merge"
    /\ m_server_game_over' = Head(channel).over
    /\ local_game_over' = Verdict(Head(channel).over)
    /\ UNCHANGED << vars, serverVars, channel, showVars >>

(* A victim that the snapshot does not list is nobody's victim.            *)
parse_motions(s) ==
    {[piece |-> m.piece, remaining |-> m.remaining,
      king  |-> m.victim \in DOMAIN s.kinds /\ s.kinds[m.victim] = "KING"] : m \in s.motions}

(* parse_jumps fills remaining_ms with the total: a jump that the client   *)
(* learns of lasts its full time on the screen.                            *)
parse_jumps(s) == {[piece |-> p, remaining |-> JumpTime] : p \in s.jumps}

(* The board of a snapshot, without the pieces in flight.                  *)
new_board(s) ==
    [c \in Cell |-> IF s.board[c] \in s.jumps \cup {m.piece : m \in s.motions}
                    THEN NoPiece ELSE s.board[c]]

Merged_KeepingFinished(mine, new) ==
    {e \in new : Of(e.piece, mine) = {}} \cup mine

(* Motions and jumps that go on keep the clock, and the victim, that the   *)
(* client has; the ones that the server has finished are kept until their  *)
(* animation ends.  Entries of one piece are equal on the client.          *)
Merged(mine, new) ==
    {e \in new : Of(e.piece, mine) = {}}
    \cup {e \in mine : e.remaining > 0 \/ Of(e.piece, new) # {}}

(* A rest starts anew when the client learns of it, and while the piece is *)
(* still moving on the screen.                                             *)
MergedRests(s, moving) ==
    LET kept == {cd \in rests : \E c \in Cell : new_board(s)[c] = cd.piece}
        full == {p \in s.resting : Of(p, kept) = {} \/ Of(p, moving) # {}}
    IN  {cd \in kept : cd.piece \notin full}
        \cup {[piece |-> p, remaining |-> RestTime] : p \in full}

Merge ==
    /\ npc = "merge"
    /\ npc' = "idle"
    /\ LET s == Head(channel)
       IN  /\ shown' = s.game
           /\ view' = new_board(s)
           /\ anim' = Merged(anim, parse_motions(s))
           /\ hops' = Merged(hops, parse_jumps(s))
           /\ rests' = MergedRests(s, anim')
    /\ shown_over' = local_game_over /\ local_game_over' = FALSE
    /\ channel' = Tail(channel)
    /\ UNCHANGED << vars, serverVars, m_server_game_over >>

-----------------------------------------------------------------------------
(* The GUI thread of the client: one frame.                                *)

Animated(timers, t) ==
    {[e EXCEPT !.remaining = IF @ > t THEN @ - t ELSE 0] : e \in timers}

advance_animations(t) ==
    /\ anim' = Animated(anim, t)
    /\ hops' = Animated(hops, t)
    /\ rests' = {cd \in rests : Of(cd.piece, anim) # {}}
                \cup Aged({cd \in rests : Of(cd.piece, anim) = {}}, t)
    /\ shown_over' = (shown_over \/ (m_server_game_over /\ ~KingCaptureUnderWay(anim')))
    /\ UNCHANGED << vars, serverVars, channel, netVars, shown, view >>

-----------------------------------------------------------------------------
GameLoop      == UpdateEngine \/ broadcast_state
NetworkThread == OnMatchFound \/ Decide \/ Merge
GuiThread     == \E t \in Frames : advance_animations(t)

ClientNext == Requests \/ NewMatch \/ GameLoop \/ NetworkThread \/ GuiThread

allVars == << vars, clientVars >>

ClientSpec == ClientInit /\ [][ClientNext]_allVars

(* The game loop of the server, the connection and the frames of the       *)
(* client go on; players and matchmaking need not do anything.             *)
ClientFairSpec ==
    /\ ClientSpec
    /\ WF_allVars(GameLoop) /\ WF_allVars(NetworkThread) /\ WF_allVars(GuiThread)

-----------------------------------------------------------------------------
(* The client never shows the end of a match that has not ended: not when  *)
(* a frame falls between the decision about a snapshot and its merge, and  *)
(* not when a new match begins while an old one is over on the screen.     *)
ShownGameOverIsReal == shown_over => shown \in ended

(* A match that is over for good is eventually over on the screen for      *)
(* good: no animation of a capture holds the end back for ever.            *)
GameOverIsShown == <>[]game_over => <>[]shown_over

(* When the server's board has come to rest, the client comes to show that *)
(* board and nothing that moves or rests on it: the snapshots in the       *)
(* connection, kept animations and restarted rests all drain.              *)
Quiet   == motions = {} /\ jumps = {} /\ cooldowns = {}
InStep  == /\ view = board /\ shown = serial
           /\ anim = {} /\ hops = {} /\ rests = {}
ClientCatchesUp == <>[]Quiet => <>[]InStep

=============================================================================
