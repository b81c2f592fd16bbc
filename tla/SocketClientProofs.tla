------------------------- MODULE SocketClientProofs -------------------------
(***************************************************************************)
(* network::SocketClient shows the end of a match only when the match has  *)
(* ended, for any board, any length of the queue and of the frames, and    *)
(* any number of matches.  Snapshots arrive in order, so the argument is   *)
(* about what can stand in the queue: a snapshot that reports the end of a *)
(* match is never the first that the client sees of that match.            *)
(***************************************************************************)
EXTENDS SocketClient, GameEngineProofs, SequenceTheorems

(* What the server sends.                                                  *)
Snapshot == [type : {"STATE"}, game : Nat, over : BOOLEAN,
             kinds : UNION {[P -> Kinds] : P \in SUBSET Pieces},
             board : [Cell -> Pieces \cup {NoPiece}], resting : SUBSET Pieces,
             motions : SUBSET [piece : Pieces, remaining : Nat, victim : Pieces \cup {NoPiece}],
             jumps : SUBSET Pieces]
Message  == Snapshot \cup [type : {"MATCH_FOUND"}, game : Nat]

ClientTypeOK ==
    /\ victim \in [Pieces -> Pieces \cup {NoPiece}]
    /\ serial \in Nat /\ due \in BOOLEAN
    /\ channel \in Seq(Message)
    /\ npc \in {"idle", "merge"}
    /\ m_server_game_over \in BOOLEAN /\ local_game_over \in BOOLEAN /\ shown_over \in BOOLEAN

(* The match that the client shows when it gets the i-th message, and the  *)
(* one it shows when it has got them all.                                  *)
Before(i) == IF i = 1 THEN shown ELSE channel[i - 1].game
LastGame  == IF channel = << >> THEN shown ELSE channel[Len(channel)].game

(* The end of a match is never the first that the client hears of it.      *)
EndsAreAnnounced ==
    \A i \in 1 .. Len(channel) :
        (channel[i].type = "STATE" /\ channel[i].over) =>
            channel[i].game \in ended /\ Before(i) = channel[i].game

(* What the network thread believes of the match on the screen is true.    *)
VerdictsAreTrue ==
    /\ npc = "merge" => /\ channel # << >> /\ channel[1].type = "STATE"
                        /\ m_server_game_over = channel[1].over
                        /\ local_game_over => channel[1].over
    /\ m_server_game_over => shown \in ended
    /\ shown_over => shown \in ended

(* The server's match has barely begun: no piece has arrived or been taken. *)
Fresh ==
    /\ ~game_over /\ kind = StartKind
    /\ \A p \in Pieces :
          /\ pstate[p] # "CAPTURED"
          /\ (\E c \in Cell : board[c] = p) \/ (\E m \in motions : m.piece = p)
    /\ ~due => \A m \in motions : m.remaining >= MoveTime

(* A match of which the client has yet to hear is not over.                *)
NewsIsFresh == LastGame # serial => Fresh

ClientInv ==
    /\ IndInv
    /\ ClientTypeOK
    /\ ms > 0 => ~due
    /\ game_over => serial \in ended
    /\ EndsAreAnnounced
    /\ VerdictsAreTrue
    /\ NewsIsFresh

-----------------------------------------------------------------------------
(* A board that is built anew is as good as the first one.                 *)
LEMMA InitIndNext == Init' => IndInv'
  BY InitInd, PTL

(* The server plays the games that GameEngine describes, one after the     *)
(* other.                                                                  *)
LEMMA EngineStep ==
    ASSUME IndInv, [ClientNext]_allVars
    PROVE  IndInv'
  <1>1. CASE Requests
    BY <1>1, NextInd DEF Requests, Next
  <1>2. CASE UpdateEngine
    BY <1>2, NextInd DEF UpdateEngine, Next, Update
  <1>3. CASE NewMatch
    <2>1. Init'
      BY <1>3, NothingHandled DEF NewMatch, Init, loopVars
    <2> QED BY <2>1, InitIndNext
  <1>4. CASE UNCHANGED vars
    BY <1>4, StutterInd
  <1> QED BY <1>1, <1>2, <1>3, <1>4
          DEF ClientNext, GameLoop, NetworkThread, GuiThread, broadcast_state, OnMatchFound,
              Decide, Merge, advance_animations, allVars

-----------------------------------------------------------------------------
(* What the engine tells of its motions and jumps is well formed.          *)
LEMMA SnapshotType ==
    ASSUME IndInv, ClientTypeOK
    PROVE  serialize_game_state \in Snapshot
  <1>1. /\ board \in [Cell -> Pieces \cup {NoPiece}] /\ kind \in [Pieces -> Kinds]
        /\ motions \subseteq Motion /\ jumps \subseteq Jump
        /\ game_over \in BOOLEAN /\ serial \in Nat
        /\ victim \in [Pieces -> Pieces \cup {NoPiece}]
    BY DEF IndInv, TypeOK, ClientTypeOK
  <1>2. Listed \in SUBSET Pieces
    BY <1>1 DEF Listed, Motion, Jump
  <1>3. [p \in Listed |-> kind[p]] \in UNION {[P -> Kinds] : P \in SUBSET Pieces}
    <2>1. [p \in Listed |-> kind[p]] \in [Listed -> Kinds]
      BY <1>1, <1>2
    <2> QED BY <1>2, <2>1
  <1>4. {[piece |-> m.piece, remaining |-> m.remaining, victim |-> victim[m.piece]]
            : m \in motions}
        \in SUBSET [piece : Pieces, remaining : Nat, victim : Pieces \cup {NoPiece}]
    BY <1>1 DEF Motion
  <1>5. {j.piece : j \in jumps} \in SUBSET Pieces
    BY <1>1 DEF Jump
  <1>6. {p \in Listed : is_piece_cooling_down(p)} \in SUBSET Pieces
    BY <1>2
  <1> QED BY <1>1, <1>3, <1>4, <1>5, <1>6 DEF serialize_game_state, Snapshot

(* The first message is taken: the client then shows the match it is       *)
(* about.                                                                  *)
LEMMA FirstIsTaken ==
    ASSUME channel \in Seq(Message), channel # << >>,
           channel' = Tail(channel), shown' = Head(channel).game, ended' = ended
    PROVE  /\ channel' \in Seq(Message)
           /\ EndsAreAnnounced => EndsAreAnnounced'
           /\ LastGame' = LastGame
  <1>1. /\ channel' \in Seq(Message)
        /\ Head(channel) = channel[1]
        /\ Len(channel) \in Nat \ {0} /\ Len(channel') = Len(channel) - 1
        /\ \A i \in 1 .. Len(channel') : channel'[i] = channel[i + 1]
    BY HeadTailProperties, LenProperties, EmptySeq
  <1>2. ASSUME NEW i \in 1 .. Len(channel')
        PROVE  i + 1 \in 1 .. Len(channel) /\ channel'[i] = channel[i + 1] /\ Before(i)' = Before(i + 1)
    BY <1>1, <1>2 DEF Before
  <1>3. EndsAreAnnounced => EndsAreAnnounced'
    BY <1>2 DEF EndsAreAnnounced
  <1>4. LastGame' = LastGame
    <2>1. CASE Len(channel) = 1
      <3>1. channel' = << >>
        BY <1>1, <2>1, EmptySeq
      <3> QED BY <1>1, <2>1, <3>1 DEF LastGame
    <2>2. CASE Len(channel) # 1
      <3>1. Len(channel') # 0
        BY <1>1, <2>2
      <3>2. channel' # << >>
        BY <1>1, <3>1, EmptySeq
      <3> QED BY <1>1, <2>2, <3>1, <3>2 DEF LastGame
    <2> QED BY <2>1, <2>2
  <1> QED BY <1>1, <1>3, <1>4

(* A message is sent: an end that it reports must be known to the client   *)
(* as the end of the match that it shows by then.                          *)
LEMMA LastIsPut ==
    ASSUME channel \in Seq(Message), NEW m \in Message, channel' = Append(channel, m),
           UNCHANGED << shown, ended >>,
           m.type = "STATE" /\ m.over => m.game \in ended /\ LastGame = m.game
    PROVE  /\ channel' \in Seq(Message)
           /\ channel # << >> => channel' # << >> /\ channel'[1] = channel[1]
           /\ EndsAreAnnounced => EndsAreAnnounced'
           /\ LastGame' = m.game
  <1>1. /\ channel' \in Seq(Message)
        /\ Len(channel) \in Nat /\ Len(channel') = Len(channel) + 1
        /\ \A i \in 1 .. Len(channel) : channel'[i] = channel[i]
        /\ channel'[Len(channel) + 1] = m
    BY AppendProperties, LenProperties
  <1>2. channel' # << >> /\ (channel = << >> <=> Len(channel) = 0)
    BY <1>1, EmptySeq
  <1>3. LastGame' = m.game
    BY <1>1, <1>2 DEF LastGame
  <1>4. ASSUME NEW i, i = Len(channel) + 1 PROVE Before(i)' = LastGame
    BY <1>1, <1>2, <1>4 DEF Before, LastGame
  <1>5. ASSUME NEW i \in 1 .. Len(channel) PROVE Before(i)' = Before(i)
    BY <1>1, <1>5 DEF Before
  <1>6. EndsAreAnnounced => EndsAreAnnounced'
    <2> SUFFICES ASSUME EndsAreAnnounced, NEW i \in 1 .. Len(channel'),
                        channel'[i].type = "STATE" /\ channel'[i].over
                 PROVE  channel'[i].game \in ended' /\ Before(i)' = channel'[i].game
      BY DEF EndsAreAnnounced
    <2>1. CASE i \in 1 .. Len(channel)
      BY <1>1, <1>5, <2>1 DEF EndsAreAnnounced
    <2>2. CASE i = Len(channel) + 1
      BY <1>1, <1>4, <2>2
    <2> QED BY <1>1, <2>1, <2>2
  <1> QED BY <1>1, <1>2, <1>3, <1>6

-----------------------------------------------------------------------------
(* A board that is built anew holds every piece.                           *)
LEMMA BoardHoldsAll ==
    ASSUME NEW start \in Layouts, NEW p \in Pieces
    PROVE  \E c \in Cell : BoardOf(start)[c] = p
  <1>1. start[p] \in Cell /\ \A q \in Pieces : start[q] = start[p] => q = p
    BY LayoutAssumption DEF Placement
  <1>2. (CHOOSE q \in Pieces : start[q] = start[p]) = p
    BY <1>1
  <1>3. BoardOf(start)[start[p]] = p
    BY <1>1, <1>2 DEF BoardOf
  <1> QED BY <1>1, <1>3

(* A move that begins lasts at least as long as one cell takes.            *)
LEMMA MoveLasts ==
    ASSUME NEW src \in Cell, NEW dst \in Cell, validate_move(board, kind, src, dst)
    PROVE  Dist(src, dst) * MoveTime >= MoveTime
  <1>1. Dist(src, dst) \in Nat \ {0}
    BY DistPositive, LegalMoveLeaves
  <1>2. \A a, b \in Nat \ {0} : a * b >= b
    BY SMTT(30)
  <1> QED BY <1>1, <1>2, TimeAssumption

(* Requests of the players leave a match fresh.                            *)
LEMMA RequestsKeepFresh ==
    ASSUME IndInv, Fresh, Requests
    PROVE  Fresh'
  <1>1. /\ pstate \in [Pieces -> States] /\ motions \subseteq Motion
        /\ board \in [Cell -> Pieces \cup {NoPiece}] /\ due' = due
    BY DEF IndInv, TypeOK, Requests
  <1>2. ASSUME NEW src \in Cell, NEW dst \in Cell, RequestMove(src, dst) PROVE Fresh'
    <2> DEFINE n == [piece |-> board[src], source |-> src, dest |-> dst,
                     remaining |-> Dist(src, dst) * MoveTime]
    <2>1. /\ board' = [board EXCEPT ![src] = NoPiece]
          /\ pstate' = [pstate EXCEPT ![board[src]] = "MOVING"]
          /\ motions' = motions \cup {n} /\ n.piece = board[src]
          /\ UNCHANGED << kind, game_over >>
      BY <1>2 DEF RequestMove, start_motion, stateVars
    <2>2. n.remaining >= MoveTime
      BY <1>2, MoveLasts DEF RequestMove
    <2>3. ASSUME NEW p \in Pieces
          PROVE  /\ pstate'[p] # "CAPTURED"
                 /\ (\E c \in Cell : board'[c] = p) \/ (\E m \in motions' : m.piece = p)
      <3>1. CASE p = board[src]
        BY <1>1, <2>1, <3>1
      <3>2. CASE p # board[src]
        BY <1>1, <2>1, <3>2 DEF Fresh
      <3> QED BY <3>1, <3>2
    <2> HIDE DEF n
    <2> QED BY <1>1, <2>1, <2>2, <2>3 DEF Fresh
  <1>3. ASSUME NEW pos \in Cell, RequestJump(pos) PROVE Fresh'
    BY <1>1, <1>3 DEF RequestJump, stateVars, Fresh
  <1> QED BY <1>2, <1>3 DEF Requests

(* The update that first sees a motion ends before the motion does.        *)
LEMMA UpdateKeepsFresh ==
    ASSUME IndInv, Fresh, UpdateEngine, ms > 0 => ~due
    PROVE  Fresh'
  <1>1. /\ pstate \in [Pieces -> States] /\ motions \subseteq Motion /\ jumps \subseteq Jump
        /\ kind \in [Pieces -> Kinds] /\ ms \in Ticks \cup {0}
    BY DEF IndInv, TypeOK
  <1>2. ms > 0 => ms \in Nat /\ MoveTime \in Nat /\ ms < MoveTime
    BY <1>1, ClientAssumption, TimeAssumption
  <1>3. ASSUME NEW t \in Ticks, BeginUpdate(t), UNCHANGED due PROVE Fresh'
    BY <1>3 DEF BeginUpdate, boardVars, stateVars, Fresh
  <1>4. ASSUME NEW j \in jumps, HandleJump(j), UNCHANGED due PROVE Fresh'
    <2>1. UNCHANGED << board, kind, motions, game_over >>
      BY <1>4 DEF HandleJump, stateVars
    <2>2. j.piece \in Pieces
      BY <1>1 DEF Jump
    <2>3. \A p \in Pieces : pstate'[p] # "CAPTURED"
      BY <1>1, <1>4, <2>2 DEF HandleJump, Fresh
    <2> QED BY <1>4, <2>1, <2>3 DEF Fresh
  <1>5. ASSUME NEW m \in motions, HandleMotion(m) PROVE FALSE
    <2>1. ms > 0 /\ m.remaining <= ms
      BY <1>5 DEF HandleMotion, DueMotions
    <2>2. m.remaining >= MoveTime /\ m.remaining \in Nat
      BY <1>1, <2>1 DEF Fresh, Motion
    <2> QED BY <1>2, <2>1, <2>2
  <1>6. ASSUME EndUpdate, due' = TRUE PROVE Fresh'
    <2>1. /\ motions' = Aged(motions, ms) /\ ms > 0
          /\ UNCHANGED << board, pstate, kind >>
          /\ check_game_status(board, motions', jumps')
      BY <1>6 DEF EndUpdate, boardVars
    <2>2. ASSUME NEW m \in motions PROVE \E x \in motions' : x.piece = m.piece
      <3> DEFINE x == [m EXCEPT !.remaining = m.remaining - ms]
      <3>1. m \in Motion /\ m.remaining >= MoveTime
        BY <1>1, <2>1 DEF Fresh
      <3>2. m.remaining > ms
        BY <1>2, <2>1, <3>1 DEF Motion
      <3>3. x \in Aged(motions, ms)
        BY <3>2 DEF Aged
      <3>4. x.piece = m.piece
        BY <3>1 DEF Motion
      <3> QED BY <2>1, <3>3, <3>4
    <2>3. \A p \in Pieces : /\ pstate'[p] # "CAPTURED"
                            /\ \/ \E c \in Cell : board'[c] = p
                               \/ \E m \in motions' : m.piece = p
      BY <2>1, <2>2 DEF Fresh
    <2>4. ASSUME NEW c \in Colors, NEW p \in InitialKings(c)
          PROVE  p \in KingsLeft(c, board, motions', jumps')
      <3>1. p \in Pieces /\ kind[p] = "KING" /\ Color[p] = c
        BY DEF InitialKings, Fresh
      <3> QED BY <2>1, <2>3, <3>1 DEF KingsLeft
    <2>5. ~game_over'
      BY <2>1, <2>4 DEF check_game_status, Fresh
    <2> QED BY <1>6, <2>1, <2>3, <2>5 DEF Fresh
  <1> QED BY <1>3, <1>4, <1>5, <1>6 DEF UpdateEngine

-----------------------------------------------------------------------------
(* A step that leaves the queue and the client alone and adds to the       *)
(* matches that have ended.                                                *)
LEMMA QueueAtRest ==
    ASSUME UNCHANGED << channel, netVars, shown, shown_over >>, ended \subseteq ended'
    PROVE  /\ EndsAreAnnounced => EndsAreAnnounced'
           /\ VerdictsAreTrue => VerdictsAreTrue'
           /\ LastGame' = LastGame
  <1>1. LastGame' = LastGame /\ \A i : Before(i)' = Before(i)
    BY DEF LastGame, Before
  <1> QED BY <1>1 DEF EndsAreAnnounced, VerdictsAreTrue, netVars

(* MOVE and JUMP.                                                          *)
LEMMA RequestsInv ==
    ASSUME ClientInv, Requests
    PROVE  ClientInv'
  <1>1. IndInv'
    BY EngineStep DEF ClientInv, ClientNext
  <1>2. /\ UNCHANGED << serial, ended, due, channel, netVars, showVars >>
        /\ UNCHANGED << game_over, ms >>
    BY DEF Requests, RequestMove, RequestJump, stateVars, loopVars
  <1>3. ClientTypeOK'
    <2>1. victim' \in [Pieces -> Pieces \cup {NoPiece}]
      BY DEF Requests, ClientInv, ClientTypeOK, IndInv, TypeOK
    <2> QED BY <1>2, <2>1 DEF ClientInv, ClientTypeOK, netVars, showVars
  <1>4. EndsAreAnnounced' /\ VerdictsAreTrue' /\ LastGame' = LastGame
    BY <1>2, QueueAtRest DEF ClientInv, showVars
  <1>5. NewsIsFresh'
    BY <1>2, <1>4, RequestsKeepFresh DEF ClientInv, NewsIsFresh
  <1> QED BY <1>1, <1>2, <1>3, <1>4, <1>5 DEF ClientInv

(* process_matchmaking.                                                    *)
LEMMA NewMatchInv ==
    ASSUME ClientInv, NewMatch
    PROVE  ClientInv'
  <1> DEFINE m == [type |-> "MATCH_FOUND", game |-> serial']
  <1>1. IndInv'
    BY EngineStep DEF ClientInv, ClientNext
  <1>2. /\ UNCHANGED << ms, ended, due, npc, m_server_game_over, local_game_over, shown, shown_over >>
        /\ ms = 0 /\ ~game_over' /\ serial' \in Nat /\ channel \in Seq(Message)
        /\ channel' = channel \/ channel' = Append(channel, m)
        /\ victim' \in [Pieces -> Pieces \cup {NoPiece}]
    BY DEF NewMatch, ClientInv, ClientTypeOK, loopVars, netVars, showVars
  <1>3. m \in Message /\ m.type # "STATE" /\ m.game = serial'
    BY <1>2 DEF Message
  <1>4. Fresh'
    <2>1. \A p \in Pieces : \E c \in Cell : board'[c] = p
      BY BoardHoldsAll DEF NewMatch
    <2> QED BY <2>1 DEF NewMatch, Fresh
  <1>5. CASE channel' = channel
    <2>1. EndsAreAnnounced' /\ VerdictsAreTrue'
      BY <1>2, <1>5, QueueAtRest DEF ClientInv, netVars
    <2> QED BY <1>1, <1>2, <1>4, <1>5, <2>1 DEF ClientInv, ClientTypeOK, NewsIsFresh
  <1>6. CASE channel' = Append(channel, m)
    <2>1. /\ channel' \in Seq(Message)
          /\ channel # << >> => channel' # << >> /\ channel'[1] = channel[1]
          /\ EndsAreAnnounced'
      BY <1>2, <1>3, <1>6, LastIsPut DEF ClientInv
    <2>2. VerdictsAreTrue'
      BY <1>2, <2>1 DEF ClientInv, VerdictsAreTrue
    <2> QED BY <1>1, <1>2, <1>4, <2>1, <2>2 DEF ClientInv, ClientTypeOK, NewsIsFresh
  <1> QED BY <1>2, <1>5, <1>6

(* GameEngine::update in game_loop.                                        *)
LEMMA UpdateEngineInv ==
    ASSUME ClientInv, UpdateEngine
    PROVE  ClientInv'
  <1>1. IndInv'
    BY EngineStep DEF ClientInv, ClientNext, GameLoop
  <1>2. /\ UNCHANGED << serial, channel, netVars, showVars >>
        /\ ended \subseteq ended'
        /\ game_over' => serial' \in ended'
    BY DEF UpdateEngine
  <1>3. due' \in BOOLEAN /\ (ms' > 0 => ~due')
    <2>1. ASSUME NEW t \in Ticks, BeginUpdate(t), ~due, UNCHANGED due PROVE ~due'
      BY <2>1
    <2>2. CASE EndUpdate /\ due' = TRUE
      BY <2>2 DEF EndUpdate
    <2>3. CASE /\ (\E j \in jumps : HandleJump(j)) \/ \E m \in motions : HandleMotion(m)
               /\ UNCHANGED due
      BY <2>3 DEF HandleJump, HandleMotion, ClientInv, ClientTypeOK
    <2> QED BY <2>1, <2>2, <2>3 DEF UpdateEngine, ClientInv, ClientTypeOK
  <1>4. ClientTypeOK'
    <2>1. victim' \in [Pieces -> Pieces \cup {NoPiece}]
      BY DEF UpdateEngine, ClientInv, ClientTypeOK
    <2> QED BY <1>2, <1>3, <2>1 DEF ClientInv, ClientTypeOK, netVars, showVars
  <1>5. EndsAreAnnounced' /\ VerdictsAreTrue' /\ LastGame' = LastGame
    BY <1>2, QueueAtRest DEF ClientInv, showVars
  <1>6. NewsIsFresh'
    BY <1>2, <1>5, UpdateKeepsFresh DEF ClientInv, NewsIsFresh
  <1> QED BY <1>1, <1>2, <1>3, <1>4, <1>5, <1>6 DEF ClientInv

(* broadcast_state.                                                        *)
LEMMA BroadcastInv ==
    ASSUME ClientInv, broadcast_state
    PROVE  ClientInv'
  <1> DEFINE m == serialize_game_state
  <1>1. IndInv'
    BY EngineStep DEF ClientInv, ClientNext, GameLoop
  <1>2. /\ UNCHANGED << ms, game_over, victim, serial, ended, npc, m_server_game_over,
                        local_game_over, shown, shown_over >>
        /\ ms = 0 /\ due' = FALSE /\ channel \in Seq(Message)
        /\ channel' = Append(channel, m)
    BY DEF broadcast_state, ClientInv, ClientTypeOK, vars, loopVars, stateVars, netVars, showVars
  <1>3. m \in Message
    BY SnapshotType DEF Message, ClientInv
  <1>4. m.game = serial /\ m.over = game_over
    BY DEF serialize_game_state
  <1>5. game_over => serial \in ended /\ LastGame = serial
    BY DEF ClientInv, NewsIsFresh, Fresh
  <1> HIDE DEF m
  <1>6. /\ channel' \in Seq(Message)
        /\ channel # << >> => channel' # << >> /\ channel'[1] = channel[1]
        /\ EndsAreAnnounced'
        /\ LastGame' = serial
    BY <1>2, <1>3, <1>4, <1>5, LastIsPut DEF ClientInv
  <1>7. VerdictsAreTrue'
    BY <1>2, <1>6 DEF ClientInv, VerdictsAreTrue
  <1> QED BY <1>1, <1>2, <1>6, <1>7 DEF ClientInv, ClientTypeOK, NewsIsFresh

-----------------------------------------------------------------------------
(* The network and the GUI thread leave the server alone, so that a match  *)
(* stays fresh.                                                            *)
LEMMA ServerAtRest ==
    ASSUME UNCHANGED << vars, serverVars >>
    PROVE  /\ UNCHANGED << ms, due, game_over, victim, serial, ended >>
           /\ Fresh => Fresh'
  BY DEF vars, boardVars, timeVars, loopVars, stateVars, serverVars, Fresh

(* MATCH_FOUND on the client.                                              *)
LEMMA OnMatchFoundInv ==
    ASSUME ClientInv, OnMatchFound
    PROVE  ClientInv'
  <1>1. IndInv'
    BY EngineStep DEF ClientInv, ClientNext, NetworkThread
  <1>2. UNCHANGED << ms, due, game_over, victim, serial, ended >> /\ (Fresh => Fresh')
    BY ServerAtRest DEF OnMatchFound
  <1>3. /\ channel' \in Seq(Message) /\ EndsAreAnnounced' /\ LastGame' = LastGame
    BY <1>2, FirstIsTaken DEF OnMatchFound, ClientInv, ClientTypeOK
  <1>4. VerdictsAreTrue'
    BY DEF OnMatchFound, VerdictsAreTrue
  <1>5. ClientTypeOK'
    BY <1>2, <1>3 DEF OnMatchFound, ClientInv, ClientTypeOK
  <1> QED BY <1>1, <1>2, <1>3, <1>4, <1>5 DEF ClientInv, NewsIsFresh

(* parse_and_update_state up to the lock: the snapshot is about the match  *)
(* on the screen whenever it reports an end.                               *)
LEMMA DecideInv ==
    ASSUME ClientInv, Decide
    PROVE  ClientInv'
  <1>1. IndInv'
    BY EngineStep DEF ClientInv, ClientNext, NetworkThread
  <1>2. /\ UNCHANGED << ms, due, game_over, victim, serial, ended >> /\ (Fresh => Fresh')
        /\ UNCHANGED << channel, shown, shown_over >>
        /\ npc' = "merge"
        /\ m_server_game_over' = channel[1].over
        /\ local_game_over' = Verdict(channel[1].over)
        /\ channel # << >> /\ channel[1].type = "STATE" /\ channel \in Seq(Message)
    BY ServerAtRest DEF Decide, showVars, ClientInv, ClientTypeOK
  <1>3. 1 \in 1 .. Len(channel) /\ channel[1] \in Message
    BY <1>2, EmptySeq, LenProperties, ElementOfSeq
  <1>4. channel[1] \in Snapshot
    BY <1>2, <1>3 DEF Message
  <1>5. channel[1].over \in BOOLEAN
    BY <1>4 DEF Snapshot
  <1>6. channel[1].over => shown \in ended
    BY <1>2, <1>3 DEF ClientInv, EndsAreAnnounced, Before
  <1>7. LastGame' = LastGame /\ \A i : Before(i)' = Before(i)
    BY <1>2 DEF LastGame, Before
  <1>8. EndsAreAnnounced'
    BY <1>2, <1>7 DEF ClientInv, EndsAreAnnounced
  <1>9. VerdictsAreTrue'
    BY <1>2, <1>6 DEF ClientInv, VerdictsAreTrue, Verdict
  <1>10. ClientTypeOK'
    BY <1>2, <1>5 DEF ClientInv, ClientTypeOK, Verdict
  <1> QED BY <1>1, <1>2, <1>7, <1>8, <1>9, <1>10 DEF ClientInv, NewsIsFresh

(* The rest of parse_and_update_state: the verdict reached before the lock *)
(* is about the snapshot that is merged now.                               *)
LEMMA MergeInv ==
    ASSUME ClientInv, Merge
    PROVE  ClientInv'
  <1>1. IndInv'
    BY EngineStep DEF ClientInv, ClientNext, NetworkThread
  <1>2. /\ UNCHANGED << ms, due, game_over, victim, serial, ended >> /\ (Fresh => Fresh')
        /\ npc = "merge" /\ npc' = "idle"
        /\ shown' = Head(channel).game
        /\ shown_over' = local_game_over /\ local_game_over' = FALSE
        /\ channel' = Tail(channel)
        /\ UNCHANGED m_server_game_over
    BY ServerAtRest DEF Merge
  <1>3. /\ channel # << >> /\ channel[1].type = "STATE" /\ channel \in Seq(Message)
        /\ m_server_game_over = channel[1].over
        /\ local_game_over => channel[1].over
    BY <1>2 DEF ClientInv, VerdictsAreTrue, ClientTypeOK
  <1>4. 1 \in 1 .. Len(channel) /\ Head(channel) = channel[1]
    BY <1>3, EmptySeq, LenProperties, HeadTailProperties
  <1>5. channel[1].over => shown' \in ended'
    BY <1>2, <1>3, <1>4 DEF ClientInv, EndsAreAnnounced
  <1>6. channel' \in Seq(Message) /\ EndsAreAnnounced' /\ LastGame' = LastGame
    BY <1>2, <1>3, FirstIsTaken DEF ClientInv
  <1>7. VerdictsAreTrue'
    BY <1>2, <1>3, <1>5 DEF VerdictsAreTrue
  <1>8. ClientTypeOK'
    BY <1>2, <1>6 DEF ClientInv, ClientTypeOK
  <1> QED BY <1>1, <1>2, <1>6, <1>7, <1>8 DEF ClientInv, NewsIsFresh

(* advance_animations: it may show the end between the decision about a    *)
(* snapshot and its merge.                                                 *)
LEMMA AdvanceInv ==
    ASSUME ClientInv, NEW t \in Frames, advance_animations(t)
    PROVE  ClientInv'
  <1>1. IndInv'
    BY EngineStep DEF ClientInv, ClientNext, GuiThread
  <1>2. /\ UNCHANGED << ms, due, game_over, victim, serial, ended >> /\ (Fresh => Fresh')
        /\ UNCHANGED << channel, npc, m_server_game_over, local_game_over, shown >>
        /\ shown_over' = (shown_over \/ (m_server_game_over /\ ~KingCaptureUnderWay(anim')))
    BY ServerAtRest DEF advance_animations, netVars
  <1>3. LastGame' = LastGame /\ \A i : Before(i)' = Before(i)
    BY <1>2 DEF LastGame, Before
  <1>4. EndsAreAnnounced'
    BY <1>2, <1>3 DEF ClientInv, EndsAreAnnounced
  <1>5. VerdictsAreTrue'
    BY <1>2 DEF ClientInv, VerdictsAreTrue
  <1>6. ClientTypeOK'
    BY <1>2 DEF ClientInv, ClientTypeOK
  <1> QED BY <1>1, <1>2, <1>3, <1>4, <1>5, <1>6 DEF ClientInv, NewsIsFresh

-----------------------------------------------------------------------------
(* Nothing has been sent and nothing is shown.                             *)
LEMMA ClientStart == ClientInit => ClientInv
  <1> SUFFICES ASSUME ClientInit PROVE ClientInv
    OBVIOUS
  <1>1. IndInv
    BY InitInd DEF ClientInit
  <1>2. channel = << >> /\ Len(channel) = 0 /\ channel \in Seq(Message)
    BY EmptySeq DEF ClientInit
  <1>3. LastGame = serial
    BY DEF ClientInit, LastGame
  <1>4. ClientTypeOK
    BY <1>2 DEF ClientInit, ClientTypeOK
  <1>5. EndsAreAnnounced /\ VerdictsAreTrue
    BY <1>2 DEF ClientInit, EndsAreAnnounced, VerdictsAreTrue
  <1> QED BY <1>1, <1>3, <1>4, <1>5 DEF ClientInit, Init, ClientInv, NewsIsFresh

(* Every step of the server, of the connection and of the client.          *)
LEMMA ClientStep == ClientInv /\ [ClientNext]_allVars => ClientInv'
  <1> SUFFICES ASSUME ClientInv, [ClientNext]_allVars PROVE ClientInv'
    OBVIOUS
  <1>1. CASE UNCHANGED allVars
    <2>1. IndInv'
      BY EngineStep DEF ClientInv
    <2>2. /\ UNCHANGED << ms, due, game_over, victim, serial, ended >> /\ (Fresh => Fresh')
          /\ UNCHANGED << channel, netVars, shown, shown_over >>
      BY <1>1, ServerAtRest DEF allVars, clientVars, showVars
    <2>3. EndsAreAnnounced' /\ VerdictsAreTrue' /\ LastGame' = LastGame
      BY <2>2, QueueAtRest DEF ClientInv
    <2> QED BY <2>1, <2>2, <2>3 DEF ClientInv, ClientTypeOK, NewsIsFresh, netVars
  <1> QED BY <1>1, RequestsInv, NewMatchInv, UpdateEngineInv, BroadcastInv, OnMatchFoundInv,
             DecideInv, MergeInv, AdvanceInv
          DEF ClientNext, GameLoop, NetworkThread, GuiThread

(* ClientInv holds in every state of the server, the queue and the client. *)
THEOREM ClientInvariant == ClientSpec => []ClientInv
  BY ClientStart, ClientStep, PTL DEF ClientSpec

(* The client shows the end only of a match that has ended.                *)
THEOREM ShownEndsAreReal == ClientSpec => []ShownGameOverIsReal
  <1>1. ClientInv => ShownGameOverIsReal
    BY DEF ClientInv, VerdictsAreTrue, ShownGameOverIsReal
  <1> QED BY <1>1, ClientInvariant, PTL

=============================================================================
