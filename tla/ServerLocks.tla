----------------------------- MODULE ServerLocks -----------------------------
(***************************************************************************)
(* The locking of network::SocketServer and the way of a sound through it. *)
(* Engines publish PLAY_SOUND on pubsub::MessageBus, which calls the       *)
(* server's subscriber in the publishing thread; the subscriber routes the *)
(* sound by tls_current_room_id and takes m_sounds_mutex and then          *)
(* m_rooms_mutex, whatever the thread holds already.                       *)
(*                                                                         *)
(* A handler is the sequence of its lock_guard scopes and of the accesses  *)
(* to rooms and sounds between them; code[t] is what thread t has still to *)
(* do.  Branches that differ in their locks are different sequences.  What *)
(* else the handlers do is in SocketServer, and UserManager's use of its   *)
(* own mutex is in UserStore: here it is one scope.                        *)
(***************************************************************************)
EXTENDS Naturals, Sequences, FiniteSets, SequencesExt

CONSTANTS
    Rooms,      \* the ids generate_room_id hands out
    NoRoom,     \* the empty id
    NoThread    \* the owner of a free mutex

Threads == {"websocket", "game"}
Mutexes == {"m_clients_mutex", "m_rooms_mutex", "m_sounds_mutex", "log_mutex", "users_mutex"}
Games   == Rooms \cup {"match"}

ASSUME LocksAssumption == /\ NoRoom \notin Rooms
                          /\ "match" \notin Rooms
                          /\ NoThread \notin Threads
                          /\ IsFiniteSet(Rooms)

VARIABLES
    code,               \* what each thread has still to do in its current handler
    owner,              \* the thread that holds each mutex
    tls_current_room_id,
    m_rooms,            \* the ids in SocketServer::m_rooms
    used,               \* the ids generate_room_id has handed out
    m_pending_sounds,   \* the games whose sounds wait for the players of the match
    pending_sounds      \* Room::pending_sounds: likewise for each room

vars == << code, owner, tls_current_room_id, m_rooms, used, m_pending_sounds, pending_sounds >>

Init ==
    /\ code = [t \in Threads |-> << >>]
    /\ owner = [m \in Mutexes |-> NoThread]
    /\ tls_current_room_id = [t \in Threads |-> NoRoom]
    /\ m_rooms = {} /\ used = {}
    /\ m_pending_sounds = {}
    /\ pending_sounds = [r \in Rooms |-> {}]

-----------------------------------------------------------------------------
(* Instructions, and the scope of a lock_guard.                            *)

Do(op, arg) == << [op |-> op, arg |-> arg] >>

Scope(m, body) == Do("lock", m) \o body \o Do("unlock", m)

Clients(body) == Scope("m_clients_mutex", body)
InRooms(body) == Scope("m_rooms_mutex", body)
log_server_activity == Scope("log_mutex", << >>)
UserManager         == Scope("users_mutex", << >>)

(* An engine may publish a sound, or not: it is given the game it plays.   *)
Engine(g) == Do("publish", g)

set_game_over_Announced == Do("publish", "match")

(* GameState::set_game_over publishes nothing: on_close calls it with      *)
(* m_clients_mutex and m_rooms_mutex held.                                 *)
set_game_over == << >>

(* The sounds of a room are sent to its players and cleared, without a     *)
(* lock of its own: MOVE calls this with m_rooms_mutex held.               *)
broadcast_room_state(r) == Do("clear", r)

(* The subscriber of PLAY_SOUND, in a thread that works for room r.        *)
Subscriber(r, g) ==
    Scope("m_sounds_mutex", IF r # NoRoom
                            THEN InRooms(Do("push", << r, g >>))
                            ELSE Do("push", << NoRoom, g >>))

-----------------------------------------------------------------------------
(* The websocket thread: the sequences of each handler.                    *)

on_open == {Clients(<< >>)}

on_close == {Clients(<< >>), Clients(InRooms(<< >>)), Clients(InRooms(log_server_activity)),
             Clients(InRooms(set_game_over \o log_server_activity))}

(* on_message looks the sender up before it reads the command.             *)
Command(bodies) == {Clients(<< >>) \o b : b \in bodies}

Login == Command({UserManager,
                  UserManager \o Clients(<< >>) \o InRooms(<< >>),
                  UserManager \o Clients(<< >>) \o InRooms(log_server_activity)})

Search == Command({Clients(<< >>)})

CreateRoom == Command({Clients(<< >>) \o InRooms(Do("erase", S)) \o InRooms(Do("add", r))
                           \o log_server_activity : S \in SUBSET m_rooms, r \in Rooms \ used})

JoinRoom == Command({Clients(<< >>) \o InRooms(<< >>) \o log_server_activity})

(* MOVE and JUMP of a client in room r: an old sequence number, a room     *)
(* that refuses, a piece that is not the client's, or a call of the engine *)
(* (the one of the match when the room has been erased).                   *)
Lookup(r) == IF r = NoRoom THEN << >> ELSE InRooms(<< >>)

EngineOf(r) == IF r \in m_rooms THEN r ELSE "match"

Request(r, after) ==
    Command({Clients(<< >>) \o rest : rest \in
        {<< >>,
         Do("tls", r) \o Lookup(r) \o Do("tls", NoRoom),
         Do("tls", r) \o Lookup(r) \o Engine(EngineOf(r)) \o log_server_activity \o after
             \o Do("tls", NoRoom)}
        \cup {Do("tls", r) \o InRooms(Do("tls", NoRoom)) : x \in {r} \cap m_rooms}})

Move(r) ==
    Request(r, IF r = NoRoom THEN << >>
               ELSE InRooms(IF r \in m_rooms THEN broadcast_room_state(r) ELSE << >>))

Jump(r) == Request(r, << >>)

HandlersOfSockets ==
    on_open \cup on_close \cup Login \cup Search \cup CreateRoom \cup JoinRoom
    \cup UNION {Move(r) \cup Jump(r) : r \in used \cup {NoRoom}}

-----------------------------------------------------------------------------
(* The game thread: one turn of game_loop.  "copy" appends a turn for      *)
(* each room that it finds.                                                *)

process_matchmaking == Clients(<< >>)

(* The players of the match are looked up; its result is booked if there   *)
(* are two of them.                                                        *)
FindPlayers == Clients(<< >>)
MatchOver   == FindPlayers \o UserManager \o log_server_activity

broadcast_state ==
    Clients(<< >>) \o Scope("m_sounds_mutex", Do("take", NoRoom)) \o Clients(<< >>)

game_loop ==
    {process_matchmaking \o Engine("match") \o over \o broadcast_state \o InRooms(Do("copy", NoRoom))
        : over \in {<< >>, FindPlayers, MatchOver}}

UpdateOf_KeepingRoom(r) == Do("tls", r) \o Engine(r)

UpdateOf(r) == Do("tls", r) \o Engine(r) \o Do("tls", NoRoom)

(* A forfeit and the booking of a result are optional parts of a turn.     *)
Forfeit(r) == set_game_over \o Do("forfeit", r) \o log_server_activity
RoomOver   == UserManager \o log_server_activity

TurnOf(r, forfeit, over) == UpdateOf(r) \o forfeit \o over \o broadcast_room_state(r)

RoomTurn(r) ==
    {TurnOf(r, forfeit, over) : forfeit \in {<< >>, Forfeit(r)}, over \in {<< >>, RoomOver}}

-----------------------------------------------------------------------------
Enter(t, handler) ==
    /\ code[t] = << >>
    /\ code' = [code EXCEPT ![t] = handler]
    /\ UNCHANGED << owner, tls_current_room_id, m_rooms, used, m_pending_sounds, pending_sounds >>

(* What thread t does next, and what it has to do after that.              *)
At(t, op)   == code[t] # << >> /\ Head(code[t]).op = op
Arg(t)      == Head(code[t]).arg
Goto(t, s)  == code' = [code EXCEPT ![t] = s \o Tail(@)]

Lock(t) ==
    /\ At(t, "lock")
    /\ owner[Arg(t)] = NoThread
    /\ owner' = [owner EXCEPT ![Arg(t)] = t]
    /\ Goto(t, << >>)
    /\ UNCHANGED << tls_current_room_id, m_rooms, used, m_pending_sounds, pending_sounds >>

Unlock(t) ==
    /\ At(t, "unlock")
    /\ owner' = [owner EXCEPT ![Arg(t)] = NoThread]
    /\ Goto(t, << >>)
    /\ UNCHANGED << tls_current_room_id, m_rooms, used, m_pending_sounds, pending_sounds >>

SetRoom(t) ==
    /\ At(t, "tls")
    /\ tls_current_room_id' = [tls_current_room_id EXCEPT ![t] = Arg(t)]
    /\ Goto(t, << >>)
    /\ UNCHANGED << owner, m_rooms, used, m_pending_sounds, pending_sounds >>

(* MessageBus::publish calls the subscriber there and then.                *)
Publish(t) ==
    /\ At(t, "publish")
    /\ \E sound \in BOOLEAN :
          Goto(t, IF sound THEN Subscriber(tls_current_room_id[t], Arg(t)) ELSE << >>)
    /\ UNCHANGED << owner, tls_current_room_id, m_rooms, used, m_pending_sounds, pending_sounds >>

(* The sound of a room that is not in m_rooms any more is dropped.         *)
Push(t) ==
    /\ At(t, "push")
    /\ LET r == Arg(t)[1]
           g == Arg(t)[2]
       IN  IF r = NoRoom
           THEN m_pending_sounds' = m_pending_sounds \cup {g} /\ UNCHANGED pending_sounds
           ELSE /\ pending_sounds' = [x \in Rooms |-> IF x = r /\ r \in m_rooms
                                                      THEN pending_sounds[x] \cup {g}
                                                      ELSE pending_sounds[x]]
                /\ UNCHANGED m_pending_sounds
    /\ Goto(t, << >>)
    /\ UNCHANGED << owner, tls_current_room_id, m_rooms, used >>

(* A forfeit adds the sound to the room it holds, without a lock.          *)
PushUnlocked(t) ==
    /\ At(t, "forfeit")
    /\ pending_sounds' = [pending_sounds EXCEPT ![Arg(t)] = @ \cup {Arg(t)}]
    /\ Goto(t, << >>)
    /\ UNCHANGED << owner, tls_current_room_id, m_rooms, used, m_pending_sounds >>

Clear(t) ==
    /\ At(t, "clear")
    /\ pending_sounds' = [pending_sounds EXCEPT ![Arg(t)] = {}]
    /\ Goto(t, << >>)
    /\ UNCHANGED << owner, tls_current_room_id, m_rooms, used, m_pending_sounds >>

Take(t) ==
    /\ At(t, "take")
    /\ m_pending_sounds' = {}
    /\ Goto(t, << >>)
    /\ UNCHANGED << owner, tls_current_room_id, m_rooms, used, pending_sounds >>

EraseRooms(t) ==
    /\ At(t, "erase")
    /\ m_rooms' = m_rooms \ Arg(t)
    /\ Goto(t, << >>)
    /\ UNCHANGED << owner, tls_current_room_id, used, m_pending_sounds, pending_sounds >>

AddRoom(t) ==
    /\ At(t, "add")
    /\ m_rooms' = m_rooms \cup {Arg(t)} /\ used' = used \cup {Arg(t)}
    /\ Goto(t, << >>)
    /\ UNCHANGED << owner, tls_current_room_id, m_pending_sounds, pending_sounds >>

(* rooms_copy is a snapshot: a room erased meanwhile still has its turn.   *)
CopyRooms(t) ==
    /\ At(t, "copy")
    /\ LET rooms_copy == SetToSeq(m_rooms)
       IN  code' = [code EXCEPT ![t] =
               Tail(@) \o [i \in DOMAIN rooms_copy |-> [op |-> "turn", arg |-> rooms_copy[i]]]]
    /\ UNCHANGED << owner, tls_current_room_id, m_rooms, used, m_pending_sounds, pending_sounds >>

TakeTurn(t) ==
    /\ At(t, "turn")
    /\ \E turn \in RoomTurn(Arg(t)) : Goto(t, turn)
    /\ UNCHANGED << owner, tls_current_room_id, m_rooms, used, m_pending_sounds, pending_sounds >>

Step(t) ==
    \/ Lock(t) \/ Unlock(t) \/ SetRoom(t) \/ Publish(t) \/ Push(t) \/ PushUnlocked(t)
    \/ Clear(t) \/ Take(t) \/ EraseRooms(t) \/ AddRoom(t) \/ CopyRooms(t) \/ TakeTurn(t)

Next ==
    \/ \E h \in HandlersOfSockets : Enter("websocket", h)
    \/ \E h \in game_loop : Enter("game", h)
    \/ \E t \in Threads : Step(t)

Spec == Init /\ [][Next]_vars

-----------------------------------------------------------------------------
(* No thread waits for a mutex that it holds itself, or that the other     *)
(* holds while it waits for one of this thread's: on_close takes clients   *)
(* then rooms, the subscriber sounds then rooms, from inside whatever      *)
(* scope the publishing engine was called in.                              *)
WaitsFor(t) ==
    IF At(t, "lock") /\ owner[Arg(t)] # NoThread THEN {owner[Arg(t)]} ELSE {}

NoCircularWait ==
    \A t \in Threads : \A u \in WaitsFor(t) : u # t /\ t \notin WaitsFor(u)

(* A sound is heard by the players of the game it comes from: the room id  *)
(* that the publishing thread carries is that of the engine it is in, also *)
(* when two threads publish at once, requests return early, and rooms are  *)
(* erased under a turn of the loop.                                        *)
SoundsStayInTheirGame ==
    /\ m_pending_sounds \subseteq {"match"}
    /\ \A r \in Rooms : pending_sounds[r] \subseteq {r}

=============================================================================
