---------------------------- MODULE SocketServer ----------------------------
(***************************************************************************)
(* network::SocketServer: the connections, the rooms with their two seats, *)
(* the matchmaking queue, and the game loop that advances games, forfeits  *)
(* abandoned ones and books results.                                       *)
(*                                                                         *)
(* Two threads run.  The websocket thread executes on_open, on_close and   *)
(* on_message one handler at a time; it is the only writer of the seats,   *)
(* so a handler is one action.  The exception is on_close: it marks a room *)
(* as waiting before it writes when the wait began, and the game thread    *)
(* can look in between (closing); both mutexes are held meanwhile.  The    *)
(* game thread runs game_loop; it reads rooms without m_rooms_mutex, so    *)
(* each of its reads that a handler can invalidate is a step of its own    *)
(* (gpc).  process_matchmaking holds m_clients_mutex throughout, so it is  *)
(* one step too.                                                           *)
(*                                                                         *)
(* A game is abstracted to: has anybody moved, is it over.  Who wins, how  *)
(* long players search and whose ratings are within 100 points of each     *)
(* other is left open.  Clients follow the GUI: they log in, use the       *)
(* opening menu until they see the answer that opens the board ("told"     *)
(* while it is on its way, so that menu commands cross it), and then play. *)
(* CREATE_ROOM and JOIN_ROOM write the colour and is_searching without     *)
(* m_clients_mutex; a match made in between leaves what a FIND_MATCH right *)
(* behind the command leaves.                                              *)
(***************************************************************************)
EXTENDS Naturals, Sequences, FiniteSets

CONSTANTS
    Conns,      \* websocket connections; a player who returns has a new one
    Users,      \* account names
    UserOf,     \* the account each connection logs in with
    Rooms,      \* the ids generate_room_id hands out
    Names,      \* room names typed by players; some may be ids of rooms
    NoConn, NoRoom, NoUser,
    MaxMatches  \* bound: how many matches process_matchmaking makes

ASSUME UserAssumption == UserOf \in [Conns -> Users]
ASSUME BoundAssumption == MaxMatches \in Nat
ASSUME NoneAssumption == NoConn \notin Conns /\ NoRoom \notin Rooms /\ NoUser \notin Users

VARIABLES
    m_clients,  \* SocketServer::m_clients, in connection order
    client,     \* ClientInfo of each connection
    screen,     \* what the GUI behind each connection shows
    live,       \* the ids in SocketServer::m_rooms
    room,       \* Room of each id
    closing,    \* the room on_close is at work on, before it starts the countdown
    match,      \* m_game_engine and m_elo_updated_for_game
    booked,     \* how often each game got an ELO update and a history line
    gpc,        \* where the game thread is in game_loop
    todo,       \* rooms_copy, the part not processed yet
    crashed     \* the game thread dereferenced an empty seat

vars == << m_clients, client, screen, live, room, closing, match, booked, gpc, todo, crashed >>
gameVars == << gpc, todo, booked, crashed >>

Seats   == {"WHITE", "BLACK"}
Roles   == Seats \cup {"VIEWER"}
Screens == {"off", "login", "menu", "told", "game", "gone"}
Steps   == {"sleep", "match", "snapshot", "rooms",
            "window", "forfeit", "settle", "book"}

(* overdue: disconnect_start_time is 20 seconds or more ago, as it is for  *)
(* the epoch a new room holds.  started (both seats have been taken),      *)
(* expired (20 seconds have passed since a countdown began) and early (the *)
(* game thread took the wait for over while on_close had not yet written   *)
(* its beginning) record the past of a room for the properties below.      *)
Client == [user : Users \cup {NoUser}, color : Roles, room : Rooms \cup {NoRoom},
           is_viewer : BOOLEAN, is_searching : BOOLEAN]
Room   == [name : Names, seat : [Seats -> Conns \cup {NoConn}], played : BOOLEAN,
           over : BOOLEAN, elo_updated : BOOLEAN, is_disconnected : BOOLEAN,
           disconnected : Users \cup {NoUser}, overdue : BOOLEAN,
           started : BOOLEAN, expired : BOOLEAN, early : BOOLEAN]

NewClient == [user |-> NoUser, color |-> "VIEWER", room |-> NoRoom,
              is_viewer |-> FALSE, is_searching |-> FALSE]
NewRoom_Missing(name, c) == NoRoom

NewRoom(name, c) ==
    [name |-> name, seat |-> [s \in Seats |-> IF s = "WHITE" THEN c ELSE NoConn],
     played |-> FALSE, over |-> FALSE, elo_updated |-> FALSE, is_disconnected |-> FALSE,
     disconnected |-> NoUser, overdue |-> TRUE,
     started |-> FALSE, expired |-> FALSE, early |-> FALSE]

Games == Rooms \cup (0 .. MaxMatches)   \* the matches are numbered

(* An id without a room, and the two kinds of games, can be told apart.    *)
ASSUME GamesAssumption == NoRoom \notin Room /\ Rooms \cap (0 .. MaxMatches) = {}

Connected == {m_clients[i] : i \in 1 .. Len(m_clients)}
UnusedRooms == {r \in Rooms : room[r] = NoRoom}

Init ==
    /\ m_clients = << >>
    /\ client = [c \in Conns |-> NewClient]
    /\ screen = [c \in Conns |-> "off"]
    /\ live = {}
    /\ room = [r \in Rooms |-> NoRoom] /\ closing = NoRoom
    /\ match = [serial |-> 0, played |-> FALSE, over |-> FALSE, elo_updated |-> FALSE]
    /\ booked = [g \in Games |-> 0]
    /\ gpc = "sleep" /\ todo = {} /\ crashed = FALSE

-----------------------------------------------------------------------------
(* The websocket thread.                                                   *)

on_open(c) ==
    /\ ~crashed /\ closing = NoRoom
    /\ screen[c] = "off"
    /\ m_clients' = Append(m_clients, c)
    /\ screen' = [screen EXCEPT ![c] = "login"]
    /\ UNCHANGED << client, live, room, closing, match, gameVars >>

Abandon_OnFirst(r, c) ==
    [room[r] EXCEPT !.seat = [s \in Seats |-> IF @[s] = c THEN NoConn ELSE @[s]],
                    !.over = TRUE, !.is_disconnected = FALSE]

(* What on_close does to the room of the connection: empty the seat, then  *)
(* close the game if nobody is left, or begin to wait for the player.      *)
Abandon(r, c) ==
    LET rm   == room[r]
        mine == {s \in Seats : rm.seat[s] = c}
        seat == [s \in Seats |-> IF s \in mine THEN NoConn ELSE rm.seat[s]]
    IN  IF \A s \in Seats : seat[s] = NoConn
        THEN [rm EXCEPT !.seat = seat, !.over = TRUE, !.is_disconnected = FALSE]
        ELSE IF mine # {} /\ ~rm.over
        THEN [rm EXCEPT !.seat = seat, !.is_disconnected = TRUE,
                        !.disconnected = client[c].user]
        ELSE [rm EXCEPT !.seat = seat]

(* Does on_close leave the room waiting, with the countdown still to start? *)
BeginsToWait(r, c) ==
    /\ ~room[r].over
    /\ \E s \in Seats : room[r].seat[s] = c
    /\ \E s \in Seats : room[r].seat[s] \notin {c, NoConn}

(* std::vector::erase of one element.                                      *)
erase(s, i) == SubSeq(s, 1, i - 1) \o SubSeq(s, i + 1, Len(s))

(* on_close up to the countdown, and all of it if none is started.  The    *)
(* ClientInfo leaves m_clients; a room that still holds it reads no more   *)
(* of it than the name.                                                    *)
on_close(c) ==
    /\ ~crashed /\ closing = NoRoom
    /\ \E i \in 1 .. Len(m_clients) :
          /\ m_clients[i] = c
          /\ m_clients' = erase(m_clients, i)
    /\ room' = [r \in Rooms |-> IF r \in live /\ r = client[c].room THEN Abandon(r, c) ELSE room[r]]
    /\ closing' = IF client[c].room \in live /\ BeginsToWait(client[c].room, c)
                  THEN client[c].room ELSE NoRoom
    /\ screen' = [screen EXCEPT ![c] = "gone"]
    /\ client' = [client EXCEPT ![c] = [NewClient EXCEPT !.user = client[c].user,
                                                         !.room = client[c].room]]
    /\ UNCHANGED << live, match, gameVars >>

(* The end of on_close: disconnect_start_time is now.                      *)
StartCountdown ==
    /\ ~crashed /\ closing # NoRoom
    /\ room' = [room EXCEPT ![closing].overdue = FALSE]
    /\ closing' = NoRoom
    /\ UNCHANGED << m_clients, client, screen, live, match, gameVars >>

(* LOGIN: authenticate_or_register accepts every name and password.  A     *)
(* user whose room waits for them is put back into it; the search for the  *)
(* seat compares names with the connections that hold the seats now.       *)
Waiting(u) == {r \in live : room[r].is_disconnected /\ room[r].disconnected = u}

HeldBy(r, s, u) == room[r].seat[s] # NoConn /\ client[room[r].seat[s]].user = u

Reconnect(c, u, r) ==
    LET seats == IF HeldBy(r, "WHITE", u) THEN {"WHITE"}
                 ELSE IF HeldBy(r, "BLACK", u) THEN {"BLACK"} ELSE {}
        seat  == [s \in Seats |-> IF s \in seats THEN c ELSE room[r].seat[s]]
        color == IF seats = {} THEN client[c].color ELSE CHOOSE s \in seats : TRUE
    IN  /\ room' = [room EXCEPT ![r] = [room[r] EXCEPT !.seat = seat, !.is_disconnected = FALSE,
                                                       !.disconnected = NoUser]]
        /\ client' = [client EXCEPT ![c] = [client[c] EXCEPT !.user = u, !.room = r, !.color = color]]
        /\ screen' = [screen EXCEPT ![c] = "told"]

Login(c) ==
    /\ ~crashed /\ closing = NoRoom
    /\ screen[c] = "login"
    /\ \/ \E r \in Waiting(UserOf[c]) : ~room[r].over /\ Reconnect(c, UserOf[c], r)
       \/ /\ Waiting(UserOf[c]) = {} \/ \E r \in Waiting(UserOf[c]) : room[r].over
          /\ client' = [client EXCEPT ![c].user = UserOf[c]]
          /\ screen' = [screen EXCEPT ![c] = "menu"]
          /\ UNCHANGED room
    /\ UNCHANGED << m_clients, live, closing, match, gameVars >>

(* Menu commands.  A client that has not seen the answer to the last one   *)
(* may send another.                                                       *)
InMenu(c) == screen[c] \in {"menu", "told"}

FindMatch(c) ==
    /\ ~crashed /\ closing = NoRoom
    /\ InMenu(c)
    /\ client' = [client EXCEPT ![c].is_searching = TRUE]
    /\ UNCHANGED << m_clients, screen, live, room, closing, match, gameVars >>

CancelMatch(c) ==
    /\ ~crashed /\ closing = NoRoom
    /\ InMenu(c)
    /\ client' = [client EXCEPT ![c].is_searching = FALSE]
    /\ UNCHANGED << m_clients, screen, live, room, closing, match, gameVars >>

(* The ClientInfo of a client that has taken a seat.                       *)
Seated(info, r, color) ==
    [info EXCEPT !.room = r, !.color = color, !.is_viewer = FALSE, !.is_searching = FALSE]

CreateRoom(c, name) ==
    /\ ~crashed /\ closing = NoRoom
    /\ InMenu(c)
    /\ \E r \in UnusedRooms :
          /\ live' = {x \in live : name \notin {room[x].name, x}} \cup {r}
          /\ room' = [room EXCEPT ![r] = NewRoom(name, c)]
          /\ client' = [client EXCEPT ![c] = Seated(@, r, "WHITE")]
    /\ screen' = [screen EXCEPT ![c] = "told"]
    /\ UNCHANGED << m_clients, closing, match, gameVars >>

JoinAsBlack_Unchecked(c, r) ==
    /\ room' = [room EXCEPT ![r].seat["BLACK"] = c]
    /\ client' = [client EXCEPT ![c] = Seated(@, r, "BLACK")]

(* JOIN_ROOM seats the client as BLACK if that seat is free.               *)
JoinAsBlack(c, r) ==
    /\ room[r].seat["BLACK"] = NoConn
    /\ LET seat    == [room[r].seat EXCEPT !["BLACK"] = c]
           started == room[r].started \/ room[r].seat["WHITE"] # NoConn
       IN  room' = [room EXCEPT ![r] = [room[r] EXCEPT !.seat = seat, !.started = started]]
    /\ client' = [client EXCEPT ![c] = Seated(@, r, "BLACK")]

JoinAsViewer_Unmarked(c, r) ==
    /\ room[r].seat["BLACK"] # NoConn
    /\ client' = [client EXCEPT ![c].room = r, ![c].color = "VIEWER"]
    /\ UNCHANGED room

JoinAsViewer(c, r) ==
    /\ room[r].seat["BLACK"] # NoConn
    /\ client' = [client EXCEPT ![c] = [@ EXCEPT !.room = r, !.color = "VIEWER", !.is_viewer = TRUE]]
    /\ UNCHANGED room

JoinRoom(c, r) ==
    /\ ~crashed /\ closing = NoRoom
    /\ InMenu(c)
    /\ r \in live
    /\ JoinAsBlack(c, r) \/ JoinAsViewer(c, r)
    /\ screen' = [screen EXCEPT ![c] = "told"]
    /\ UNCHANGED << m_clients, live, closing, match, gameVars >>

(* ROOM_CREATED, ROOM_JOINED or MATCH_FOUND reaches the client.            *)
OpenBoard(c) ==
    /\ screen[c] = "told"
    /\ screen' = [screen EXCEPT ![c] = "game"]
    /\ UNCHANGED << m_clients, client, live, room, closing, match, gameVars >>

(* MOVE and JUMP: the game a request of c is applied to.  If the room of   *)
(* the client has been erased, that is the shared match engine.            *)
RoomRefuses(r) ==
    room[r].is_disconnected \/ \E s \in Seats : room[r].seat[s] = NoConn

MayPlay(c) == client[c].color \in Seats /\ ~client[c].is_viewer

PlayInRoom(c) ==
    /\ ~crashed /\ closing = NoRoom
    /\ c \in Connected /\ screen[c] = "game"
    /\ client[c].room \in live
    /\ ~RoomRefuses(client[c].room) /\ ~room[client[c].room].over
    /\ MayPlay(c)
    /\ room' = [room EXCEPT ![client[c].room].played = TRUE]
    /\ UNCHANGED << m_clients, client, screen, live, closing, match, gameVars >>

PlayInMatch(c) ==
    /\ ~crashed /\ closing = NoRoom
    /\ c \in Connected /\ screen[c] = "game"
    /\ client[c].room \notin live /\ ~match.over
    /\ MayPlay(c)
    /\ match' = [match EXCEPT !.played = TRUE]
    /\ UNCHANGED << m_clients, client, screen, live, room, closing, gameVars >>

-----------------------------------------------------------------------------
(* Time: 20 seconds have passed since the countdown of a room began,       *)
(* whether or not it still waits.                                          *)
WindowEnds(r) ==
    /\ ~crashed
    /\ room[r] # NoRoom /\ ~room[r].overdue
    /\ room' = [room EXCEPT ![r] = [@ EXCEPT !.overdue = TRUE, !.expired = TRUE]]
    /\ UNCHANGED << m_clients, client, screen, live, closing, match, gameVars >>

(* The game thread.                                                        *)
(* process_matchmaking: any set of disjoint pairs of searching clients can *)
(* be within 100 points of each other.  The earlier connection of a pair   *)
(* is WHITE.  Each pair gets a new board and engine in m_game_engine, so   *)
(* only the last one survives; searches older than 60 seconds stop.        *)
Searching == {i \in 1 .. Len(m_clients) : client[m_clients[i]].is_searching}

Pairings ==
    {M \in SUBSET {p \in Searching \X Searching : p[1] < p[2]} :
        \A p, q \in M : p # q => {p[1], p[2]} \cap {q[1], q[2]} = {}}

process_matchmaking ==
    /\ ~crashed /\ gpc = "sleep" /\ closing = NoRoom
    /\ \E M \in Pairings :
          LET whites  == {m_clients[p[1]] : p \in M}
              blacks  == {m_clients[p[2]] : p \in M}
              matched == whites \cup blacks
          IN  /\ match.serial + Cardinality(M) <= MaxMatches
              /\ match' = IF M = {} THEN match
                          ELSE [serial |-> match.serial + Cardinality(M), played |-> FALSE,
                                over |-> FALSE, elo_updated |-> FALSE]
              /\ screen' = [c \in Conns |-> IF c \in matched /\ screen[c] = "menu"
                                            THEN "told" ELSE screen[c]]
              /\ \E late \in SUBSET ({m_clients[i] : i \in Searching} \ matched) :
                    client' = [c \in Conns |->
                        [client[c] EXCEPT !.is_searching = @ /\ c \notin matched \cup late,
                                          !.color = IF c \in whites THEN "WHITE"
                                                    ELSE IF c \in blacks THEN "BLACK" ELSE @]]
    /\ gpc' = "match"
    /\ UNCHANGED << m_clients, live, room, closing, todo, booked, crashed >>

(* The players of the match: the last connected client of each colour that *)
(* is in no room.                                                          *)
MatchPlayer(color) ==
    LET idx == {i \in 1 .. Len(m_clients) : /\ client[m_clients[i]].color = color
                                            /\ client[m_clients[i]].room = NoRoom}
    IN  IF idx = {} THEN NoConn
        ELSE m_clients[CHOOSE i \in idx : \A k \in idx : k <= i]

(* update of the match engine, and its result the first time it is over,   *)
(* for which m_clients is read under its mutex.                            *)
UpdateMatch ==
    /\ ~crashed /\ gpc = "match"
    /\ \E over \in BOOLEAN :
          /\ over => match.over \/ match.played
          /\ match.over => over
          /\ over /\ ~match.elo_updated => closing = NoRoom
          /\ match' = [match EXCEPT !.over = over, !.elo_updated = @ \/ over]
          /\ IF over /\ ~match.elo_updated /\ \A s \in Seats : MatchPlayer(s) # NoConn
             THEN booked' = [booked EXCEPT ![match.serial] = @ + 1]
             ELSE UNCHANGED booked
    /\ gpc' = "snapshot"
    /\ UNCHANGED << m_clients, client, screen, live, room, closing, todo, crashed >>

SnapshotRooms_Running ==
    /\ ~crashed /\ gpc = "snapshot" /\ closing = NoRoom
    /\ todo' = {r \in live : ~room[r].over}
    /\ gpc' = IF todo' = {} THEN "sleep" ELSE "rooms"
    /\ UNCHANGED << m_clients, client, screen, live, room, closing, match, booked, crashed >>

SnapshotRooms ==
    /\ ~crashed /\ gpc = "snapshot" /\ closing = NoRoom
    /\ todo' = live
    /\ gpc' = IF live = {} THEN "sleep" ELSE "rooms"
    /\ UNCHANGED << m_clients, client, screen, live, room, closing, match, booked, crashed >>

(* The rooms of the snapshot are processed in turn; "window", "forfeit",   *)
(* "settle" and "book" refer to the room at the front, which stays in todo. *)
Front == CHOOSE r \in todo : TRUE

UpdateRoom ==
    /\ ~crashed /\ gpc = "rooms"
    /\ \E over \in BOOLEAN :
          /\ over => room[Front].over \/ room[Front].played
          /\ room[Front].over => over
          /\ room' = [room EXCEPT ![Front].over = over]
          /\ gpc' = IF ~over /\ room[Front].is_disconnected THEN "window" ELSE "settle"
    /\ UNCHANGED << m_clients, client, screen, live, closing, match, todo, booked, crashed >>

(* A room was seen to wait: is that 20 seconds ago?                        *)
CheckWindow ==
    /\ ~crashed /\ gpc = "window"
    /\ IF room[Front].overdue
       THEN /\ gpc' = "forfeit"
            /\ room' = [room EXCEPT ![Front].early = @ \/ closing = Front]
       ELSE gpc' = "settle" /\ UNCHANGED room
    /\ UNCHANGED << m_clients, client, screen, live, closing, match, todo, booked, crashed >>

Forfeit_Skipped ==
    /\ ~crashed /\ gpc = "forfeit"
    /\ gpc' = "settle"
    /\ UNCHANGED << m_clients, client, screen, live, room, closing, match, todo, booked, crashed >>

Forfeit ==
    /\ ~crashed /\ gpc = "forfeit"
    /\ room' = [room EXCEPT ![Front].over = TRUE]
    /\ gpc' = "settle"
    /\ UNCHANGED << m_clients, client, screen, live, closing, match, todo, booked, crashed >>

AfterRoom == /\ todo' = todo \ {Front}
             /\ gpc' = IF todo' = {} THEN "sleep" ELSE "rooms"

MarkSettled_Forgotten(r) == room

MarkSettled(r) == [room EXCEPT ![r].elo_updated = TRUE]

Settle ==
    /\ ~crashed /\ gpc = "settle"
    /\ IF room[Front].over /\ ~room[Front].elo_updated
       THEN /\ room' = MarkSettled(Front)
            /\ IF \A s \in Seats : room[Front].seat[s] # NoConn
               THEN gpc' = "book" /\ UNCHANGED todo
               ELSE AfterRoom
       ELSE AfterRoom /\ UNCHANGED room
    /\ UNCHANGED << m_clients, client, screen, live, closing, match, booked, crashed >>

(* The booking reads the seats again, for the names to update and log.     *)
Book ==
    /\ ~crashed /\ gpc = "book"
    /\ IF \E s \in Seats : room[Front].seat[s] = NoConn
       THEN crashed' = TRUE /\ UNCHANGED << booked, todo, gpc >>
       ELSE /\ booked' = [booked EXCEPT ![Front] = @ + 1]
            /\ AfterRoom
            /\ UNCHANGED crashed
    /\ UNCHANGED << m_clients, client, screen, live, room, closing, match >>

-----------------------------------------------------------------------------
GameThread ==
    \/ process_matchmaking \/ UpdateMatch \/ SnapshotRooms
    \/ UpdateRoom \/ CheckWindow \/ Forfeit \/ Settle \/ Book

Handlers ==
    \E c \in Conns :
        \/ on_open(c) \/ on_close(c) \/ Login(c)
        \/ FindMatch(c) \/ CancelMatch(c) \/ OpenBoard(c)
        \/ PlayInRoom(c) \/ PlayInMatch(c)
        \/ \E n \in Names : CreateRoom(c, n)
        \/ \E r \in Rooms : JoinRoom(c, r)

Next == Handlers \/ StartCountdown \/ GameThread \/ \E r \in Rooms : WindowEnds(r)

Spec == Init /\ [][Next]_vars

(* The game loop runs for ever, on_close returns and clocks advance.       *)
FairSpec == /\ Spec /\ WF_vars(GameThread) /\ WF_vars(StartCountdown)
            /\ \A r \in Rooms : WF_vars(WindowEnds(r))

-----------------------------------------------------------------------------
(* Types of the server's state.                                            *)
TypeOK ==
    /\ m_clients \in Seq(Conns)
    /\ client \in [Conns -> Client]
    /\ screen \in [Conns -> Screens]
    /\ live \subseteq Rooms
    /\ room \in [Rooms -> Room \cup {NoRoom}] /\ closing \in Rooms \cup {NoRoom}
    /\ match \in [serial : Nat, played : BOOLEAN, over : BOOLEAN, elo_updated : BOOLEAN]
    /\ booked \in [Games -> Nat]
    /\ gpc \in Steps /\ todo \subseteq Rooms /\ crashed \in BOOLEAN
    /\ \A r \in live \cup todo : room[r] # NoRoom

(* ELO and history are booked at most once per game: elo_updated and       *)
(* m_elo_updated_for_game are set before anything can fail, and rooms that *)
(* are erased, abandoned or joined again do not bring a result back.       *)
OneRecordPerGame == \A g \in Games : booked[g] <= 1

(* A room's result is earned: somebody moved, or 20 seconds passed since a *)
(* player left, or the loop took the start time for old because on_close   *)
(* had not written it yet, which is the one way to a forfeit without a     *)
(* wait.  Rooms closed because both players left book none, also when      *)
(* somebody joins them before the loop has seen them closed.               *)
RoomResultsAreEarned ==
    \A r \in Rooms : booked[r] > 0 => room[r].played \/ room[r].expired \/ room[r].early

(* Who can move pieces in a room holds a seat of it, unless another        *)
(* connection of the same account has been in that room: viewers stay      *)
(* viewers even when matchmaking, which they may have left running, hands  *)
(* them a colour.                                                          *)
PlayersHoldASeat ==
    \A c \in Connected : (client[c].room \in live /\ MayPlay(c)) =>
        \/ \E s \in Seats : room[client[c].room].seat[s] = c
        \/ \E d \in Conns \ {c} : /\ client[d].user = client[c].user
                                  /\ client[d].room = client[c].room

(* A seat that is taken changes hands only when its holder leaves or logs  *)
(* in again.                                                               *)
SeatsAreNotTaken ==
    [][\A r \in live \cap live', s \in Seats :
          LET old == room[r].seat[s]
              new == room'[r].seat[s]
          IN  (old # NoConn /\ new # old) =>
                 \/ new = NoConn /\ screen'[old] = "gone"
                 \/ new # NoConn /\ client'[new].user = client[old].user]_vars

(* A disconnection does not last: the player logs in again, or the game is *)
(* forfeited by the game loop (or the room is erased by a new one of the   *)
(* same name, or the server is down).                                      *)
DisconnectionsEnd ==
    \A r \in Rooms :
        (r \in live /\ room[r].is_disconnected) ~>
            (r \notin live \/ room[r].over \/ ~room[r].is_disconnected \/ crashed)

(* Every finished game is settled by the loop, also one that ends while    *)
(* the loop is at work on other rooms.                                     *)
FinishedGamesSettle ==
    \A r \in Rooms :
        (r \in live /\ room[r].over) ~> (r \notin live \/ room[r].elo_updated \/ crashed)

-----------------------------------------------------------------------------
(* What the README says of the server.                                     *)

(* "20-second reconnection window": a started game that is neither over    *)
(* nor waiting for a player has both its players.                          *)
ReconnectionRestoresSeat ==
    \A r \in live :
        (room[r].started /\ ~room[r].over /\ ~room[r].is_disconnected)
            => \A s \in Seats : room[r].seat[s] # NoConn

(* "Graceful Handling" of sessions that end: a client that disconnects     *)
(* does not bring the game thread down.                                    *)
DisconnectsAreGraceful == ~crashed

=============================================================================
