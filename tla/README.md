# Kung Fu Chess: a TLA+ verification project

The program is a real-time chess game. Players do not take turns: a piece that
has been told to move travels for 500 ms per cell, a piece may *jump* in place
for 1000 ms to dodge or punish an attacker, and after either it rests for
3000 ms. A server runs rooms and rated matches for many clients over
websockets; a client draws the board it is told about.

Contents: [inventory](#inventory), [modules](#modules-and-the-code),
[runs](#runs), [bounds](#bounds), [fairness](#fairness), [proofs](#proofs),
[findings](#findings), [not modelled](#what-is-not-modelled), [plan](#plan).
Paths below are relative to the repository root.

## Inventory

| component | state | operations | used by |
|---|---|---|---|
| Rules (`src/rules/`) | none | `is_valid_geometry`, `is_path_clear`, `validate_move` | engine |
| Game engine (`src/engine/`, `src/realtime/`, `src/model/`) | grid, pieces (cell, state, kind), `active_motions`, `active_jumps`, `active_cooldowns`, game-over flag, scores | `request_move`, `request_jump`, `update` | server, GUI controller (local game), text controller |
| Board factory, parser, printer (`src/model/board_factory.cpp`, `src/io/board_*.cpp`) | none | build or print a board | server, tests |
| Socket server (`src/network/socket_server.cpp`) | `m_clients`, `m_rooms`, the match engine, sound queues | `on_open`, `on_close`, `on_message` (LOGIN, FIND_MATCH, CANCEL_MATCH, CREATE_ROOM, JOIN_ROOM, MOVE, JUMP), `game_loop`, `process_matchmaking`, `stop` | clients |
| User store (`src/io/user_manager.cpp`) | `m_users`, `users.json` | `authenticate_or_register`, `update_elo_after_game`, `load` | server |
| Session store, history log (`src/io/redis_session_store.cpp`, `game_history_logger.cpp`) | Redis keys, a text file (write only) | `set_session`, `save` | server |
| Message bus (`src/pubsub/`) | subscriber lists | `subscribe`, `publish` (synchronous) | engine, server, sound, log |
| Socket client (`src/network/socket_client.cpp`) | the last state received, animation clocks | `on_message`, `send_*`, `advance_animations` | GUI |
| GUI controller (`src/input/gui_controller.cpp`, `main.cpp`) | selected or dragged piece, screen | mouse and key handlers | the player |
| Text controller (`src/input/controller.cpp`) | selected cell | `click` | tests |
| Views, sound (`src/view/`, `src/io/sound_player.cpp`) | images, audio | drawing, playing | client |

**How they interact.** The server has two threads. The websocket thread runs
the handlers one at a time; the game thread runs `game_loop` every 30 ms:
match the searching clients, update the match engine, copy the list of rooms,
update each of them, forfeit those whose reconnection window is over, book the
results. They share the client list (`m_clients_mutex`), the rooms
(`m_rooms_mutex`, which the game thread holds only while it copies the list)
and the user store (`m_mutex`, which does not cover reading the file). Events
of the engine go through the message bus to a subscriber that runs in the
thread of the engine and queues sounds for the clients (`m_sounds_mutex`, then
`m_rooms_mutex`). Clients learn everything from messages, so a command they
send can cross an answer on its way to them. A client has two threads as well:
one takes the messages and merges the snapshots of the board, the other draws
and moves the animations on (`state_mutex`). In the local game one thread reads
the mouse and updates the engine.

**What is hard.** Several things fall due in one frame and their order decides
who captures whom; a jump entry outlives the presence of its piece on the
cell; a piece is "nowhere" while it travels and its source cell may be taken;
seats are read by one thread while another empties them; a timeout races a
late login; results have to be booked exactly once whoever leaves when;
`users.json` is re-read on every login while the other thread writes it; the
sound of a game is published from inside scopes that hold other mutexes; the
client decides about the end of a game before it takes the lock under which it
applies the decision, and its animations outlive what they show; a front end
remembers a cell and a piece while the game goes on.

**What makes each component correct.**

* Rules: the path loop ends, and looks only at cells of the board.
* Engine: grid, pieces and timers agree; captures are final and counted once;
  a jump protects its piece; a captured king ends the game; pawns promote on
  every path; every motion ends; a finished game comes to rest.
* Server: only seat holders move pieces; seats are not taken over; each game is
  booked at most once and only when it was played or forfeited (the early
  forfeit under [findings](#findings) included); abandoned games
  end; finished games are settled.
* User store: no result is counted twice; nothing is lost before one of a short
  list of mishaps; every login is answered.
* Server locks: no circular wait; a sound stays in its game.
* Client: the end of a game is shown only when it is real, and in the end it is
  shown; a client catches up with the server.
* Front ends: a selected cell is occupied, a drag is about the piece in the
  hand.

The hazards behind these properties, each with its line, are listed in
`PROJECT.json`.

## Modules and the code

| module | models | extended by |
|---|---|---|
| `ChessRules` | rules, as operators | `GameEngine` |
| `GameEngine` | one game | `GameRefinement`, `LocalInput`, `SocketClient`, `GameEngineProofs` (extended by `GameOutcomeProofs`) |
| `GameSpec` | the game without clocks (abstract) | instantiated by `GameRefinement` |
| `GameRefinement` | the mapping from engine to game | `MCGameEngine`, `GameRefinementProofs` |
| `LocalInput` | text controller and local GUI over the engine | `MCLocalInput`, `LocalInputProofs` |
| `SocketServer` | connections, rooms, matchmaking, results | `MCSocketServer`, `SocketServerProofs` |
| `ServerLocks` | mutexes and sound queues of the server | `ServerLocksProofs` |
| `SocketClient` | match engine, snapshots, the client's two threads | `MCSocketClient`, `SocketClientProofs` |
| `UserStore` | accounts in memory and file | `MCUserStore`, `UserStoreProofs` |

### ChessRules

`is_valid_geometry`, `is_path_clear` and `validate_move` are the functions of
the same name. The loop of `is_path_clear` is replaced by its result, the cells
it visits; that the loop really visits exactly these is theorem `PathWalkEnds`.

### GameEngine

`board` is `Board::grid`, `cell`, `pstate` and `kind` are the fields of the
pieces, `motions`, `jumps` and `cooldowns` the three vectors of the arbiter
(as sets; the module's header says why that loses nothing). `RequestMove` and
`RequestJump` are the accepting paths of `request_move` and `request_jump`; a
refused request changes nothing and is a stuttering step.

`update(ms)` is one call in the code and several steps here, so that the order
in which it resolves what falls due is visible: `BeginUpdate` (cooldowns),
`HandleJump` and `HandleMotion` for the due events in order of arrival time,
simultaneous ones in any order (`std::sort` is not stable), and `EndUpdate`
(erase and age the vectors, `check_game_status`). No request comes between
these steps. `Arrive` has one disjunct per outcome: block by a jumper, capture
by a jumper, block by a piece on the cell, capture of that piece, landing.

### GameSpec and GameRefinement

`GameSpec` is what a player is promised: a piece stands on a cell, flies, or
has been taken; it leaves on a legal move (`Depart`) and its flight ends by
landing (`Alight`), by taking (`Take`), by being taken (`TakenInFlight`), by
going back (`Return`), or, when its way back is occupied, by disappearing
(`Vanish`, the behaviour of finding `blocked_piece_vanishes`). It has no clock,
no jumps and no rests, so its definitions stand for no lines of the code and
have no entry in the map. `GameRefinement` maps the engine to it: the flights
are the motions that the update under way has not resolved, the captured
pieces those in state CAPTURED, everything else is itself.

### LocalInput

`front` says which front end drives the engine. `ClickNowhere`,
`ClickToSelect` and `ClickWithSelection` are the paths through
`Controller::click`; `handle_left_click_down`, `handle_left_click_up` and
`handle_right_click_down` are the handlers of that name, without their online
branches; `StartGame` leaves the opening screen, `PressOutside` is a press next
to the board. `request_move` and `request_jump` may be refused and the caller
is not told. Input comes between two updates, in one thread.

### SocketServer

Each websocket handler is one action (`on_open`, `on_close`, `Login`,
`FindMatch`, `CancelMatch`, `CreateRoom`, `JoinRoom`, `PlayInRoom` and
`PlayInMatch` for MOVE and JUMP), except that `on_close` is two when it leaves
a room waiting: it writes `is_disconnected` (line 162) before
`disconnect_start_time` (line 164), and the game thread reads both without the
mutex. `closing` is the room between the two writes, `StartCountdown` the
second one; everything that needs one of the mutexes `on_close` holds waits for
it. The game thread is a loop with a program counter, `gpc`; each of its reads
of a room that a handler can invalidate is a step of its own (`UpdateRoom`,
`CheckWindow`, `Forfeit`, `Settle`, `Book`). `overdue` is the comparison at line
628, true of the zero time point that a new room holds.
`process_matchmaking` holds `m_clients_mutex` from start to end and is one
step. A game is abstracted to "has anybody moved" and "is it over". Clients
follow the GUI: `screen` says which commands a connection can send, with
"told" for a client whose answer is on its way (`OpenBoard` delivers it).
`started`, `expired`, `early` (the loop found a wait overdue before `on_close` had
written its beginning) and `booked` record the past for the properties.
CREATE_ROOM erases the rooms whose name or id is the name it is given; `Names`
may contain ids. In the runs it does not, so the second half of that test is
covered by the theorems only.

Abstracted: who wins, ratings (any pair of searching clients may be close
enough), how long somebody searches (any search may expire), the 20 seconds of
the reconnection window (`WindowEnds` may happen at any time).
Left out: `in_game`, which is written and never read, and `last_seq`: a client
numbers its commands upwards and a connection delivers them in order, so the
test never refuses one.

### ServerLocks

A handler is the sequence of its `lock_guard` scopes and, between them, of its
accesses to rooms and sound queues; `code[t]` is what thread `t` has still to
do. Branches of the code that differ in what they lock are different sequences
(`Login` has three, MOVE has up to four, a finished match is looked up with or
without being booked). `Publish` is the message bus: it
puts the steps of the `PLAY_SOUND` subscriber in front of what the thread was
about to do, with the room id that the thread carries at that moment. A sound
is represented by the game it comes from. Rooms come and go with `CreateRoom`,
and the game loop works on a copy of their list.

### SocketClient

Extends `GameEngine`, which is the match engine of the server here, with
`Motion::captured_piece` (`victim`), which on the server decides nothing but a
sound. `NewMatch` is
`process_matchmaking` replacing the engine; the client gets `MATCH_FOUND` or
not, since everybody outside rooms gets the snapshots of the one engine.
`serialize_game_state` and `broadcast_state` put a snapshot into the
connection, which loses and reorders nothing (TCP). `Decide` is
`parse_and_update_state` up to the lock, `Merge` the rest; `advance_animations`
is one frame of the other thread and may fall between the two. `parse_jumps`
fills `remaining_ms` with the total, as the code does. Rooms send the same
snapshots with a different header, and ROOM_CREATED and ROOM_JOINED reset the
same two flags as MATCH_FOUND.

### UserStore

`ReadFile`, `Reload`, `Authenticate` and `EndLogin` are
`authenticate_or_register`: it reads `users.json` without the mutex, replaces
`m_users` under it, releases it, takes it again to look the user up, and writes
the file back when something changed. `UpdateElo` and `EndElo` are
`update_elo_after_game`. A write truncates the file first; between its two
steps a reader finds the records before some point (`Torn`; a record cut in
the middle has no closing brace and is skipped). A read takes the
file at one instant, as one small `read` does. `Stop` and `load` are
the end of the process at any moment and the next start. A rating is a function
of the results it absorbed and is represented by wins and losses.
A login changes the password of an existing account to the one it brings,
because the code accepts every password and stores it.

*The text.* Names and passwords are written unescaped, and `extract_val` ends a
value at the first comma, quote, brace or line end, and drops blanks and quotes
in front of it. `file` is the records as written, `Parsed(file)` the table a
reader makes of them: a name becomes `NameRead` of it (and is skipped when that
is empty), of several records with one name the last wins (`Last`), a password becomes
`PasswordRead` of it, and since the reader takes the first brace for the end
of the record, what stands behind a brace in a name or password is missing and
gets the default (`ReadBack`). Which texts do that is a constant (`Braced`,
`NameRead`, `PasswordRead`), about which only `TextAssumption` is assumed: what
was read once is read back as it is and has no brace.

*Failed opens.* Every open of the file may fail: the first of a login (the
reload is skipped), the second (nothing is read, and memory is emptied), that
of each write (the code goes on as if it had been written) and that of the
constructor. `mishap` records that something happened that can lose a record:
one of these except the first, a write of a name that is not read back as
itself or of a password with a brace, a read or a stop during a write, and a
result booked between a login's read and its reload.

## Runs

`tlc -config <cfg> <module>`; the sizes are distinct states.

| run | shows | states |
|---|---|---|
| `engine_collisions` | White rook against black king and rook: under every race of moves, jumps, blocks and captures, `TypeOK` (no timer survives its update), `BoardConsistent`, `InFlightOffBoard`, `RestingNotInFlight`, `OneJumperPerCell`, `MovingIsTemporary` (nobody is left MOVING), `ScoreAccounts` (each captured piece counted once), `JumperIsShielded`, and `ImplementsGame` (every step is one of `GameSpec` or invisible in it) | 2.2 M |
| `engine_endgame` | Two pawns and a king: `CapturedKingEndsGame` (also when it is taken in mid-air), `PawnsPromote`, `CaptureIsFinal` | 4.0 M |
| `local_game` | A rook against a king, played with the text controller or the mouse: `SelectionIsOccupied`, `DragIsGrounded`, and under fairness of the loop `MotionsEnd`, `GameOverQuiesces` | 0.4 M |
| `server_rooms` | Three connections of two accounts, a room, a match: `TypeOK`, `OneRecordPerGame`, `RoomResultsAreEarned`, `PlayersHoldASeat`, `SeatsAreNotTaken` | 3.0 M |
| `server_liveness` | Two rooms of one name, the second replacing the first: `OneRecordPerGame`, `DisconnectionsEnd`, `FinishedGamesSettle` | 0.3 M |
| `server_locks` | All handlers against all turns of the game loop: `NoCircularWait`, `SoundsStayInTheirGame`, and that the two threads together are never stuck (deadlock is checked) | 0.5 M |
| `user_store` | Logins, results, failed opens and restarts, with a name that is read back as another one and a password with a brace: `TypeOK`, `NoResultInvented`, `NothingLostWithoutMishap`, `LoginsAreAnswered` | 0.8 M |
| `client_view` | A match in which a king can be taken, and the next one: `ShownGameOverIsReal`, `GameOverIsShown`, `ClientCatchesUp` | 0.2 M |

Four more runs end in a counterexample; see [findings](#findings).

Every property has a mutation of the modelled code that breaks it, listed in
`PROJECT.json`; the mutated operators stand before the ones they mutate.

The server runs do not check deadlock: the game thread that dereferences an
empty seat takes the process down, and the model then stops (`crashed`).

## Bounds

* **Board 2 x 3, two or three pieces.** Two files and three rows are the
  smallest board on which pieces of one file can block, pass and swap, a rook
  can need one or two steps, a pawn can promote, and a blocked piece can find
  its source taken. The theorems about the engine hold for every board.
* **Times 1 : 2 : 3** for a cell, a jump and a rest, against 500 : 1000 : 3000
  in the code. The order is that of the code and cells and jumps keep their
  ratio, so a move of two cells ties with a jump.
* **Frames of 1 and of 3**: a frame in which at most one stage of anything
  ends, and a long one that makes motions, jumps and rests due together.
* **MaxTimers** bounds motions, jumps and cooldowns together, between updates
  only (an update always runs to its end). A piece may jump again and again,
  each jump leaving a cooldown, so their number grows without being
  interesting. Three pieces in the air, or one flying piece against a piece
  that jumps twice, fit within it.
* **Server**: three connections are two players and a spectator, or a player
  and the two ends of a reconnection; two rooms let a name be used again.
  `MaxMatches` is the number of matches made, `Rooms` the ids handed out. `c1`
  and `c3` belong to one account, so `server_rooms` includes the same player
  twice and the player who returns; `server_liveness` has two connections and
  two rooms and nobody returns in it. With all three connections and one room
  its properties hold as well (0.8 M states); it is kept smaller for its time.
* **LocalInput**: a rook and a king on the same board, so that the selected or
  dragged piece can be captured by the other side, by either front end. No bound
  on timers: two pieces keep the state space finite.
* **ServerLocks**: two room ids, so that one room can be erased while the loop
  holds it in its copy and another takes its place. Two threads are all there
  are.
* **SocketClient**: one row of three cells, a rook and the king it attacks. A
  cell, a jump and a rest take two frames each, so a capture can be under way
  on the screen and over on the server, and snapshots carry jumps and rests
  that the client starts anew. `MaxRequests` = 2 moves or jumps in all: the
  capture, and a jump or a move that goes on beside it. `MaxGames` = 1 match
  after the one the server starts with, `MaxQueue` = 2 messages on their way,
  so that MATCH_FOUND can be behind a snapshot of the old match. With three
  requests, and jumps and rests of one frame, the run has 1.0 M states and passes as
  well. That a motion
  lasts longer than one update (500 ms against 30 ms, `ClientAssumption`) is
  what `ShownGameOverIsReal` needs: no match is over in its first snapshot.
* **UserStore**: two names that are read back as themselves, who can play each
  other, and one with a comma that is read back as the first; an empty password
  and one that is a brace. `MaxGames` = 1 is enough for a result to be lost, and for a stale or
  torn table to be written back; with two games the invariants hold as well
  (11 M states).

## Fairness

* `GameEngine!FairSpec`, `LocalInput!LocalFairSpec`: the loop that owns the
  engine calls `update` every frame, for ever, also behind the opening screen.
  Nothing is assumed of the player.
* `SocketClient!ClientFairSpec`: the game loop of the server, the connection
  with the thread that reads it, and the frames of the client go on. Players
  and matchmaking need not do anything.
* `SocketServer!FairSpec`: `game_loop` runs until the server is stopped,
  `on_close` returns, and clocks advance. Nothing is assumed of clients.
* `UserStore!FairSpec`: a handler that has begun goes on, and a write ends.
  Logins, results, stops and restarts need not happen.

## Proofs

TLAPS checks all of the following, for every value of the constants that
satisfies the named assumptions.

**GameEngineProofs.** Any board, finite set of pieces, placement and times with
`JumpTime <= RestTime` (`TimeAssumption`; 1000 and 3000 in the code).
The inductive invariant is

    TypeOK /\ BoardConsistent /\ InFlightOffBoard /\ RestingNotInFlight
           /\ HandledAreDue /\ JumpsAreBounded /\ SquattersRest /\ OneJumperPerCell

`HandledAreDue` is what makes `EndUpdate` erase the events that were resolved
and no others. `SquattersRest` is the interesting part: a jumper may move away
and another piece may come to stand under its pending jump (sent back there by
a block), and if that piece could jump, two pieces would be jumping over one
cell and `active_jumps` would have two answers. It cannot: having just been
blocked it rests for `RestTime`, and no jump lasts longer than `JumpTime`
(`JumpsAreBounded`). There is one lemma per action and per outcome of a
motion. From the invariant follow `TypeCorrect`, `BoardStaysConsistent`,
`FlightsLeaveTheBoard`, `RestKeepsOnTheGround`, `JumpersAreUnique`, and the
action properties `CapturesAreFinal` and `JumpsProtect`.

**GameOutcomeProofs.** What becomes of the pieces, each fact with a
strengthening of its own on top of that invariant. `PawnsAlwaysPromote` needs
that a pawn in the air did not start on its last row
(`FlyingPawnsHaveAWay`: it may be sent back there). `KingCaptureEndsGame` needs
that promotion makes and unmakes no king (`KingsStayKings`), since
`check_game_status` counts kings by their present kind.
`NobodyMovesForever` is inductive with the engine's invariant alone.
`ScoreIsMaterial` equates each side's score with a sum over what it has taken.
The sum is the community modules' fold, a recursive function that is chosen, so
the lemmas first show that such a function exists on the subsets of any finite
set and does not depend on the order (`TotalExists`, `TotalIs`; the induction is
the choice of a smallest counterexample, `SmallestSet`), and then what a capture
adds (`TotalAdd`) and what a promotion leaves alone (`TotalSame`). The engine's
invariant gives the rest: a piece that is taken was not taken before, because it
stood on the board (`BoardConsistent`) or was in the air (`InFlightOffBoard`).

**GameRefinementProofs.** `EngineImplementsGame`: `Spec => ImplementsGame`.
`RequestMove` is a `Depart`, each outcome of `Arrive` one of the five ends of
a flight, the end of an update a `Decide` when it finds a side without its
kings, and everything else changes no variable of the game. The engine's
invariant is needed at every end of a flight: the motion is the only one of its
piece, the piece is on no cell and not captured, so exactly one flight
disappears and nothing else moves.

**LocalInputProofs.** `SelectionsStayOccupied` and `DragsStayGrounded`, for
every board and both front ends. The two lemmas that carry them say what an
update cannot do: it empties no occupied cell (`UpdateKeepsOccupied`), and it
leaves a standing piece where it is or captures it (`UpdateKeepsGrounded`). So
only a request empties a cell, and every handler that makes one gives up its
selection. This is why the missing null check in `Controller::click` is safe.

**The path walk** (end of `GameEngineProofs`). `PathWalkEnds`: on every line that `is_valid_geometry`
admits (`GeometryIsALine`), the loop of `is_path_clear` is at the destination
after exactly `Dist` steps and before that only on other cells of the board.

**UserStoreProofs.** `StoreTypeCorrect`, `ResultsAreNotInvented` and
`OnlyMishapsLose`, for any number of users and games and any text. The
invariant adds to the two properties that the mutex admits one writer, that a
login writes only after it has entered its user, that nobody wins before the
first login, and `Undisturbed`: before the first mishap, memory and file have
every account with all its wins (`Current`), hold only names and passwords that survive
the parser (`Sane`), the file has every account that memory has, and the text a
login has read is that of the file. The lemmas about the parser carry the rest:
a table read back is a table (`ParsedTable`), gives no name more wins than its
record has unless another name is cut down to it (`ParsedInvents`), and of a
`Sane` table keeps every account and every win and is `Sane` again
(`ParsedSane`). Passwords may come back changed; the next login repairs them.

**SocketServerProofs.** `RecordsAreUnique`, `ResultsAreEarned`, `PlayersSit`,
`SeatsAreKept` and `TypeCorrect`, for any connections, accounts, room names,
rooms and matches. The game loop reads a room in several steps between which
handlers run, so none of these is inductive. The invariant adds

* `AtARoom` and `Registered`: the loop is at a room of its snapshot; a connection
  is in `m_clients` once, and only while it is open (so `erase` removes it);
* `RoomsBookedOnce`, `MatchesBookedOnce`: a room that has been booked has its
  flag `elo_updated` set, and while the loop is between setting the flag and
  booking, nothing has been booked. Matches share one engine and one flag; what
  keeps their records apart is that they are booked in the order of their
  serials;
* `EndsAreEarned`: a room that is over, or about to be forfeited, without a
  move, an expired window or an early one has lost its white player for good, since
  JOIN_ROOM only fills the black seat; so the loop, which books with both seats
  taken, never books it. An overdue room that waits without having expired is the
  one `on_close` is at work on;
* `SeatsAreAccountedFor`: whoever is in a room and is not a viewer sits there, or
  another connection of the same account has left the room. The second case is
  the reconnection that finds no seat (finding `reconnect_loses_seat`), and it
  is why `PlayersHoldASeat` has it too.

A first group of lemmas says what each operation changes, a second one has a
lemma for each part of the invariant.

**ServerLocksProofs.** `NobodyWaitsInACircle` and `SoundsReachTheirGame`, for
any number of rooms. A state of `ServerLocks` holds the code that a thread has
still to run, so the invariant `LocksInv` is a proof outline: there is a `Point`
(mutexes held, room worked for, room ids reserved) before and after every
remaining instruction, consecutive points are related by `Follows`, the last is
`Done`, and the first is the present state of the thread (`ThreadOK`). `Follows`
asks that mutexes are taken in the order clients, sounds, rooms, log, users, and
that an engine publishes with no mutex held and only sounds of the room it works
for. Outlines compose (`BlockDo`, `BlockConcat`, `BlockScope`), and so each
handler is shown to have one from its text. No circular wait follows from the
order. A client whose room has been erased moves the match's pieces while its
thread still carries the id of the old room; the sound is dropped, because ids are
not used twice and the subscriber finds no such room (`Belongs` and `Erased`).

**SocketClientProofs.** `ShownEndsAreReal`, for any board, queue length, frame
times and number of matches. The danger is a client that believes the next match
over because the last one was: snapshots do not say which match they are of.
`ClientInv` extends the engine's invariant with `EndsAreAnnounced` (in the
queue, a snapshot that reports an end comes after another message of the same
match), `VerdictsAreTrue` (what `Decide` has concluded and `Merge` has not yet
applied still fits the message at the head), and `NewsIsFresh`: as long as the
client has not been sent anything of the present match, no piece of it has
arrived anywhere, because a snapshot follows every update and a motion lasts
longer than one (`ClientAssumption`).

Only model-checked: liveness (`MotionsEnd`, `GameOverQuiesces`,
`DisconnectionsEnd`, `FinishedGamesSettle`, `LoginsAreAnswered`,
`GameOverIsShown`, `ClientCatchesUp`; under fairness, outside what TLAPS proves
here), that the two server threads are never stuck (deadlock, i.e. ENABLED), and
the four runs that end in a counterexample. Every invariant and every action
property of the passing runs has a theorem.

## Findings

Each is a run whose counterexample is a behaviour of the code.

* `blocked_piece_vanishes`: a piece that a friend blocks goes back to its
  source with `add_piece`, whose refusal is ignored; if the source has been
  taken the piece is uncaptured and on no cell, for ever.
* `ghost_jump_captures`: a piece that jumped and moved away still captures what
  arrives at the empty cell, because the search compares `Jump::pos` only.
* `reconnect_loses_seat`: `on_close` empties the seat, LOGIN looks for the seat
  by the name of its holder; a player who returns in time is a viewer, the
  countdown is off and the game can neither go on nor be forfeited.
* `disconnect_crashes_loop`: `game_loop` tests the seats and uses them later
  without the lock that `on_close` takes.

Met on the way, without a run:

* The early forfeit. `on_close` sets `is_disconnected` before
  `disconnect_start_time` (`socket_server.cpp:162-164`), and `game_loop` reads
  both without the mutex: between the two writes it sees an old start time, or
  zero, and forfeits at once, where README.md:105 promises a "20-second
  reconnection window". If somebody then takes the black seat before line 636,
  the result is booked. `RoomResultsAreEarned` without its disjunct `early` fails
  in `server_rooms` with this behaviour (18 states); with it, it says that
  there is no other way.
* The account store loses data without any error being reported: see the mishaps of
  `UserStore`. A login whose name contains a comma overwrites the account of the
  part before it at the next reload, one whose password contains a brace loses
  the player's wins, losses and rating.

Smaller ones: a forfeited game has an empty seat, so neither
ratings nor the history hear of it (`socket_server.cpp:636`); all matches share
one engine, and a second match replaces the game of the first
(`socket_server.cpp:548`); `parse_jumps` fills the two times of a `Jump` in the
wrong order (`socket_client.cpp:474-479`), so a jump starts anew on the client
and the height of its arc is computed from the wrong total; an end sound that
was delayed for a capture is lost until a later game when the capture ends
between `parse_sounds` and the decision (`socket_client.cpp:334`); a frame that
falls between decision and merge may show the end of a game one frame early and
take it back; `broadcast_room_state` can clear a sound it has not sent
(`socket_server.cpp:693`); the unit tests of the arbiter expect 1000 ms per
cell (`tests/unit/test_real_time_arbiter.cpp:18-25`) where `BASE_MOVE_TIME_MS`
is 500; the server does not check that a requested cell is on the board (the
GUI only sends cells that are); pieces of a parsed board share ids; a forfeit
decided for one reconnection window can be applied to a newer one.

## What is not modelled

* The two threads inside one engine: MOVE and JUMP are called from the
  websocket thread while `update` runs on the other one, on the same vectors
  and without a lock. That is a data race whose outcomes include corrupted
  memory; there is no small set of outcomes to choose from, so `GameEngine`
  takes its callers as sequential. It is listed as a hazard.
* `stop()` of the server, and connecting and disconnecting of the client: calls
  into the websocket library.
* In the client: sounds and their delay, names, ratings and popups. In the GUI:
  the online branches of the board handlers (they send the requests that
  `SocketServer` takes as given), the text of the room dialog.
* In `users.json`: names and passwords that contain a key of the format in quotes
  (`"wins"` in a name would be found before the real one, and `std::stoi` may throw on
  what follows), and writes that fail after the file has been opened.
* ELO arithmetic and the text of log lines: formatting and rounding that no
  property depends on. Redis sessions: written by detached threads and never
  read back. Board parser and printer: text conversion for the tests.
* Views, sound, load tests, deployment: no state of the game. Vendored
  libraries (asio, websocketpp, doctest, which are nearly all of the
  repository's lines): not the program's own logic.
* The 32-piece start position, which is out of TLC's reach; the theorems about
  the engine cover it.

## Plan

Done: the modules above, their runs and the theorems listed. Left:

1. The safety half of the liveness properties, as theorems: that every completed
   update brings each motion, jump and rest nearer to its end, that a room that
   is over stays over until it is settled, that a login that has begun can only
   go forward.
2. Facts about `GameSpec` for its own sake (its pieces are on the board, in the
   air or captured, never two of them), which the engine then inherits through
   `EngineImplementsGame`.
3. An abstract specification of the user store (a table and its updates) that
   the store implements before the first mishap.
