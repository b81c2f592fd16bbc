----------------------------- MODULE UserStore -----------------------------
(***************************************************************************)
(* io::UserManager: the accounts in memory (m_users) and in users.json.    *)
(*                                                                         *)
(* Two threads call it.  The websocket thread runs                         *)
(* authenticate_or_register for every LOGIN: it reads users.json without   *)
(* the mutex, replaces m_users by what it read, and only then looks the    *)
(* user up and writes the file back if anything is new.  The game thread   *)
(* runs update_elo_after_game.  Each writes the file under the mutex, but  *)
(* writing starts by truncating it: until the write ends a reader, or the  *)
(* next start of the server, finds only some of the records.  An open of   *)
(* the file can fail; no caller is told.                                   *)
(*                                                                         *)
(* Names and passwords are written as they are, and read back up to the    *)
(* first comma, quote or brace.  A brace also ends the record for the      *)
(* reader, which takes what follows it for missing.  Which texts these are *)
(* is left to the constants; text that contains a key of the format in     *)
(* quotes is not considered.                                               *)
(*                                                                         *)
(* A rating is a function of the results it absorbed; it is abstracted to  *)
(* the wins and losses stored beside it.                                   *)
(***************************************************************************)
EXTENDS Naturals, Functions

CONSTANTS
    Names,      \* user names
    Rank,       \* the place of each in the order of std::map
    NameRead,   \* what extract_val makes of a written name; NoUser if it is empty
    Passwords,
    PasswordRead, \* what extract_val makes of a written password
    Blank,      \* the empty password
    Braced,     \* the names and passwords with a closing brace in them
    NoUser,     \* no record of that name
    MaxGames    \* bound: how many games are won

User == [password : Passwords, wins : Nat, losses : Nat]

ASSUME NoUserAssumption == NoUser \notin Names /\ NoUser \notin User
ASSUME GamesAssumption  == MaxGames \in Nat

(* What has been read once is read back as it is.                          *)
ASSUME TextAssumption ==
    /\ Rank \in [Names -> Nat]
    /\ NameRead \in [Names -> Names \cup {NoUser}]
    /\ \A n \in Names : NameRead[n] # NoUser =>
          NameRead[NameRead[n]] = NameRead[n] /\ NameRead[n] \notin Braced
    /\ PasswordRead \in [Passwords -> Passwords \ Braced]
    /\ Blank \in Passwords \ Braced

VARIABLES
    m_users,    \* UserManager::m_users
    file,       \* the records written in users.json
    lpc,        \* where the websocket thread is in authenticate_or_register
    login,      \* its arguments
    json_str,   \* the text it read
    epc,        \* where the game thread is in update_elo_after_game
    up,         \* the server process is running
    known,      \* history: the users that have been told AUTH_OK
    wins,       \* history: the games each user has won
    mishap      \* history: something happened that can lose a record

past == << known, wins, mishap >>
vars == << m_users, file, lpc, login, json_str, epc, up, past >>

NoLogin == [name |-> NoUser, password |-> NoUser]
Login   == [name : Names, password : Passwords]
Table   == [Names -> User \cup {NoUser}]
Empty   == [n \in Names |-> NoUser]

Init ==
    /\ m_users = Empty /\ file = Empty
    /\ lpc = "idle" /\ login = NoLogin /\ json_str = Empty
    /\ epc = "idle" /\ up = TRUE
    /\ known = {} /\ wins = [n \in Names |-> 0] /\ mishap = FALSE

MutexFree_HeldAfterReload == lpc \notin {"reloaded", "writing"} /\ epc # "writing"

(* m_mutex is held from the start to the end of a write of the file.       *)
MutexFree == lpc # "writing" /\ epc # "writing"

(* What is in the file at some moment of a write of the table t: all of    *)
(* the records, or those before one of them.                               *)
Torn(t) == {t} \cup {[n \in Names |-> IF Rank[n] < Rank[m] THEN t[n] ELSE NoUser] : m \in Names}

(* The record of n that a reader extracts from the text of u.              *)
ReadBack(n, u) ==
    LET whole == n \notin Braced /\ u.password \notin Braced
    IN  [password |-> IF n \in Braced THEN Blank ELSE PasswordRead[u.password],
         wins     |-> IF whole THEN u.wins ELSE 0,
         losses   |-> IF whole THEN u.losses ELSE 0]

(* The names in a table that are read back as m, and the last of them.     *)
ReadAs(t, m) == {n \in Names : t[n] # NoUser /\ NameRead[n] = m}
Last(t, m)   == {n \in ReadAs(t, m) : \A k \in ReadAs(t, m) : Rank[k] <= Rank[n]}

(* The table that a reader makes of the text of t.                         *)
Parsed(t) ==
    [m \in Names |-> IF Last(t, m) = {} THEN NoUser
                     ELSE LET n == CHOOSE n \in Last(t, m) : TRUE IN ReadBack(n, t[n])]

-----------------------------------------------------------------------------
(* authenticate_or_register.                                               *)

(* The file is opened twice: a first open that fails skips the reload, a   *)
(* second one leaves the text empty.                                       *)
ReadFile(l) ==
    /\ up /\ lpc = "idle"
    /\ login' = l
    /\ \/ /\ json_str' = file
          /\ lpc' = "read"
          /\ mishap' = (mishap \/ epc = "writing")
       \/ /\ lpc' = "reloaded"
          /\ UNCHANGED << json_str, mishap >>
       \/ /\ json_str' = Empty
          /\ lpc' = "read"
          /\ mishap' = TRUE
    /\ UNCHANGED << m_users, file, epc, up, known, wins >>

(* The block that replaces m_users.                                        *)
Reload ==
    /\ up /\ lpc = "read" /\ MutexFree
    /\ m_users' = Parsed(json_str)
    /\ json_str' = Empty
    /\ lpc' = "reloaded"
    /\ UNCHANGED << file, login, epc, up, past >>

Reset == lpc' = "idle" /\ login' = NoLogin /\ json_str' = Empty

Entry_Fresh(l) == [password |-> l.password, wins |-> 0, losses |-> 0]

(* The record after the login: a new user starts with nothing, a known one *)
(* gets the password of this login.                                        *)
Entry(l) ==
    IF m_users[l.name] = NoUser THEN [password |-> l.password, wins |-> 0, losses |-> 0]
    ELSE [m_users[l.name] EXCEPT !.password = l.password]

(* A name that comes back from the file as itself.                         *)
Plain(n) == NameRead[n] = n /\ n \notin Braced

Authenticate ==
    /\ up /\ lpc = "reloaded" /\ MutexFree
    /\ \/ /\ m_users[login.name] = Entry(login)
          /\ Reset
          /\ known' = known \cup {login.name}
          /\ UNCHANGED << m_users, file, mishap >>
       \/ /\ m_users[login.name] # Entry(login)
          /\ m_users' = [m_users EXCEPT ![login.name] = Entry(login)]
          /\ \/ /\ file' \in Torn(m_users')
                /\ lpc' = "writing"
                /\ mishap' = (mishap \/ ~Plain(login.name) \/ login.password \in Braced)
                /\ UNCHANGED << login, json_str, known >>
             \/ /\ Reset                        \* the file cannot be opened
                /\ known' = known \cup {login.name}
                /\ mishap' = TRUE
                /\ UNCHANGED file
    /\ UNCHANGED << epc, up, wins >>

EndLogin ==
    /\ up /\ lpc = "writing"
    /\ file' = m_users
    /\ Reset
    /\ known' = known \cup {login.name}
    /\ UNCHANGED << m_users, epc, up, wins, mishap >>

-----------------------------------------------------------------------------
(* update_elo_after_game.  Both players have logged in.                    *)

GamesWon == SumFunction(wins)

Scored_Twice(t, winner, loser) ==
    [t EXCEPT ![winner].wins = @ + 2, ![loser].losses = @ + 1]
Scored_Swapped(t, winner, loser) ==
    [t EXCEPT ![winner].wins = @ + 1, ![loser].losses = @ - 1]

Scored(t, winner, loser) ==
    [t EXCEPT ![winner].wins = @ + 1, ![loser].losses = @ + 1]

UpdateElo(winner, loser) ==
    /\ up /\ epc = "idle" /\ MutexFree
    /\ winner \in known /\ loser \in known
    /\ GamesWon < MaxGames
    /\ wins' = [wins EXCEPT ![winner] = @ + 1]
    /\ \/ /\ m_users[winner] = NoUser \/ m_users[loser] = NoUser
          /\ mishap' = (mishap \/ lpc = "read")
          /\ UNCHANGED << m_users, file, epc >>
       \/ /\ m_users[winner] # NoUser /\ m_users[loser] # NoUser
          /\ m_users' = Scored(m_users, winner, loser)
          /\ \/ /\ file' \in Torn(m_users')
                /\ epc' = "writing"
                /\ mishap' = (mishap \/ lpc = "read")
             \/ /\ mishap' = TRUE               \* the file cannot be opened
                /\ UNCHANGED << file, epc >>
    /\ UNCHANGED << lpc, login, json_str, up, known >>

EndElo ==
    /\ up /\ epc = "writing"
    /\ file' = m_users
    /\ epc' = "idle"
    /\ UNCHANGED << m_users, lpc, login, json_str, up, past >>

-----------------------------------------------------------------------------
(* The process ends at any moment; the constructor loads the file again.   *)

Stop ==
    /\ up /\ up' = FALSE
    /\ m_users' = Empty /\ epc' = "idle" /\ Reset
    /\ mishap' = (mishap \/ ~MutexFree)
    /\ UNCHANGED << file, known, wins >>

load ==
    /\ ~up /\ up' = TRUE
    /\ \/ m_users' = Parsed(file) /\ UNCHANGED mishap
       \/ mishap' = TRUE /\ UNCHANGED m_users      \* the file cannot be opened
    /\ UNCHANGED << file, lpc, login, json_str, epc, known, wins >>

-----------------------------------------------------------------------------
WsThread   == Reload \/ Authenticate \/ EndLogin
GameThread == EndElo \/ \E w, l \in Names : UpdateElo(w, l)

Next == \/ \E l \in Login : ReadFile(l)
        \/ WsThread \/ GameThread \/ Stop \/ load

Spec == Init /\ [][Next]_vars

(* Both threads run; logins, results and stops need not happen.            *)
FairSpec == Spec /\ WF_vars(WsThread) /\ WF_vars(EndElo)

-----------------------------------------------------------------------------
(* Types of the store.  The tables the two threads pass through memory and *)
(* file hold whole records or nothing.                                     *)
TypeOK ==
    /\ m_users \in Table /\ file \in Table /\ json_str \in Table
    /\ lpc \in {"idle", "read", "reloaded", "writing"}
    /\ login \in Login \cup {NoLogin}
    /\ epc \in {"idle", "writing"}
    /\ up \in BOOLEAN /\ mishap \in BOOLEAN
    /\ known \subseteq Names
    /\ wins \in [Names -> Nat]

(* No result is counted twice, whatever interleaves and fails: a table     *)
(* that is stale, torn or misread only lacks results.  (A name that        *)
(* another one is cut down to can inherit that one's.)                     *)
NoResultInvented ==
    \A t \in {m_users, file, json_str}, n \in Names :
        (t[n] # NoUser /\ \A k \in Names \ {n} : NameRead[k] # n) => t[n].wins <= wins[n]

(* Four things lose accounts or results: an overlap (a login reads the     *)
(* file before, and reloads it after, a result is booked; somebody reads   *)
(* or the server stops in the middle of a write), an open of the file that *)
(* fails anywhere but at the first try of a login, a name that is not read *)
(* back as itself, a password with a brace.  Without them every account    *)
(* and every result is in the file and survives reading it: reloading it   *)
(* on every login and writing it back loses nothing by itself, whatever    *)
(* the parser does to the passwords.                                       *)
NothingLostWithoutMishap ==
    (~mishap /\ MutexFree) =>
        \A n \in known : /\ file[n] # NoUser /\ file[n].wins = wins[n]
                         /\ Parsed(file)[n] # NoUser /\ Parsed(file)[n].wins = wins[n]

(* Every login is answered, unless the server stops: the mutex that the    *)
(* reload takes is free again when authenticate_or_register takes it.      *)
LoginsAreAnswered == lpc = "read" ~> lpc = "idle"

=============================================================================
