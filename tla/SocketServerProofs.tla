------------------------- MODULE SocketServerProofs -------------------------
(***************************************************************************)
(* What network::SocketServer keeps for any number of connections,         *)
(* accounts and rooms: every game is booked at most once and only for a    *)
(* result that was earned, and seats stay with those who took them.  The   *)
(* invariant IndInv has one part for each of the arguments; a lemma says   *)
(* what each operation changes, and a lemma for each part says that no     *)
(* step breaks it.                                                         *)
(***************************************************************************)
EXTENDS SocketServer, TLAPS, FiniteSetTheorems, SequenceTheorems

(* The game thread works on a room of its snapshot, on_close on one of     *)
(* those there are.                                                        *)
AtARoom ==
    /\ gpc \in {"rooms", "window", "forfeit", "settle", "book"} => todo # {}
    /\ closing # NoRoom => room[closing] # NoRoom

(* A connection is registered once, while its screen is neither off nor    *)
(* gone.                                                                   *)
Registered ==
    /\ \A i, k \in 1 .. Len(m_clients) : m_clients[i] = m_clients[k] => i = k
    /\ \A i \in 1 .. Len(m_clients) : screen[m_clients[i]] \notin {"off", "gone"}

(* A room is booked when it has been settled; the game thread is about to  *)
(* book only a room that it has settled and not booked.                    *)
RoomsBookedOnce ==
    /\ \A r \in Rooms : booked[r] <= 1
    /\ \A r \in Rooms : booked[r] > 0 => room[r] # NoRoom /\ room[r].elo_updated
    /\ gpc = "book" => room[Front].elo_updated /\ booked[Front] = 0

(* Matches are booked in the order of their numbers.                       *)
MatchesBookedOnce ==
    /\ match.serial <= MaxMatches
    /\ \A g \in 0 .. MaxMatches : /\ booked[g] <= 1
                                  /\ g > match.serial => booked[g] = 0
    /\ booked[match.serial] > 0 => match.elo_updated

(* A room that waits, or was seen to wait, has an old start time only      *)
(* after 20 seconds or until on_close has written a new one.  A game that  *)
(* ended without a move and without a forfeit was abandoned: nobody can    *)
(* sit down as WHITE again.                                                *)
EndsAreEarned ==
    /\ \A r \in Rooms : room[r] # NoRoom =>
          /\ /\ room[r].is_disconnected \/ (gpc = "window" /\ r = Front)
             /\ room[r].overdue
             => room[r].expired \/ closing = r
          /\ room[r].over => \/ room[r].played \/ room[r].expired \/ room[r].early
                             \/ room[r].seat["WHITE"] = NoConn
    /\ gpc = "forfeit" => room[Front].expired \/ room[Front].early
    /\ gpc = "book" => room[Front].played \/ room[Front].expired \/ room[Front].early

(* A connection that has left and was of account u when it was in room r.  *)
Left(r, u) == \E d \in Conns : screen[d] = "gone" /\ client[d].user = u /\ client[d].room = r

(* A client in a room that is not a viewer sits there, or another          *)
(* connection of its account has left the room; so does everybody whom a   *)
(* room waits for.                                                         *)
SeatsAreAccountedFor ==
    /\ \A c \in Conns : screen[c] \in {"off", "login"} => client[c].room = NoRoom
    /\ \A c \in Conns : client[c].room # NoRoom => room[client[c].room] # NoRoom
    /\ \A r \in Rooms : (room[r] # NoRoom /\ room[r].is_disconnected) => Left(r, room[r].disconnected)
    /\ \A c \in Conns :
          (screen[c] # "gone" /\ client[c].room # NoRoom /\ ~client[c].is_viewer) =>
              \/ \E s \in Seats : room[client[c].room].seat[s] = c
              \/ Left(client[c].room, client[c].user)

IndInv ==
    /\ TypeOK
    /\ AtARoom
    /\ Registered
    /\ RoomsBookedOnce
    /\ MatchesBookedOnce
    /\ EndsAreEarned
    /\ RoomResultsAreEarned
    /\ SeatsAreAccountedFor

-----------------------------------------------------------------------------
(* Facts about the model's operators.                                      *)

(* The room at work is one of the snapshot, and stays it as long as the    *)
(* snapshot does.                                                          *)
LEMMA FrontOfTodo ==
    /\ todo # {} => Front \in todo
    /\ todo' = todo => Front' = Front
BY DEF Front

(* Erasing an entry of a sequence without repetitions leaves the others.   *)
LEMMA Erased ==
    ASSUME NEW S, NEW s \in Seq(S), NEW i \in 1 .. Len(s),
           \A j, k \in 1 .. Len(s) : s[j] = s[k] => j = k
    PROVE  /\ erase(s, i) \in Seq(S)
           /\ \A j, k \in 1 .. Len(erase(s, i)) : erase(s, i)[j] = erase(s, i)[k] => j = k
           /\ \A k \in 1 .. Len(erase(s, i)) :
                 /\ erase(s, i)[k] # s[i]
                 /\ \E j \in 1 .. Len(s) : erase(s, i)[k] = s[j]
<1> DEFINE t == erase(s, i)
           a == SubSeq(s, 1, i - 1)
           b == SubSeq(s, i + 1, Len(s))
<1>0. Len(s) \in Nat /\ i \in Nat /\ \A k \in 1 .. Len(s) : s[k] \in S
  BY LenProperties
<1>1. /\ a \in Seq(S) /\ Len(a) = i - 1
      /\ \A k \in 1 .. i - 1 : a[k] = s[k]
  <2>1. \A k \in 1 .. i - 1 : s[k] \in S
    BY <1>0
  <2>2. 1 \in Int /\ i - 1 \in Int
    BY <1>0
  <2> QED
    BY <1>0, <2>1, <2>2, SubSeqProperties
<1>2. /\ b \in Seq(S) /\ Len(b) = Len(s) - i
      /\ \A k \in 1 .. Len(s) - i : b[k] = s[i + k]
  <2>1. \A k \in i + 1 .. Len(s) : s[k] \in S
    BY <1>0
  <2>2. i + 1 \in Int /\ Len(s) \in Int
    BY <1>0
  <2> QED
    BY <1>0, <2>1, <2>2, SubSeqProperties
<1>t. t = a \o b
  BY DEF erase
<1> HIDE DEF a, b, t
<1>3. /\ t \in Seq(S) /\ Len(t) = Len(a) + Len(b)
      /\ \A k \in 1 .. Len(a) + Len(b) : t[k] = IF k <= Len(a) THEN a[k] ELSE b[k - Len(a)]
  BY ONLY <1>1, <1>2, <1>t, ConcatProperties
<1>4. /\ t \in Seq(S) /\ Len(t) = Len(s) - 1
      /\ \A k \in 1 .. Len(s) - 1 : /\ k < i => t[k] = s[k]
                                    /\ k >= i => t[k] = s[k + 1]
  <2>1. Len(t) = Len(s) - 1
    BY ONLY <1>0, <1>1, <1>2, <1>3
  <2>2. ASSUME NEW k \in 1 .. Len(s) - 1, k < i PROVE t[k] = s[k]
    BY ONLY <1>0, <1>1, <1>2, <1>3, <2>2
  <2>3. ASSUME NEW k \in 1 .. Len(s) - 1, k >= i PROVE t[k] = s[k + 1]
    <3>1. k - (i - 1) \in 1 .. Len(s) - i /\ k \in 1 .. Len(a) + Len(b) /\ ~(k <= Len(a))
      BY ONLY <1>0, <1>1, <1>2, <2>3
    <3>2. t[k] = b[k - (i - 1)]
      BY ONLY <3>1, <1>1, <1>3
    <3>3. b[k - (i - 1)] = s[i + (k - (i - 1))] /\ i + (k - (i - 1)) = k + 1
      BY ONLY <3>1, <1>2, <1>0
    <3> QED
      BY ONLY <3>2, <3>3
  <2> QED
    BY <1>3, <2>1, <2>2, <2>3
<1>5. ASSUME NEW k \in 1 .. Len(t)
      PROVE  \/ k < i /\ k \in 1 .. Len(s) /\ k # i /\ t[k] = s[k]
             \/ k >= i /\ k + 1 \in 1 .. Len(s) /\ k + 1 # i /\ t[k] = s[k + 1]
  <2>1. k \in 1 .. Len(s) - 1 /\ k \in Nat
    BY ONLY <1>0, <1>4, k \in 1 .. Len(t)
  <2>2. CASE k < i
    <3>1. t[k] = s[k]
      BY ONLY <1>0, <1>4, <2>1, <2>2
    <3>2. k \in 1 .. Len(s) /\ k # i
      BY ONLY <1>0, <2>1, <2>2
    <3> QED
      BY ONLY <2>2, <3>1, <3>2
  <2>3. CASE k >= i
    BY ONLY <1>0, <1>4, <2>1, <2>3
  <2> QED
    BY ONLY <1>0, <2>1, <2>2, <2>3
<1>6. \A j, k \in 1 .. Len(s) : s[j] = s[k] => j = k
  OBVIOUS
<1>7. ASSUME NEW j \in 1 .. Len(t), NEW k \in 1 .. Len(t), t[j] = t[k]
      PROVE  j = k
  BY ONLY <1>0, <1>4, <1>5, <1>6, <1>7
<1>8. ASSUME NEW k \in 1 .. Len(t)
      PROVE  t[k] # s[i] /\ \E j \in 1 .. Len(s) : t[k] = s[j]
  BY ONLY <1>0, <1>5, <1>6, i \in 1 .. Len(s), k \in 1 .. Len(t)
<1> QED
  BY <1>4, <1>7, <1>8 DEF t

(* A set of pairs of searching clients is finite.                          *)
LEMMA PairingsAreFinite ==
    ASSUME m_clients \in Seq(Conns), NEW M \in Pairings
    PROVE  /\ Cardinality(M) \in Nat
           /\ M # {} => Cardinality(M) > 0
           /\ \A p \in M : p[1] \in Searching /\ p[2] \in Searching
<1>1. Len(m_clients) \in Nat
  BY LenProperties
<1>2. IsFiniteSet(Searching)
  <2>1. IsFiniteSet(1 .. Len(m_clients))
    BY <1>1, FS_Interval
  <2>2. Searching \in SUBSET (1 .. Len(m_clients))
    BY DEF Searching
  <2> QED
    BY <2>1, <2>2, FS_Subset
<1>3. IsFiniteSet(Searching \X Searching)
  BY <1>2, FS_Product
<1>4. M \in SUBSET (Searching \X Searching)
  BY DEF Pairings
<1>5. IsFiniteSet(M)
  BY <1>3, <1>4, FS_Subset
<1> QED
  BY <1>4, <1>5, FS_CardinalityType, FS_EmptySet

(* A new room is a room.                                                   *)
LEMMA NewRoomIsRoom ==
    ASSUME NEW n \in Names, NEW c \in Conns
    PROVE  NewRoom(n, c) \in Room /\ NewRoom(n, c) # NoRoom
<1>1. NewRoom(n, c) \in Room
  BY DEF NewRoom, Room, Seats
<1> QED
  BY <1>1, GamesAssumption

(* What on_close does to a room: the seats of the connection are emptied;  *)
(* the game ends only if they all are; a room begins to wait for the       *)
(* account of the connection, or does not change what it waits for.        *)
LEMMA AbandonedRoom ==
    ASSUME NEW r \in Rooms, NEW c \in Conns, room[r] \in Room, client[c] \in Client
    PROVE  LET new == Abandon(r, c)
               old == room[r]
           IN  /\ new \in Room
               /\ \A s \in Seats : new.seat[s] = IF old.seat[s] = c THEN NoConn ELSE old.seat[s]
               /\ new.played = old.played /\ new.expired = old.expired
               /\ new.early = old.early /\ new.elo_updated = old.elo_updated
               /\ new.over => old.over \/ new.seat["WHITE"] = NoConn
               /\ new.overdue = old.overdue
               /\ new.is_disconnected =>
                     \/ new.disconnected = client[c].user /\ BeginsToWait(r, c)
                     \/ old.is_disconnected /\ new.disconnected = old.disconnected
<1> DEFINE seat == [s \in Seats |-> IF s \in {x \in Seats : room[r].seat[x] = c}
                                    THEN NoConn ELSE room[r].seat[s]]
<1>1. seat \in [Seats -> Conns \cup {NoConn}]
  BY DEF Room
<1>2. \A s \in Seats : seat[s] = IF room[r].seat[s] = c THEN NoConn ELSE room[r].seat[s]
  OBVIOUS
<1>3. "WHITE" \in Seats /\ client[c].user \in Users \cup {NoUser}
  BY DEF Seats, Client
<1>4. Abandon(r, c) =
         IF \A s \in Seats : seat[s] = NoConn
         THEN [room[r] EXCEPT !.seat = seat, !.over = TRUE, !.is_disconnected = FALSE]
         ELSE IF {s \in Seats : room[r].seat[s] = c} # {} /\ ~room[r].over
         THEN [room[r] EXCEPT !.seat = seat, !.is_disconnected = TRUE,
                              !.disconnected = client[c].user]
         ELSE [room[r] EXCEPT !.seat = seat]
  BY DEF Abandon
<1>5. (~\A s \in Seats : seat[s] = NoConn) =>
          \E s \in Seats : room[r].seat[s] \notin {c, NoConn}
  OBVIOUS
<1> HIDE DEF seat
<1>6. (/\ ~\A s \in Seats : seat[s] = NoConn
       /\ {s \in Seats : room[r].seat[s] = c} # {} /\ ~room[r].over) => BeginsToWait(r, c)
  BY <1>5 DEF BeginsToWait
<1>7. CASE \A s \in Seats : seat[s] = NoConn
  BY <1>1, <1>2, <1>3, <1>4, <1>7 DEF Room
<1>8. CASE /\ ~\A s \in Seats : seat[s] = NoConn
           /\ {s \in Seats : room[r].seat[s] = c} # {} /\ ~room[r].over
  <2>1. Abandon(r, c) = [room[r] EXCEPT !.seat = seat, !.is_disconnected = TRUE,
                                        !.disconnected = client[c].user]
    BY <1>4, <1>8
  <2> QED
    BY <1>1, <1>2, <1>3, <1>6, <1>8, <2>1 DEF Room
<1>9. CASE /\ ~\A s \in Seats : seat[s] = NoConn
           /\ ~({s \in Seats : room[r].seat[s] = c} # {} /\ ~room[r].over)
  <2>1. Abandon(r, c) = [room[r] EXCEPT !.seat = seat]
    BY <1>4, <1>9
  <2> QED
    BY <1>1, <1>2, <2>1 DEF Room
<1> QED
  BY <1>7, <1>8, <1>9

(* Marking a room settled changes nothing else.                            *)
LEMMA SettledRoom ==
    ASSUME NEW r \in Rooms, room \in [Rooms -> Room \cup {NoRoom}], room[r] # NoRoom
    PROVE  /\ MarkSettled(r) \in [Rooms -> Room \cup {NoRoom}]
           /\ MarkSettled(r)[r] = [room[r] EXCEPT !.elo_updated = TRUE]
           /\ MarkSettled(r)[r] \in Room
           /\ \A x \in Rooms : x # r => MarkSettled(r)[x] = room[x]
BY DEF MarkSettled, Room

(* The ClientInfo of a client that takes a seat.                           *)
LEMMA SeatedClient ==
    ASSUME NEW info \in Client, NEW r \in Rooms, NEW color \in Seats
    PROVE  /\ Seated(info, r, color) \in Client
           /\ Seated(info, r, color).room = r
           /\ Seated(info, r, color).user = info.user
BY DEF Seated, Client, Roles

(* What a player who logs in again changes: the room stops waiting; every  *)
(* seat stays or passes to the new connection from one of the same name.   *)
LEMMA ReconnectEffect ==
    ASSUME NEW c \in Conns, NEW u \in Users, NEW r \in Rooms, room[r] \in Room,
           room \in [Rooms -> Room \cup {NoRoom}], client \in [Conns -> Client],
           screen \in [Conns -> Screens], Reconnect(c, u, r)
    PROVE  /\ room' \in [Rooms -> Room \cup {NoRoom}] /\ room'[r] \in Room
           /\ client' \in [Conns -> Client]
           /\ \A x \in Rooms : x # r => room'[x] = room[x]
           /\ \A x \in Conns : x # c => client'[x] = client[x]
           /\ client'[c].user = u /\ client'[c].room = r
           /\ \A s \in Seats : \/ room'[r].seat[s] = room[r].seat[s]
                               \/ room'[r].seat[s] = c /\ HeldBy(r, s, u)
           /\ room'[r].played = room[r].played /\ room'[r].expired = room[r].expired
           /\ room'[r].early = room[r].early
           /\ room'[r].elo_updated = room[r].elo_updated
           /\ room'[r].over = room[r].over /\ room'[r].overdue = room[r].overdue
           /\ ~room'[r].is_disconnected
           /\ screen' = [screen EXCEPT ![c] = "told"]
<1> DEFINE seats == IF HeldBy(r, "WHITE", u) THEN {"WHITE"}
                    ELSE IF HeldBy(r, "BLACK", u) THEN {"BLACK"} ELSE {}
           seat == [s \in Seats |-> IF s \in seats THEN c ELSE room[r].seat[s]]
           color == IF seats = {} THEN client[c].color ELSE CHOOSE s \in seats : TRUE
<1>1. seats \subseteq Seats /\ \A s \in seats : HeldBy(r, s, u)
  BY DEF Seats
<1>2. /\ seat \in [Seats -> Conns \cup {NoConn}]
      /\ \A s \in Seats : seat[s] = room[r].seat[s] \/ (seat[s] = c /\ HeldBy(r, s, u))
  BY <1>1 DEF Room
<1>3. color \in Roles
  <2>1. CASE seats = {}
    BY <2>1 DEF Client
  <2>2. CASE seats # {}
    <3>1. (CHOOSE s \in seats : TRUE) \in seats
      BY <2>2
    <3> QED
      BY <1>1, <2>2, <3>1 DEF Roles
  <2> QED
    BY <2>1, <2>2
<1>4. /\ room' = [room EXCEPT ![r] = [room[r] EXCEPT !.seat = seat, !.is_disconnected = FALSE,
                                                    !.disconnected = NoUser]]
      /\ client' = [client EXCEPT ![c] = [client[c] EXCEPT !.user = u, !.room = r, !.color = color]]
      /\ screen' = [screen EXCEPT ![c] = "told"]
  BY DEF Reconnect
<1> HIDE DEF seats, seat, color
<1>5. /\ room' \in [Rooms -> Room \cup {NoRoom}] /\ room'[r] \in Room
      /\ \A x \in Rooms : x # r => room'[x] = room[x]
      /\ room'[r] = [room[r] EXCEPT !.seat = seat, !.is_disconnected = FALSE, !.disconnected = NoUser]
  BY <1>2, <1>4 DEF Room
<1>6. /\ client' \in [Conns -> Client]
      /\ \A x \in Conns : x # c => client'[x] = client[x]
      /\ client'[c].user = u /\ client'[c].room = r
  BY <1>3, <1>4 DEF Client
<1>7. /\ room'[r].seat = seat /\ ~room'[r].is_disconnected
      /\ room'[r].played = room[r].played /\ room'[r].expired = room[r].expired
      /\ room'[r].early = room[r].early
      /\ room'[r].elo_updated = room[r].elo_updated
      /\ room'[r].over = room[r].over /\ room'[r].overdue = room[r].overdue
  BY <1>5 DEF Room
<1> QED
  BY <1>2, <1>4, <1>5, <1>6, <1>7

(* A matchmaking round hands out colours and ends searches; a client stays *)
(* in its room, and a new match has a new number.                          *)
LEMMA MatchmakingEffect ==
    ASSUME TypeOK, process_matchmaking
    PROVE  /\ client' \in [Conns -> Client] /\ screen' \in [Conns -> Screens]
           /\ \A c \in Conns : /\ client'[c].user = client[c].user
                               /\ client'[c].room = client[c].room
                               /\ client'[c].is_viewer = client[c].is_viewer
           /\ \A c \in Conns : \/ screen'[c] = screen[c]
                               \/ screen[c] = "menu" /\ screen'[c] = "told"
           /\ match' \in [serial : Nat, played : BOOLEAN, over : BOOLEAN, elo_updated : BOOLEAN]
           /\ \/ match' = match
              \/ match'.serial > match.serial /\ match'.serial <= MaxMatches
<1> DEFINE whites(M) == {m_clients[p[1]] : p \in M}
           blacks(M) == {m_clients[p[2]] : p \in M}
<1>1. PICK M \in Pairings :
          /\ match.serial + Cardinality(M) <= MaxMatches
          /\ match' = IF M = {} THEN match
                      ELSE [serial |-> match.serial + Cardinality(M), played |-> FALSE,
                            over |-> FALSE, elo_updated |-> FALSE]
          /\ screen' = [c \in Conns |-> IF c \in whites(M) \cup blacks(M) /\ screen[c] = "menu"
                                        THEN "told" ELSE screen[c]]
          /\ \E late \in SUBSET ({m_clients[i] : i \in Searching} \ (whites(M) \cup blacks(M))) :
                client' = [c \in Conns |->
                    [client[c] EXCEPT
                        !.is_searching = @ /\ c \notin (whites(M) \cup blacks(M)) \cup late,
                        !.color = IF c \in whites(M) THEN "WHITE"
                                  ELSE IF c \in blacks(M) THEN "BLACK" ELSE @]]
  BY DEF process_matchmaking
<1> DEFINE W == whites(M)
           B == blacks(M)
<1>2. PICK quiet : client' = [c \in Conns |->
                    [client[c] EXCEPT
                        !.is_searching = @ /\ c \notin quiet,
                        !.color = IF c \in W THEN "WHITE" ELSE IF c \in B THEN "BLACK" ELSE @]]
  BY <1>1
<1>3. screen' = [c \in Conns |-> IF c \in W \cup B /\ screen[c] = "menu" THEN "told" ELSE screen[c]]
  BY <1>1
<1>4. /\ Cardinality(M) \in Nat
      /\ M # {} => Cardinality(M) > 0
  BY PairingsAreFinite DEF TypeOK
<1> HIDE DEF whites, blacks, W, B
<1>5. /\ client' \in [Conns -> Client]
      /\ \A c \in Conns : /\ client'[c].user = client[c].user
                          /\ client'[c].room = client[c].room
                          /\ client'[c].is_viewer = client[c].is_viewer
  <2> SUFFICES ASSUME NEW c \in Conns
               PROVE  /\ client'[c] \in Client
                      /\ client'[c].user = client[c].user
                      /\ client'[c].room = client[c].room
                      /\ client'[c].is_viewer = client[c].is_viewer
    BY <1>2
  <2>1. client[c] \in Client
    BY DEF TypeOK
  <2>2. client'[c] = [client[c] EXCEPT
                        !.is_searching = @ /\ c \notin quiet,
                        !.color = IF c \in W THEN "WHITE" ELSE IF c \in B THEN "BLACK" ELSE @]
    BY <1>2
  <2> QED
    BY <2>1, <2>2 DEF Client, Roles, Seats
<1>6. /\ screen' \in [Conns -> Screens]
      /\ \A c \in Conns : \/ screen'[c] = screen[c]
                          \/ screen[c] = "menu" /\ screen'[c] = "told"
  BY <1>3 DEF TypeOK, Screens
<1>7. /\ match' \in [serial : Nat, played : BOOLEAN, over : BOOLEAN, elo_updated : BOOLEAN]
      /\ \/ match' = match
         \/ match'.serial > match.serial /\ match'.serial <= MaxMatches
  <2>1. match.serial \in Nat
    BY DEF TypeOK
  <2>2. CASE M = {}
    BY <1>1, <2>2 DEF TypeOK
  <2>3. CASE M # {}
    <3>1. match' = [serial |-> match.serial + Cardinality(M), played |-> FALSE,
                    over |-> FALSE, elo_updated |-> FALSE]
      BY <1>1, <2>3
    <3>2. match.serial + Cardinality(M) <= MaxMatches
      BY <1>1, Zenon
    <3>3. /\ match.serial + Cardinality(M) \in Nat
          /\ match.serial + Cardinality(M) > match.serial
      BY ONLY <1>4, <2>1, <2>3
    <3> QED
      BY ONLY <3>1, <3>2, <3>3
  <2> QED
    BY <2>2, <2>3
<1> QED
  BY <1>5, <1>6, <1>7

(* Joining as BLACK takes that seat, which was free, and nothing else.     *)
LEMMA JoinBlackEffect ==
    ASSUME NEW c \in Conns, NEW r \in Rooms, room[r] \in Room,
           room \in [Rooms -> Room \cup {NoRoom}], client \in [Conns -> Client],
           JoinAsBlack(c, r)
    PROVE  /\ room' \in [Rooms -> Room \cup {NoRoom}] /\ room'[r] \in Room
           /\ client' \in [Conns -> Client]
           /\ \A x \in Rooms : x # r => room'[x] = room[x]
           /\ \A x \in Conns : x # c => client'[x] = client[x]
           /\ client'[c].user = client[c].user /\ client'[c].room = r
           /\ room[r].seat["BLACK"] = NoConn /\ room'[r].seat["BLACK"] = c
           /\ \A s \in Seats : s # "BLACK" => room'[r].seat[s] = room[r].seat[s]
           /\ room'[r].played = room[r].played /\ room'[r].expired = room[r].expired
           /\ room'[r].early = room[r].early
           /\ room'[r].elo_updated = room[r].elo_updated
           /\ room'[r].over = room[r].over /\ room'[r].overdue = room[r].overdue
           /\ room'[r].is_disconnected = room[r].is_disconnected
           /\ room'[r].disconnected = room[r].disconnected
<1> DEFINE seat == [room[r].seat EXCEPT !["BLACK"] = c]
           started == room[r].started \/ room[r].seat["WHITE"] # NoConn
<1>1. room[r].seat \in [Seats -> Conns \cup {NoConn}] /\ "BLACK" \in Seats
  BY DEF Room, Seats
<1>2. /\ seat \in [Seats -> Conns \cup {NoConn}] /\ seat["BLACK"] = c
      /\ \A s \in Seats : s # "BLACK" => seat[s] = room[r].seat[s]
  BY <1>1
<1>3. started \in BOOLEAN
  BY DEF Room
<1>4. room' = [room EXCEPT ![r] = [room[r] EXCEPT !.seat = seat, !.started = started]]
  BY DEF JoinAsBlack
<1> HIDE DEF seat, started
<1>5. /\ room' \in [Rooms -> Room \cup {NoRoom}] /\ room'[r] \in Room
      /\ \A x \in Rooms : x # r => room'[x] = room[x]
      /\ room'[r] = [room[r] EXCEPT !.seat = seat, !.started = started]
  BY <1>2, <1>3, <1>4 DEF Room
<1>6. /\ client' \in [Conns -> Client]
      /\ \A x \in Conns : x # c => client'[x] = client[x]
      /\ client'[c].user = client[c].user /\ client'[c].room = r
  <2>1. client' = [client EXCEPT ![c] = Seated(client[c], r, "BLACK")]
    BY DEF JoinAsBlack
  <2> QED
    BY <1>1, <2>1, SeatedClient
<1>7. /\ room'[r].seat = seat
      /\ room'[r].played = room[r].played /\ room'[r].expired = room[r].expired
      /\ room'[r].early = room[r].early
      /\ room'[r].elo_updated = room[r].elo_updated
      /\ room'[r].over = room[r].over /\ room'[r].overdue = room[r].overdue
      /\ room'[r].is_disconnected = room[r].is_disconnected
      /\ room'[r].disconnected = room[r].disconnected
  BY <1>5 DEF Room
<1>8. room[r].seat["BLACK"] = NoConn
  BY DEF JoinAsBlack
<1>9. room'[r].seat["BLACK"] = c /\ \A s \in Seats : s # "BLACK" => room'[r].seat[s] = room[r].seat[s]
  BY <1>2, <1>7
<1> QED
  BY <1>5, <1>6, <1>7, <1>8, <1>9

(* A viewer joins without changing the room.                               *)
LEMMA JoinViewerEffect ==
    ASSUME NEW c \in Conns, NEW r \in Rooms, client \in [Conns -> Client], JoinAsViewer(c, r)
    PROVE  /\ UNCHANGED room
           /\ client' \in [Conns -> Client]
           /\ \A x \in Conns : x # c => client'[x] = client[x]
           /\ client'[c].user = client[c].user /\ client'[c].room = r /\ client'[c].is_viewer
<1>1. client' = [client EXCEPT ![c] = [client[c] EXCEPT !.room = r, !.color = "VIEWER",
                                                        !.is_viewer = TRUE]]
  BY DEF JoinAsViewer
<1>2. [client[c] EXCEPT !.room = r, !.color = "VIEWER", !.is_viewer = TRUE] \in Client
  BY DEF Client, Roles
<1>3. /\ client'[c] = [client[c] EXCEPT !.room = r, !.color = "VIEWER", !.is_viewer = TRUE]
      /\ client' \in [Conns -> Client]
      /\ \A x \in Conns : x # c => client'[x] = client[x]
  BY <1>1, <1>2
<1>4. client'[c].user = client[c].user /\ client'[c].room = r /\ client'[c].is_viewer
  BY <1>3 DEF Client
<1> QED
  BY <1>3, <1>4 DEF JoinAsViewer

(* Creating a room takes an unused id and the WHITE seat of it.            *)
LEMMA CreateEffect ==
    ASSUME NEW c \in Conns, NEW n \in Names, CreateRoom(c, n),
           room \in [Rooms -> Room \cup {NoRoom}], client \in [Conns -> Client]
    PROVE  \E r \in Rooms :
              /\ room[r] = NoRoom
              /\ live' = {x \in live : n \notin {room[x].name, x}} \cup {r}
              /\ room' \in [Rooms -> Room \cup {NoRoom}]
              /\ room'[r] \in Room /\ room'[r].seat["WHITE"] = c
              /\ ~room'[r].over /\ ~room'[r].is_disconnected
              /\ \A x \in Rooms : x # r => room'[x] = room[x]
              /\ client' \in [Conns -> Client]
              /\ \A x \in Conns : x # c => client'[x] = client[x]
              /\ client'[c].user = client[c].user /\ client'[c].room = r
<1>1. PICK r \in UnusedRooms :
          /\ live' = {x \in live : n \notin {room[x].name, x}} \cup {r}
          /\ room' = [room EXCEPT ![r] = NewRoom(n, c)]
          /\ client' = [client EXCEPT ![c] = Seated(client[c], r, "WHITE")]
  BY DEF CreateRoom
<1>2. r \in Rooms /\ room[r] = NoRoom
  BY DEF UnusedRooms
<1>3. /\ NewRoom(n, c).seat["WHITE"] = c /\ ~NewRoom(n, c).over
      /\ ~NewRoom(n, c).is_disconnected
  BY DEF NewRoom, Seats
<1>4. /\ room' \in [Rooms -> Room \cup {NoRoom}]
      /\ room'[r] = NewRoom(n, c) /\ room'[r] \in Room
      /\ \A x \in Rooms : x # r => room'[x] = room[x]
  BY <1>1, <1>2, NewRoomIsRoom
<1>5. /\ client' \in [Conns -> Client]
      /\ \A x \in Conns : x # c => client'[x] = client[x]
      /\ client'[c].user = client[c].user /\ client'[c].room = r
  <2>1. "WHITE" \in Seats
    BY DEF Seats
  <2> QED
    BY <1>1, <1>2, <2>1, SeatedClient
<1> QED
  BY <1>1, <1>2, <1>3, <1>4, <1>5


-----------------------------------------------------------------------------
(* The invariant is kept, part by part.                                    *)

(* Every room that is in m_rooms or in the snapshot exists, and so does    *)
(* the one on_close is at work on.                                         *)
LEMMA RoomsExist ==
    ASSUME TypeOK, AtARoom
    PROVE  /\ \A r \in live \cup todo : r \in Rooms /\ room[r] \in Room
           /\ gpc \in {"rooms", "window", "forfeit", "settle", "book"} =>
                 Front \in todo /\ Front \in Rooms /\ room[Front] \in Room
           /\ closing # NoRoom => closing \in Rooms /\ room[closing] \in Room
BY FrontOfTodo DEF TypeOK, AtARoom

(* TypeOK holds after every step.                                          *)
LEMMA TypeStep ==
    ASSUME TypeOK, AtARoom, Registered, [Next]_vars
    PROVE  TypeOK'
<1>0. CASE UNCHANGED vars
  BY <1>0 DEF vars, TypeOK
<1>1. ASSUME NEW c \in Conns, on_open(c) PROVE TypeOK'
  BY <1>1, AppendProperties DEF on_open, gameVars, TypeOK, Screens
<1>2. ASSUME NEW c \in Conns, on_close(c) PROVE TypeOK'
  <2>1. m_clients' \in Seq(Conns)
    <3>1. PICK i \in 1 .. Len(m_clients) : m_clients' = erase(m_clients, i)
      BY <1>2 DEF on_close
    <3>2. \A j, k \in 1 .. Len(m_clients) : m_clients[j] = m_clients[k] => j = k
      BY DEF Registered
    <3> QED
      BY <3>1, <3>2, Erased DEF TypeOK
  <2>2. room' \in [Rooms -> Room \cup {NoRoom}] /\ \A r \in live \cup todo : room'[r] # NoRoom
    <3>1. \A r \in live : Abandon(r, c) \in Room
      BY RoomsExist, AbandonedRoom DEF TypeOK
    <3> QED
      BY <1>2, <3>1, GamesAssumption DEF on_close, TypeOK
  <2>3. client' \in [Conns -> Client] /\ screen' \in [Conns -> Screens]
    BY <1>2 DEF on_close, TypeOK, Client, NewClient, Roles, Screens
  <2> QED
    BY <1>2, <2>1, <2>2, <2>3 DEF on_close, gameVars, TypeOK
<1>3. ASSUME NEW c \in Conns, Login(c) PROVE TypeOK'
  <2>1. UserOf[c] \in Users
    BY UserAssumption
  <2>2. ASSUME client' = [client EXCEPT ![c].user = UserOf[c]],
               screen' = [screen EXCEPT ![c] = "menu"], UNCHANGED room
        PROVE  TypeOK'
    <3>0. client \in [Conns -> Client]
      BY DEF TypeOK
    <3>1. client' \in [Conns -> Client]
      BY <2>1, <2>2, <3>0 DEF Client
    <3>2. screen' \in [Conns -> Screens]
      BY <2>2 DEF TypeOK, Screens
    <3> QED
      BY <1>3, <2>2, <3>1, <3>2 DEF Login, gameVars, TypeOK
  <2>3. ASSUME NEW r \in Waiting(UserOf[c]), Reconnect(c, UserOf[c], r) PROVE TypeOK'
    <3>1. r \in Rooms /\ r \in live /\ room[r] \in Room
      BY RoomsExist DEF Waiting
    <3>2. /\ room' \in [Rooms -> Room \cup {NoRoom}] /\ room'[r] \in Room
          /\ \A x \in Rooms : x # r => room'[x] = room[x]
          /\ client' \in [Conns -> Client]
          /\ screen' = [screen EXCEPT ![c] = "told"]
      BY <2>1, <2>3, <3>1, ReconnectEffect DEF TypeOK
    <3>3. \A x \in live \cup todo : room'[x] # NoRoom
      BY <3>1, <3>2, GamesAssumption DEF TypeOK
    <3>4. screen' \in [Conns -> Screens]
      BY <3>2 DEF TypeOK, Screens
    <3> QED
      BY <1>3, <3>2, <3>3, <3>4 DEF Login, gameVars, TypeOK
  <2> QED
    BY <1>3, <2>2, <2>3 DEF Login
<1>4. ASSUME NEW c \in Conns, FindMatch(c) \/ CancelMatch(c) PROVE TypeOK'
  <2>0. PICK b \in BOOLEAN : client' = [client EXCEPT ![c].is_searching = b]
    BY <1>4 DEF FindMatch, CancelMatch
  <2>1. client' \in [Conns -> Client]
    <3>1. client \in [Conns -> Client]
      BY DEF TypeOK
    <3> QED
      BY <2>0, <3>1 DEF Client
  <2> QED
    BY <1>4, <2>1 DEF FindMatch, CancelMatch, gameVars, TypeOK
<1>5. ASSUME NEW c \in Conns, OpenBoard(c) PROVE TypeOK'
  BY <1>5 DEF OpenBoard, gameVars, TypeOK, Screens
<1>6. ASSUME NEW c \in Conns, PlayInRoom(c) PROVE TypeOK'
  <2>1. client[c].room \in Rooms /\ room[client[c].room] \in Room
    BY <1>6, RoomsExist DEF PlayInRoom
  <2>2. [room[client[c].room] EXCEPT !.played = TRUE] \in Room
    BY <2>1 DEF Room
  <2>3. room' \in [Rooms -> Room \cup {NoRoom}] /\ \A x \in live \cup todo : room'[x] # NoRoom
    BY <1>6, <2>1, <2>2, GamesAssumption DEF PlayInRoom, TypeOK
  <2> QED
    BY <1>6, <2>3 DEF PlayInRoom, gameVars, TypeOK
<1>7. ASSUME NEW c \in Conns, PlayInMatch(c) PROVE TypeOK'
  BY <1>7 DEF PlayInMatch, gameVars, TypeOK
<1>8. ASSUME NEW c \in Conns, NEW n \in Names, CreateRoom(c, n) PROVE TypeOK'
  <2>1. PICK r \in Rooms :
          /\ live' = {x \in live : n \notin {room[x].name, x}} \cup {r}
          /\ room' \in [Rooms -> Room \cup {NoRoom}] /\ room'[r] \in Room
          /\ \A x \in Rooms : x # r => room'[x] = room[x]
          /\ client' \in [Conns -> Client]
    BY <1>8, CreateEffect DEF TypeOK
  <2>2. \A x \in live' \cup todo : room'[x] # NoRoom
    BY <2>1, GamesAssumption DEF TypeOK
  <2>3. screen' \in [Conns -> Screens]
    BY <1>8 DEF CreateRoom, TypeOK, Screens
  <2> QED
    BY <1>8, <2>1, <2>2, <2>3 DEF CreateRoom, gameVars, TypeOK
<1>9. ASSUME NEW c \in Conns, NEW r \in Rooms, JoinRoom(c, r) PROVE TypeOK'
  <2>1. room[r] \in Room /\ r \in live
    BY <1>9, RoomsExist DEF JoinRoom
  <2>2. room' \in [Rooms -> Room \cup {NoRoom}] /\ \A x \in live \cup todo : room'[x] # NoRoom
    <3>1. CASE JoinAsBlack(c, r)
      BY <3>1, <2>1, JoinBlackEffect, GamesAssumption DEF TypeOK
    <3>2. CASE JoinAsViewer(c, r)
      BY <3>2 DEF JoinAsViewer, TypeOK
    <3> QED
      BY <1>9, <3>1, <3>2 DEF JoinRoom
  <2>3. client' \in [Conns -> Client]
    BY <1>9, <2>1, JoinBlackEffect, JoinViewerEffect DEF JoinRoom, TypeOK
  <2>4. screen' \in [Conns -> Screens]
    BY <1>9 DEF JoinRoom, TypeOK, Screens
  <2> QED
    BY <1>9, <2>2, <2>3, <2>4 DEF JoinRoom, gameVars, TypeOK
<1>10. ASSUME NEW r \in Rooms, WindowEnds(r) PROVE TypeOK'
  <2>1. room[r] \in Room
    BY <1>10 DEF WindowEnds, TypeOK
  <2>2. room' \in [Rooms -> Room \cup {NoRoom}] /\ \A x \in live \cup todo : room'[x] # NoRoom
    BY <1>10, <2>1, GamesAssumption DEF WindowEnds, TypeOK, Room
  <2> QED
    BY <1>10, <2>2 DEF WindowEnds, gameVars, TypeOK
<1>11. CASE process_matchmaking
  BY <1>11, MatchmakingEffect DEF process_matchmaking, TypeOK, Steps
<1>12. CASE UpdateMatch
  <2>1. PICK over \in BOOLEAN : match' = [match EXCEPT !.over = over,
                                                     !.elo_updated = match.elo_updated \/ over]
    BY <1>12 DEF UpdateMatch
  <2>2. match' \in [serial : Nat, played : BOOLEAN, over : BOOLEAN, elo_updated : BOOLEAN]
    BY <2>1 DEF TypeOK
  <2>3. booked' \in [Games -> Nat]
    BY <1>12 DEF UpdateMatch, TypeOK
  <2> QED
    BY <1>12, <2>2, <2>3 DEF UpdateMatch, TypeOK, Steps
<1>13. CASE SnapshotRooms
  BY <1>13 DEF SnapshotRooms, TypeOK, Steps
<1>14. CASE UpdateRoom \/ Forfeit
  <2>1. Front \in Rooms /\ room[Front] \in Room
    BY <1>14, RoomsExist DEF UpdateRoom, Forfeit
  <2>2. PICK over \in BOOLEAN : room' = [room EXCEPT ![Front].over = over]
    BY <1>14 DEF UpdateRoom, Forfeit
  <2>3. room' \in [Rooms -> Room \cup {NoRoom}] /\ \A x \in live \cup todo : room'[x] # NoRoom
    BY <2>1, <2>2, GamesAssumption DEF TypeOK, Room
  <2> QED
    BY <1>14, <2>3 DEF UpdateRoom, Forfeit, TypeOK, Steps
<1>15. CASE Settle
  <2>1. Front \in Rooms /\ room[Front] \in Room
    BY <1>15, RoomsExist DEF Settle
  <2>2. room' = room \/ room' = MarkSettled(Front)
    BY <1>15 DEF Settle
  <2>3. room' \in [Rooms -> Room \cup {NoRoom}] /\ \A x \in live \cup todo : room'[x] # NoRoom
    <3>1. CASE room' = room
      BY <3>1 DEF TypeOK
    <3>2. CASE room' = MarkSettled(Front)
      <4>1. /\ MarkSettled(Front) \in [Rooms -> Room \cup {NoRoom}]
            /\ MarkSettled(Front)[Front] \in Room
            /\ \A x \in Rooms : x # Front => MarkSettled(Front)[x] = room[x]
        BY <2>1, SettledRoom, GamesAssumption DEF TypeOK
      <4> QED
        BY <2>1, <3>2, <4>1, GamesAssumption DEF TypeOK
    <3> QED
      BY <2>2, <3>1, <3>2
  <2>4. todo' \subseteq todo /\ gpc' \in Steps
    BY <1>15 DEF Settle, AfterRoom, Steps
  <2> QED
    BY <1>15, <2>3, <2>4 DEF Settle, TypeOK
<1>16. CASE Book
  <2>1. todo' \subseteq todo /\ gpc' \in Steps
    BY <1>16 DEF Book, AfterRoom, Steps, TypeOK
  <2>2. booked' \in [Games -> Nat]
    BY <1>16 DEF Book, TypeOK
  <2> QED
    BY <1>16, <2>1, <2>2 DEF Book, TypeOK
<1>17. CASE StartCountdown
  <2>1. closing \in Rooms /\ room[closing] \in Room
    BY <1>17, RoomsExist DEF StartCountdown
  <2>2. room' \in [Rooms -> Room \cup {NoRoom}] /\ \A x \in live \cup todo : room'[x] # NoRoom
    BY <1>17, <2>1, GamesAssumption DEF StartCountdown, TypeOK, Room
  <2> QED
    BY <1>17, <2>2 DEF StartCountdown, gameVars, TypeOK
<1>18. CASE CheckWindow
  <2>1. Front \in Rooms /\ room[Front] \in Room
    BY <1>18, RoomsExist DEF CheckWindow
  <2>2. room' = room \/ \E b \in BOOLEAN : room' = [room EXCEPT ![Front].early = b]
    BY <1>18, <2>1 DEF CheckWindow, Room
  <2>3. ASSUME NEW b \in BOOLEAN PROVE [room[Front] EXCEPT !.early = b] \in Room
    BY <2>1 DEF Room
  <2>4. room' \in [Rooms -> Room \cup {NoRoom}] /\ \A x \in live \cup todo : room'[x] # NoRoom
    BY <2>1, <2>2, <2>3, GamesAssumption DEF TypeOK
  <2> QED
    BY <1>18, <2>4 DEF CheckWindow, TypeOK, Steps
<1> QED
  BY <1>0, <1>1, <1>2, <1>3, <1>4, <1>5, <1>6, <1>7, <1>8, <1>9, <1>10, <1>11, <1>12, <1>13,
     <1>14, <1>15, <1>16, <1>17, <1>18 DEF Next, Handlers, GameThread


(* What no step undoes in a room that exists: it is settled, somebody has  *)
(* moved, a window has run out or was taken for it, WHITE has left.  A     *)
(* game ends when it has been played, by a forfeit, or without WHITE; a    *)
(* wait begins with on_close.                                              *)
Progress(r) ==
    /\ room'[r] \in Room
    /\ room[r].elo_updated => room'[r].elo_updated
    /\ room[r].played => room'[r].played
    /\ room[r].expired => room'[r].expired
    /\ room[r].early => room'[r].early
    /\ room'[r].is_disconnected => room[r].is_disconnected \/ closing' = r
    /\ room'[r].overdue => room[r].overdue \/ room'[r].expired
    /\ room[r].seat["WHITE"] = NoConn => room'[r].seat["WHITE"] = NoConn
    /\ room'[r].over => \/ room[r].over \/ room[r].played
                        \/ gpc = "forfeit" /\ r = Front
                        \/ room'[r].seat["WHITE"] = NoConn

(* A step keeps a room in progress; a room that it creates is a new game.  *)
StepOf(r) ==
    /\ room[r] # NoRoom => Progress(r)
    /\ room[r] = NoRoom =>
          \/ room'[r] = NoRoom
          \/ room'[r] \in Room /\ ~room'[r].over /\ ~room'[r].is_disconnected

(* Every step is such a step of every room.                                *)
LEMMA RoomStep ==
    ASSUME TypeOK, AtARoom, [Next]_vars, NEW g \in Rooms
    PROVE  StepOf(g)
<1>a. room[g] # NoRoom => room[g] \in Room
  BY DEF TypeOK
<1>b. room \in [Rooms -> Room \cup {NoRoom}] /\ client \in [Conns -> Client]
      /\ screen \in [Conns -> Screens]
  BY DEF TypeOK
<1>c. "WHITE" \in Seats /\ "BLACK" \in Seats
  BY DEF Seats
<1>0. ASSUME room'[g] = room[g] PROVE StepOf(g)
  BY <1>0, <1>a DEF Progress, StepOf
<1>1. CASE UNCHANGED room
  BY <1>0, <1>1
<1>2. ASSUME NEW c \in Conns, on_close(c) PROVE StepOf(g)
  <2>1. CASE g \in live /\ g = client[c].room
    <3>1. room'[g] = Abandon(g, c) /\ room[g] \in Room
      BY <1>2, <2>1, RoomsExist DEF on_close
    <3>2. room[g] # NoRoom
      BY <3>1, GamesAssumption
    <3>3. client[c] \in Client
      BY <1>b
    <3>4. BeginsToWait(g, c) => closing' = g
      BY <1>2, <2>1 DEF on_close
    <3>5. Progress(g)
      BY <3>1, <3>3, <3>4, <1>c, AbandonedRoom DEF Progress
    <3> QED
      BY <3>2, <3>5 DEF StepOf
  <2>2. CASE ~(g \in live /\ g = client[c].room)
    BY <1>2, <2>2, <1>0 DEF on_close
  <2> QED
    BY <2>1, <2>2 DEF StepOf
<1>3. ASSUME NEW c \in Conns, NEW x \in Waiting(UserOf[c]), Reconnect(c, UserOf[c], x) PROVE StepOf(g)
  <2>1. x \in Rooms /\ room[x] \in Room /\ UserOf[c] \in Users
    BY RoomsExist, UserAssumption DEF Waiting
  <2>2. CASE x = g
    <3>1. room[g] # NoRoom /\ NoConn # c
      BY <2>1, <2>2, GamesAssumption, NoneAssumption
    <3>2. Progress(g)
      <4>1. /\ room'[g] \in Room
            /\ \A s \in Seats : \/ room'[g].seat[s] = room[g].seat[s]
                                \/ room'[g].seat[s] = c /\ HeldBy(g, s, UserOf[c])
            /\ room'[g].played = room[g].played /\ room'[g].expired = room[g].expired
            /\ room'[g].early = room[g].early /\ ~room'[g].is_disconnected
            /\ room'[g].elo_updated = room[g].elo_updated
            /\ room'[g].over = room[g].over /\ room'[g].overdue = room[g].overdue
        BY <1>b, <1>3, <2>1, <2>2, ReconnectEffect
      <4>2. room[g].seat["WHITE"] = NoConn => room'[g].seat["WHITE"] = NoConn
        BY <1>c, <3>1, <4>1 DEF HeldBy
      <4> QED
        BY <4>1, <4>2 DEF Progress
    <3> QED
      BY <3>1, <3>2 DEF StepOf
  <2>3. CASE x # g
    <3>1. room'[g] = room[g]
      BY <1>b, <1>3, <2>1, <2>3, ReconnectEffect
    <3> QED
      BY <1>0, <3>1
  <2> QED
    BY <2>2, <2>3
<1>4. ASSUME NEW c \in Conns, PlayInRoom(c) PROVE StepOf(g)
  <2>1. client[c].room \in Rooms /\ room[client[c].room] \in Room
    BY <1>4, RoomsExist DEF PlayInRoom
  <2>2. CASE g = client[c].room
    <3>1. room'[g] = [room[g] EXCEPT !.played = TRUE]
      BY <1>b, <1>4, <2>1, <2>2 DEF PlayInRoom
    <3>2. Progress(g)
      BY <2>1, <2>2, <3>1 DEF Progress, Room
    <3> QED
      BY <2>1, <2>2, <3>2, GamesAssumption DEF StepOf
  <2>3. CASE g # client[c].room
    BY <1>0, <1>b, <1>4, <2>1, <2>3 DEF PlayInRoom
  <2> QED
    BY <2>2, <2>3
<1>5. ASSUME NEW c \in Conns, NEW n \in Names, CreateRoom(c, n) PROVE StepOf(g)
  <2>1. PICK x \in Rooms :
          /\ room[x] = NoRoom
          /\ room'[x] \in Room
          /\ ~room'[x].over /\ ~room'[x].is_disconnected
          /\ \A y \in Rooms : y # x => room'[y] = room[y]
    BY <1>b, <1>5, CreateEffect
  <2>2. CASE x = g
    BY <2>1, <2>2 DEF StepOf
  <2>3. CASE x # g
    BY <1>0, <2>1, <2>3
  <2> QED
    BY <2>2, <2>3
<1>6. ASSUME NEW c \in Conns, NEW x \in live, JoinAsBlack(c, x) PROVE StepOf(g)
  <2>1. x \in Rooms /\ room[x] \in Room
    BY RoomsExist
  <2>2. CASE x = g
    <3>1. Progress(g)
      BY <1>b, <1>c, <1>6, <2>1, <2>2, JoinBlackEffect DEF Progress, Seats
    <3> QED
      BY <2>1, <2>2, <3>1, GamesAssumption DEF StepOf
  <2>3. CASE x # g
    <3>1. room'[g] = room[g]
      BY <1>b, <1>6, <2>1, <2>3, JoinBlackEffect
    <3> QED
      BY <1>0, <3>1
  <2> QED
    BY <2>2, <2>3
<1>7. ASSUME NEW x \in Rooms, WindowEnds(x) PROVE StepOf(g)
  <2>1. room[x] \in Room
    BY <1>7, <1>b DEF WindowEnds
  <2>2. CASE x = g
    <3>1. room'[g] = [room[g] EXCEPT !.overdue = TRUE, !.expired = TRUE]
      BY <1>b, <1>7, <2>2 DEF WindowEnds
    <3>2. Progress(g)
      BY <2>1, <2>2, <3>1 DEF Progress, Room
    <3> QED
      BY <2>1, <2>2, <3>2, GamesAssumption DEF StepOf
  <2>3. CASE x # g
    BY <1>0, <1>b, <1>7, <2>3 DEF WindowEnds
  <2> QED
    BY <2>2, <2>3
<1>8. CASE UpdateRoom \/ Forfeit
  <2>1. Front \in Rooms /\ room[Front] \in Room
    BY <1>8, RoomsExist DEF UpdateRoom, Forfeit
  <2>2. PICK over \in BOOLEAN : /\ room' = [room EXCEPT ![Front].over = over]
                                /\ over => \/ room[Front].over \/ room[Front].played
                                           \/ gpc = "forfeit"
    BY <1>8 DEF UpdateRoom, Forfeit
  <2>3. CASE g = Front
    <3>1. room'[g] = [room[g] EXCEPT !.over = over]
      BY <1>b, <2>1, <2>2, <2>3
    <3>2. Progress(g)
      BY <2>1, <2>2, <2>3, <3>1 DEF Progress, Room
    <3> QED
      BY <2>1, <2>3, <3>2, GamesAssumption DEF StepOf
  <2>4. CASE g # Front
    BY <1>0, <1>b, <2>1, <2>2, <2>4
  <2> QED
    BY <2>3, <2>4
<1>9. CASE Settle
  <2>1. Front \in Rooms /\ room[Front] \in Room /\ room[Front] # NoRoom
    BY <1>9, RoomsExist, GamesAssumption DEF Settle
  <2>2. CASE room' = MarkSettled(Front)
    <3>1. CASE g = Front
      <4>1. room'[g] = [room[g] EXCEPT !.elo_updated = TRUE]
        BY <1>b, <2>1, <2>2, <3>1, SettledRoom
      <4>2. Progress(g)
        BY <2>1, <3>1, <4>1 DEF Progress, Room
      <4> QED
        BY <2>1, <3>1, <4>2 DEF StepOf
    <3>2. CASE g # Front
      BY <1>0, <1>b, <2>1, <2>2, <3>2, SettledRoom
    <3> QED
      BY <3>1, <3>2 DEF StepOf
  <2> QED
    BY <1>9, <1>1, <2>2 DEF Settle
<1>10. ASSUME NEW c \in Conns, Login(c) PROVE StepOf(g)
  BY <1>10, <1>1, <1>3 DEF Login
<1>11. ASSUME NEW c \in Conns, NEW x \in Rooms, JoinRoom(c, x) PROVE StepOf(g)
  BY <1>11, <1>1, <1>6 DEF JoinRoom, JoinAsViewer
<1>12. ASSUME NEW c \in Conns,
              on_open(c) \/ FindMatch(c) \/ CancelMatch(c) \/ OpenBoard(c) \/ PlayInMatch(c)
       PROVE  UNCHANGED room
  BY <1>12 DEF on_open, FindMatch, CancelMatch, OpenBoard, PlayInMatch
<1>13. ASSUME process_matchmaking \/ UpdateMatch \/ SnapshotRooms \/ Book \/ UNCHANGED vars
       PROVE  UNCHANGED room
  BY <1>13 DEF process_matchmaking, UpdateMatch, SnapshotRooms, Book, vars
<1>17. CASE StartCountdown
  <2>1. closing \in Rooms /\ room[closing] \in Room
    BY <1>17, RoomsExist DEF StartCountdown
  <2>2. CASE g = closing
    <3>1. room'[g] = [room[g] EXCEPT !.overdue = FALSE]
      BY <1>b, <1>17, <2>1, <2>2 DEF StartCountdown
    <3>2. Progress(g)
      BY <2>1, <2>2, <3>1 DEF Progress, Room
    <3> QED
      BY <2>1, <2>2, <3>2, GamesAssumption DEF StepOf
  <2>3. CASE g # closing
    BY <1>0, <1>b, <1>17, <2>1, <2>3 DEF StartCountdown
  <2> QED
    BY <2>2, <2>3
<1>18. CASE CheckWindow
  <2>1. Front \in Rooms /\ room[Front] \in Room
    BY <1>18, RoomsExist DEF CheckWindow
  <2>2. CASE g = Front /\ room' # room
    <3>1. PICK b \in BOOLEAN : /\ room'[g] = [room[g] EXCEPT !.early = b]
                               /\ room[g].early => b
      BY <1>b, <1>18, <2>1, <2>2 DEF CheckWindow, Room
    <3>2. Progress(g)
      BY <2>1, <2>2, <3>1 DEF Progress, Room
    <3> QED
      BY <2>1, <2>2, <3>2, GamesAssumption DEF StepOf
  <2>3. CASE g # Front
    BY <1>0, <1>b, <1>18, <2>1, <2>3 DEF CheckWindow
  <2> QED
    BY <1>1, <2>2, <2>3
<1>14. CASE Handlers
  BY <1>1, <1>2, <1>4, <1>5, <1>10, <1>11, <1>12, <1>14 DEF Handlers
<1>15. CASE GameThread
  BY <1>1, <1>8, <1>9, <1>13, <1>15, <1>18 DEF GameThread
<1>16. CASE UNCHANGED vars
  BY <1>1, <1>13, <1>16
<1> QED
  BY <1>7, <1>14, <1>15, <1>16, <1>17 DEF Next

(* While on_close is at work on a room, no step but its end touches        *)
(* closing, and that starts the countdown anew.                            *)
LEMMA ClosingStep ==
    ASSUME TypeOK, AtARoom, [Next]_vars
    PROVE  /\ closing # NoRoom =>
                 \/ closing' = closing
                 \/ closing' = NoRoom /\ ~room'[closing].overdue
           /\ closing' # NoRoom => closing' = closing \/ closing' \in live
<1>1. ASSUME NEW c \in Conns,
             \/ on_open(c) \/ Login(c) \/ FindMatch(c) \/ CancelMatch(c)
             \/ OpenBoard(c) \/ PlayInRoom(c) \/ PlayInMatch(c)
      PROVE  UNCHANGED closing
  BY <1>1 DEF on_open, Login, FindMatch, CancelMatch, OpenBoard, PlayInRoom, PlayInMatch
<1>2. ASSUME NEW c \in Conns, on_close(c)
      PROVE  closing = NoRoom /\ (closing' = NoRoom \/ closing' \in live)
  BY <1>2 DEF on_close
<1>3. ASSUME NEW c \in Conns, NEW n \in Names, CreateRoom(c, n) PROVE UNCHANGED closing
  BY <1>3 DEF CreateRoom
<1>4. ASSUME NEW c \in Conns, NEW r \in Rooms, JoinRoom(c, r) PROVE UNCHANGED closing
  BY <1>4 DEF JoinRoom
<1>5. ASSUME NEW r \in Rooms, WindowEnds(r) PROVE UNCHANGED closing
  BY <1>5 DEF WindowEnds
<1>6. CASE GameThread \/ UNCHANGED vars
  BY <1>6 DEF GameThread, process_matchmaking, UpdateMatch, SnapshotRooms, UpdateRoom,
              CheckWindow, Forfeit, Settle, Book, vars
<1>7. CASE StartCountdown
  <2>1. closing \in Rooms /\ room[closing] \in Room
    BY <1>7, RoomsExist DEF StartCountdown
  <2> QED
    BY <1>7, <2>1 DEF StartCountdown, TypeOK, Room
<1> QED
  BY <1>1, <1>2, <1>3, <1>4, <1>5, <1>6, <1>7 DEF Next, Handlers


(* A step outside the game thread: a handler, the clock, or none.          *)
Outside == Handlers \/ StartCountdown \/ (\E r \in Rooms : WindowEnds(r)) \/ UNCHANGED vars

(* Such a step leaves the game thread where it is, and the matches.        *)
LEMMA OutsideStep ==
    ASSUME TypeOK, Outside
    PROVE  /\ UNCHANGED << gpc, todo, booked, crashed >> /\ Front' = Front
           /\ match'.serial = match.serial /\ match'.elo_updated = match.elo_updated
<1>1. ASSUME NEW c \in Conns, PlayInMatch(c)
      PROVE  /\ UNCHANGED << gpc, todo, booked, crashed >>
             /\ match'.serial = match.serial /\ match'.elo_updated = match.elo_updated
  BY <1>1 DEF PlayInMatch, gameVars, TypeOK
<1>2. ASSUME NEW c \in Conns,
             \/ on_open(c) \/ on_close(c) \/ Login(c) \/ FindMatch(c) \/ CancelMatch(c)
             \/ OpenBoard(c) \/ PlayInRoom(c)
      PROVE  UNCHANGED << gpc, todo, booked, crashed, match >>
  BY <1>2 DEF on_open, on_close, Login, FindMatch, CancelMatch, OpenBoard, PlayInRoom, gameVars
<1>3. ASSUME NEW c \in Conns, NEW n \in Names, CreateRoom(c, n)
      PROVE  UNCHANGED << gpc, todo, booked, crashed, match >>
  BY <1>3 DEF CreateRoom, gameVars
<1>4. ASSUME NEW c \in Conns, NEW r \in Rooms, JoinRoom(c, r)
      PROVE  UNCHANGED << gpc, todo, booked, crashed, match >>
  BY <1>4 DEF JoinRoom, gameVars
<1>5. ASSUME NEW r \in Rooms, WindowEnds(r)
      PROVE  UNCHANGED << gpc, todo, booked, crashed, match >>
  BY <1>5 DEF WindowEnds, gameVars
<1>6. CASE UNCHANGED vars
  BY <1>6, FrontOfTodo DEF vars
<1>7. CASE Handlers
  BY <1>1, <1>2, <1>3, <1>4, <1>7, FrontOfTodo DEF Handlers
<1>8. CASE \E r \in Rooms : WindowEnds(r)
  BY <1>5, <1>8, FrontOfTodo
<1>9. CASE StartCountdown
  BY <1>9, FrontOfTodo DEF StartCountdown, gameVars
<1> QED
  BY <1>6, <1>7, <1>8, <1>9 DEF Outside

(* Every step is one of the game thread or outside it.                     *)
LEMMA StepKinds ==
    ASSUME [Next]_vars
    PROVE  \/ Outside \/ process_matchmaking \/ UpdateMatch \/ SnapshotRooms
           \/ UpdateRoom \/ CheckWindow \/ Forfeit \/ Settle \/ Book
BY DEF Next, GameThread, Outside

(* AtARoom holds after every step.                                         *)
LEMMA AtARoomStep ==
    ASSUME TypeOK, AtARoom, [Next]_vars
    PROVE  AtARoom'
<1> DEFINE Works == gpc \in {"rooms", "window", "forfeit", "settle", "book"} => todo # {}
<1>0. Works
  BY DEF AtARoom
<1>1. ASSUME Outside PROVE Works'
  BY <1>0, <1>1, OutsideStep
<1>2. ASSUME process_matchmaking \/ UpdateMatch \/ SnapshotRooms PROVE Works'
  BY <1>2 DEF process_matchmaking, UpdateMatch, SnapshotRooms
<1>3. ASSUME UpdateRoom \/ CheckWindow \/ Forfeit PROVE Works'
  BY <1>0, <1>3 DEF UpdateRoom, CheckWindow, Forfeit
<1>4. ASSUME Settle \/ Book PROVE Works'
  BY <1>0, <1>4 DEF Settle, Book, AfterRoom
<1>5. Works'
  BY <1>1, <1>2, <1>3, <1>4, StepKinds
<1>6. closing' # NoRoom => room'[closing'] # NoRoom
  <2> SUFFICES ASSUME closing' # NoRoom PROVE room'[closing'] # NoRoom
    OBVIOUS
  <2>1. closing' \in Rooms /\ room[closing'] # NoRoom
    BY ClosingStep DEF TypeOK, AtARoom
  <2> QED
    BY <2>1, RoomStep, GamesAssumption DEF StepOf, Progress
<1> QED
  BY <1>5, <1>6 DEF AtARoom

(* Matches are numbered and booked in order.                               *)
LEMMA MatchesStep ==
    ASSUME TypeOK, AtARoom, MatchesBookedOnce, [Next]_vars
    PROVE  MatchesBookedOnce'
<1>a. match.serial \in Nat /\ match.serial \in 0 .. MaxMatches /\ match.serial \in Games
  BY BoundAssumption DEF TypeOK, MatchesBookedOnce, Games
<1>b. booked \in [Games -> Nat] /\ \A g \in 0 .. MaxMatches : g \in Games
  BY DEF TypeOK, Games
<1>1. CASE Outside
  BY <1>1, OutsideStep DEF MatchesBookedOnce
<1>2. CASE process_matchmaking
  <2>1. UNCHANGED booked
    BY <1>2 DEF process_matchmaking
  <2>2. CASE match' = match
    BY <2>1, <2>2 DEF MatchesBookedOnce
  <2>3. CASE match'.serial > match.serial /\ match'.serial <= MaxMatches
    <3>1. match'.serial \in Nat /\ match'.serial \in 0 .. MaxMatches
      BY <1>2, <2>3, MatchmakingEffect, BoundAssumption
    <3>2. booked[match'.serial] = 0
      BY <2>3, <3>1 DEF MatchesBookedOnce
    <3>3. \A g \in 0 .. MaxMatches : g > match'.serial => g > match.serial
      BY <1>a, <2>3, <3>1
    <3> QED
      BY <2>1, <2>3, <3>2, <3>3 DEF MatchesBookedOnce
  <2> QED
    BY <1>2, <2>2, <2>3, MatchmakingEffect
<1>3. CASE UpdateMatch
  <2>1. PICK over \in BOOLEAN :
          /\ match' = [match EXCEPT !.over = over, !.elo_updated = match.elo_updated \/ over]
          /\ IF over /\ ~match.elo_updated /\ \A s \in Seats : MatchPlayer(s) # NoConn
             THEN booked' = [booked EXCEPT ![match.serial] = @ + 1]
             ELSE UNCHANGED booked
    BY <1>3 DEF UpdateMatch
  <2>2. match'.serial = match.serial /\ match'.elo_updated = (match.elo_updated \/ over)
    BY <2>1 DEF TypeOK
  <2>3. CASE UNCHANGED booked
    BY <2>2, <2>3 DEF MatchesBookedOnce
  <2>4. CASE over /\ ~match.elo_updated /\ booked' = [booked EXCEPT ![match.serial] = @ + 1]
    <3>1. booked[match.serial] = 0 /\ match'.elo_updated
      <4>1. booked[match.serial] \in Nat
        BY <1>a, <1>b
      <4>2. ~(booked[match.serial] > 0)
        BY <2>4 DEF MatchesBookedOnce
      <4>3. match'.elo_updated
        BY <2>2, <2>4, Zenon
      <4> QED
        BY <4>1, <4>2, <4>3
    <3>2. booked'[match.serial] = 1 /\ \A g \in Games : g # match.serial => booked'[g] = booked[g]
      BY <1>a, <1>b, <2>4, <3>1
    <3> QED
      BY <1>a, <1>b, <2>2, <3>1, <3>2 DEF MatchesBookedOnce
  <2> QED
    BY <2>1, <2>3, <2>4
<1>4. CASE SnapshotRooms \/ UpdateRoom \/ CheckWindow \/ Forfeit \/ Settle
  <2>1. UNCHANGED << match, booked >>
    BY <1>4 DEF SnapshotRooms, UpdateRoom, CheckWindow, Forfeit, Settle
  <2> QED
    BY <2>1 DEF MatchesBookedOnce
<1>5. CASE Book
  <2>1. Front \in Rooms /\ Front \notin 0 .. MaxMatches
    BY <1>5, RoomsExist, GamesAssumption DEF Book
  <2>2. UNCHANGED match /\ \A g \in 0 .. MaxMatches : booked'[g] = booked[g]
    BY <1>5, <1>b, <2>1 DEF Book
  <2> QED
    BY <1>a, <2>2 DEF MatchesBookedOnce
<1> QED
  BY <1>1, <1>2, <1>3, <1>4, <1>5, StepKinds


(* A room is booked once, and only after it has been settled.              *)
LEMMA RoomsStep ==
    ASSUME TypeOK, AtARoom, RoomsBookedOnce, MatchesBookedOnce, [Next]_vars
    PROVE  RoomsBookedOnce'
<1>a. \A r \in Rooms : booked[r] \in Nat
  BY DEF TypeOK, Games
<1>b. \A r \in Rooms : (room[r] # NoRoom /\ room[r].elo_updated) =>
                           (room'[r] # NoRoom /\ room'[r].elo_updated)
  BY RoomStep, GamesAssumption DEF StepOf, Progress
<1>c. gpc \in {"rooms", "window", "forfeit", "settle", "book"} => Front \in Rooms /\ room[Front] # NoRoom
  BY RoomsExist, GamesAssumption
<1>0. ASSUME \A r \in Rooms : booked'[r] = booked[r]
      PROVE  \A r \in Rooms : /\ booked'[r] <= 1
                              /\ booked'[r] > 0 => room'[r] # NoRoom /\ room'[r].elo_updated
  BY <1>0, <1>b DEF RoomsBookedOnce
<1>1. CASE Outside
  <2>1. UNCHANGED << gpc, booked >> /\ Front' = Front
    BY <1>1, OutsideStep
  <2>2. gpc' = "book" => room'[Front'].elo_updated /\ booked'[Front'] = 0
    BY <1>b, <1>c, <2>1 DEF RoomsBookedOnce
  <2> QED
    BY <1>0, <2>1, <2>2 DEF RoomsBookedOnce
<1>2. CASE process_matchmaking \/ UpdateMatch \/ SnapshotRooms \/ UpdateRoom \/ CheckWindow \/ Forfeit
  <2>1. gpc' # "book"
    BY <1>2 DEF process_matchmaking, UpdateMatch, SnapshotRooms, UpdateRoom, CheckWindow, Forfeit
  <2>2. \A r \in Rooms : booked'[r] = booked[r]
    <3>1. \A r \in Rooms : r # match.serial
      BY GamesAssumption, BoundAssumption DEF TypeOK, MatchesBookedOnce
    <3> QED
      BY <1>2, <3>1
      DEF process_matchmaking, UpdateMatch, SnapshotRooms, UpdateRoom, CheckWindow, Forfeit,
          TypeOK, Games
  <2> QED
    BY <1>0, <2>1, <2>2 DEF RoomsBookedOnce
<1>3. CASE Settle
  <2>1. UNCHANGED booked
    BY <1>3 DEF Settle
  <2>2. ASSUME gpc' = "book" PROVE room'[Front'].elo_updated /\ booked'[Front'] = 0
    <3>1. room' = MarkSettled(Front) /\ ~room[Front].elo_updated /\ todo' = todo
      BY <1>3, <2>2 DEF Settle, AfterRoom
    <3>2. Front' = Front /\ Front \in Rooms /\ room[Front] # NoRoom
      BY <1>3, <1>c, <3>1, FrontOfTodo DEF Settle
    <3>3. booked[Front] = 0
      BY <1>a, <3>1, <3>2 DEF RoomsBookedOnce
    <3>4. room'[Front].elo_updated
      BY <3>1, <3>2, SettledRoom DEF TypeOK, Room
    <3> QED
      BY <2>1, <3>2, <3>3, <3>4
  <2> QED
    BY <1>0, <2>1, <2>2 DEF RoomsBookedOnce
<1>4. CASE Book
  <2>1. Front \in Rooms /\ room[Front] # NoRoom /\ room[Front].elo_updated /\ booked[Front] = 0
    BY <1>4, <1>c DEF Book, RoomsBookedOnce
  <2>2. UNCHANGED room
    BY <1>4 DEF Book
  <2>3. CASE crashed' = TRUE /\ UNCHANGED << booked, todo, gpc >>
    <3>1. Front' = Front
      BY <2>3, FrontOfTodo
    <3> QED
      BY <2>2, <2>3, <3>1 DEF RoomsBookedOnce
  <2>4. CASE booked' = [booked EXCEPT ![Front] = @ + 1] /\ AfterRoom
    <3>1. gpc' # "book"
      BY <2>4 DEF AfterRoom
    <3>2. booked'[Front] = 1 /\ \A r \in Rooms : r # Front => booked'[r] = booked[r]
      BY <2>1, <2>4 DEF TypeOK, Games
    <3>3. ASSUME NEW r \in Rooms
          PROVE  booked'[r] <= 1 /\ (booked'[r] > 0 => room'[r] # NoRoom /\ room'[r].elo_updated)
      <4>1. CASE r = Front
        BY <2>1, <2>2, <3>2, <4>1
      <4>2. CASE r # Front
        BY <2>2, <3>2, <4>2 DEF RoomsBookedOnce
      <4> QED
        BY <4>1, <4>2
    <3> QED
      BY <3>1, <3>3 DEF RoomsBookedOnce
  <2> QED
    BY <1>4, <2>3, <2>4 DEF Book
<1> QED
  BY <1>1, <1>2, <1>3, <1>4, StepKinds

(* Ends stay earned, and so do the results booked for them.                *)
LEMMA EarnedStep ==
    ASSUME TypeOK, AtARoom, EndsAreEarned, RoomResultsAreEarned, RoomsBookedOnce,
           MatchesBookedOnce, [Next]_vars
    PROVE  EndsAreEarned' /\ RoomResultsAreEarned'
<1>a. \A r \in Rooms : room[r] # NoRoom => room'[r] # NoRoom /\ Progress(r)
  BY RoomStep, GamesAssumption DEF StepOf, Progress
<1>b. \A r \in Rooms : (room[r] # NoRoom /\ (room[r].played \/ room[r].expired \/ room[r].early)) =>
                           (room'[r].played \/ room'[r].expired \/ room'[r].early)
  BY <1>a DEF Progress
<1>c. gpc \in {"rooms", "window", "forfeit", "settle", "book"} => Front \in Rooms /\ room[Front] # NoRoom
  BY RoomsExist, GamesAssumption
<1>d. gpc' = "window" => Front' = Front /\ (gpc = "window" \/ (UpdateRoom /\ room[Front].is_disconnected))
  <2>1. CASE Outside
    BY <2>1, OutsideStep
  <2>2. CASE UpdateRoom
    BY <2>2, FrontOfTodo DEF UpdateRoom
  <2>3. CASE process_matchmaking \/ UpdateMatch \/ SnapshotRooms \/ CheckWindow \/ Forfeit \/ Settle \/ Book
    BY <2>3
    DEF process_matchmaking, UpdateMatch, SnapshotRooms, CheckWindow, Forfeit, Settle, Book, AfterRoom
  <2> QED
    BY <2>1, <2>2, <2>3, StepKinds
<1>1. ASSUME NEW r \in Rooms, room'[r] # NoRoom
      PROVE  /\ /\ room'[r].is_disconnected \/ (gpc' = "window" /\ r = Front')
                /\ room'[r].overdue
                => room'[r].expired \/ closing' = r
             /\ room'[r].over => \/ room'[r].played \/ room'[r].expired \/ room'[r].early
                                 \/ room'[r].seat["WHITE"] = NoConn
  <2>1. CASE room[r] = NoRoom
    <3>1. ~room'[r].over /\ ~room'[r].is_disconnected
      BY <1>1, <2>1, RoomStep DEF StepOf
    <3>2. ~(gpc' = "window" /\ r = Front')
      BY <1>c, <1>d, <2>1 DEF UpdateRoom
    <3> QED
      BY <3>1, <3>2
  <2>2. CASE room[r] # NoRoom
    <3>1. Progress(r)
      BY <1>a, <2>2
    <3>2. ASSUME room'[r].is_disconnected \/ (gpc' = "window" /\ r = Front'), room'[r].overdue,
                 closing' # r, ~room'[r].expired
          PROVE  FALSE
      <4>1. room[r].overdue /\ ~room[r].expired
        BY <3>1, <3>2 DEF Progress
      <4>2. closing # r
        BY <3>2, ClosingStep, NoneAssumption
      <4>3. room[r].is_disconnected \/ (gpc = "window" /\ r = Front)
        BY <1>d, <3>1, <3>2 DEF Progress
      <4> QED
        BY <2>2, <4>1, <4>2, <4>3 DEF EndsAreEarned
    <3>3. ASSUME room'[r].over
          PROVE  \/ room'[r].played \/ room'[r].expired \/ room'[r].early
                 \/ room'[r].seat["WHITE"] = NoConn
      BY <2>2, <3>1, <3>3 DEF Progress, EndsAreEarned
    <3> QED
      BY <3>2, <3>3
  <2> QED
    BY <2>1, <2>2
<1>2. gpc' = "forfeit" => room'[Front'].expired \/ room'[Front'].early
  <2>1. CASE Outside
    BY <1>a, <1>c, <2>1, OutsideStep DEF EndsAreEarned, Progress
  <2>2. CASE CheckWindow
    <3> SUFFICES ASSUME gpc' = "forfeit" PROVE room'[Front].expired \/ room'[Front].early
      BY <2>2, FrontOfTodo DEF CheckWindow
    <3>1. /\ gpc = "window" /\ room[Front].overdue
          /\ room' = [room EXCEPT ![Front].early = room[Front].early \/ closing = Front]
      BY <2>2 DEF CheckWindow
    <3>2. Front \in Rooms /\ room[Front] \in Room /\ room[Front] # NoRoom
      BY <3>1, RoomsExist, GamesAssumption
    <3>3. room[Front].expired \/ closing = Front
      BY <3>1, <3>2 DEF EndsAreEarned
    <3>4. closing = Front => room'[Front].early
      BY <3>1, <3>2 DEF TypeOK, Room
    <3> QED
      BY <1>a, <3>2, <3>3, <3>4 DEF Progress
  <2>3. CASE \/ process_matchmaking \/ UpdateMatch \/ SnapshotRooms \/ UpdateRoom
             \/ Forfeit \/ Settle \/ Book
    <3>1. gpc' # "forfeit"
      BY <2>3 DEF process_matchmaking, UpdateMatch, SnapshotRooms, UpdateRoom, Forfeit, Settle, Book,
                  AfterRoom
    <3> QED
      BY <3>1
  <2> QED
    BY <2>1, <2>2, <2>3, StepKinds
<1>3. gpc' = "book" => room'[Front'].played \/ room'[Front'].expired \/ room'[Front'].early
  <2>1. CASE Outside
    BY <1>b, <1>c, <2>1, OutsideStep DEF EndsAreEarned
  <2>2. CASE Settle
    <3>1. ASSUME gpc' = "book"
          PROVE  /\ todo' = todo /\ room[Front].over
                 /\ room[Front].seat["WHITE"] # NoConn
      BY <2>2, <3>1 DEF Settle, AfterRoom, Seats
    <3> QED
      BY <1>b, <1>c, <2>2, <3>1, FrontOfTodo DEF EndsAreEarned, Settle
  <2>3. CASE Book
    <3>1. gpc' = "book" => todo' = todo /\ gpc = "book"
      BY <2>3 DEF Book, AfterRoom
    <3> QED
      BY <1>b, <1>c, <3>1, FrontOfTodo DEF EndsAreEarned
  <2>4. CASE process_matchmaking \/ UpdateMatch \/ SnapshotRooms \/ UpdateRoom \/ CheckWindow \/ Forfeit
    <3>1. gpc' # "book"
      BY <2>4 DEF process_matchmaking, UpdateMatch, SnapshotRooms, UpdateRoom, CheckWindow, Forfeit
    <3> QED
      BY <3>1
  <2> QED
    BY <2>1, <2>2, <2>3, <2>4, StepKinds
<1>4. RoomResultsAreEarned'
  <2> SUFFICES ASSUME NEW r \in Rooms, booked'[r] > 0
               PROVE  room'[r].played \/ room'[r].expired \/ room'[r].early
    BY DEF RoomResultsAreEarned
  <2>1. CASE booked[r] > 0
    BY <1>b, <2>1 DEF RoomResultsAreEarned, RoomsBookedOnce
  <2>2. CASE ~(booked[r] > 0)
    <3>1. booked'[r] # booked[r]
      BY <2>2
    <3>2. r # match.serial
      BY GamesAssumption, BoundAssumption DEF TypeOK, MatchesBookedOnce
    <3>3. Book /\ r = Front
      <4>1. CASE Outside
        BY <3>1, <4>1, OutsideStep
      <4>2. CASE \/ process_matchmaking \/ UpdateMatch \/ SnapshotRooms
                 \/ UpdateRoom \/ CheckWindow \/ Forfeit \/ Settle
        BY <3>1, <3>2, <4>2
        DEF process_matchmaking, UpdateMatch, SnapshotRooms, UpdateRoom, CheckWindow, Forfeit, Settle,
            TypeOK, Games
      <4>3. CASE Book
        BY <1>c, <3>1, <4>3 DEF Book, TypeOK, Games
      <4> QED
        BY <4>1, <4>2, <4>3, StepKinds
    <3> QED
      BY <1>b, <1>c, <3>3 DEF Book, EndsAreEarned
  <2> QED
    BY <2>1, <2>2
<1> QED
  BY <1>1, <1>2, <1>3, <1>4 DEF EndsAreEarned


(* Only on_open and on_close change m_clients or take a screen from off or *)
(* to gone.                                                                *)
LEMMA ScreenStep ==
    ASSUME TypeOK, [Next]_vars
    PROVE  \/ \E c \in Conns : on_open(c) \/ on_close(c)
           \/ /\ UNCHANGED m_clients
              /\ \A c \in Conns :
                    \/ screen'[c] = screen[c]
                    \/ screen[c] \notin {"off", "gone"} /\ screen'[c] \in {"menu", "told", "game"}
<1>0. screen \in [Conns -> Screens]
  BY DEF TypeOK
<1> DEFINE Same == /\ UNCHANGED m_clients
                   /\ \A c \in Conns :
                        \/ screen'[c] = screen[c]
                        \/ screen[c] \notin {"off", "gone"} /\ screen'[c] \in {"menu", "told", "game"}
<1>1. ASSUME NEW c \in Conns, Login(c) PROVE Same
  BY <1>0, <1>1 DEF Login, Reconnect
<1>2. ASSUME NEW c \in Conns,
             FindMatch(c) \/ CancelMatch(c) \/ OpenBoard(c) \/ PlayInRoom(c) \/ PlayInMatch(c)
      PROVE  Same
  BY <1>0, <1>2 DEF FindMatch, CancelMatch, OpenBoard, PlayInRoom, PlayInMatch
<1>3. ASSUME NEW c \in Conns, NEW n \in Names, CreateRoom(c, n) PROVE Same
  BY <1>0, <1>3 DEF CreateRoom, InMenu
<1>4. ASSUME NEW c \in Conns, NEW r \in Rooms, JoinRoom(c, r) PROVE Same
  BY <1>0, <1>4 DEF JoinRoom, InMenu
<1>5. ASSUME NEW r \in Rooms, WindowEnds(r) PROVE Same
  BY <1>5 DEF WindowEnds
<1>6. CASE process_matchmaking
  BY <1>6, MatchmakingEffect DEF process_matchmaking
<1>7. CASE \/ UpdateMatch \/ SnapshotRooms \/ UpdateRoom \/ CheckWindow \/ Forfeit \/ Settle \/ Book
           \/ StartCountdown \/ UNCHANGED vars
  BY <1>7 DEF UpdateMatch, SnapshotRooms, UpdateRoom, CheckWindow, Forfeit, Settle, Book,
              StartCountdown, vars
<1> QED
  BY <1>1, <1>2, <1>3, <1>4, <1>5, <1>6, <1>7 DEF Next, Handlers, GameThread

(* Registered holds after every step.                                      *)
LEMMA RegisteredStep ==
    ASSUME TypeOK, Registered, [Next]_vars
    PROVE  Registered'
<1>a. /\ m_clients \in Seq(Conns) /\ Len(m_clients) \in Nat
      /\ \A k \in 1 .. Len(m_clients) : m_clients[k] \in Conns
      /\ screen \in [Conns -> Screens]
  BY LenProperties DEF TypeOK
<1>1. ASSUME NEW c \in Conns, on_open(c) PROVE Registered'
  <2>1. /\ Len(m_clients') = Len(m_clients) + 1
        /\ \A i \in 1 .. Len(m_clients) : m_clients'[i] = m_clients[i]
        /\ m_clients'[Len(m_clients) + 1] = c
    BY <1>1, <1>a, AppendProperties DEF on_open
  <2>2. /\ screen'[c] = "login" /\ \A d \in Conns : d # c => screen'[d] = screen[d]
        /\ \A i \in 1 .. Len(m_clients) : m_clients[i] # c
    BY <1>1, <1>a DEF on_open, Registered
  <2>3. \A i \in 1 .. Len(m_clients) + 1 : i \in 1 .. Len(m_clients) \/ i = Len(m_clients) + 1
    BY <1>a
  <2>4. \A i, k \in 1 .. Len(m_clients') : m_clients'[i] = m_clients'[k] => i = k
    BY <2>1, <2>2, <2>3 DEF Registered
  <2>5. \A i \in 1 .. Len(m_clients') : screen'[m_clients'[i]] \notin {"off", "gone"}
    BY <1>a, <2>1, <2>2, <2>3 DEF Registered
  <2> QED
    BY <2>4, <2>5 DEF Registered
<1>2. ASSUME NEW c \in Conns, on_close(c) PROVE Registered'
  <2>1. PICK i \in 1 .. Len(m_clients) :
          /\ m_clients[i] = c
          /\ m_clients' = erase(m_clients, i)
    BY <1>2 DEF on_close
  <2>2. \A j, k \in 1 .. Len(m_clients) : m_clients[j] = m_clients[k] => j = k
    BY DEF Registered
  <2>3. /\ \A j, k \in 1 .. Len(m_clients') : m_clients'[j] = m_clients'[k] => j = k
        /\ \A k \in 1 .. Len(m_clients') : /\ m_clients'[k] # c
                                           /\ \E j \in 1 .. Len(m_clients) : m_clients'[k] = m_clients[j]
    <3>1. m_clients \in Seq(Conns) /\ i \in 1 .. Len(m_clients)
      BY <1>a
    <3>2. /\ \A j, k \in 1 .. Len(erase(m_clients, i)) :
                erase(m_clients, i)[j] = erase(m_clients, i)[k] => j = k
          /\ \A k \in 1 .. Len(erase(m_clients, i)) :
                /\ erase(m_clients, i)[k] # m_clients[i]
                /\ \E j \in 1 .. Len(m_clients) : erase(m_clients, i)[k] = m_clients[j]
      BY ONLY <2>2, <3>1, Erased
    <3>3. m_clients' = erase(m_clients, i) /\ m_clients[i] = c
      BY <2>1
    <3> QED
      BY ONLY <3>2, <3>3
  <2>4. \A d \in Conns : d # c => screen'[d] = screen[d]
    BY <1>a, <1>2 DEF on_close
  <2>5. \A k \in 1 .. Len(m_clients') : screen'[m_clients'[k]] \notin {"off", "gone"}
    BY <1>a, <2>3, <2>4 DEF Registered
  <2> QED
    BY <2>3, <2>5 DEF Registered
<1>3. CASE /\ UNCHANGED m_clients
           /\ \A c \in Conns :
                    \/ screen'[c] = screen[c]
                    \/ screen[c] \notin {"off", "gone"} /\ screen'[c] \in {"menu", "told", "game"}
  BY <1>3, <1>a DEF Registered
<1> QED
  BY <1>1, <1>2, <1>3, ScreenStep

(* SeatsAreAccountedFor holds after a step that moves nobody.              *)
LEMMA NobodyMoves ==
    ASSUME TypeOK, SeatsAreAccountedFor,
           \A c \in Conns : /\ client'[c].room = client[c].room
                            /\ client'[c].is_viewer = client[c].is_viewer
                            /\ client'[c].user # client[c].user =>
                                  client[c].room = NoRoom /\ screen[c] # "gone"
                            /\ screen'[c] = "gone" <=> screen[c] = "gone"
                            /\ screen'[c] \in {"off", "login"} => screen[c] \in {"off", "login"},
           \A r \in Rooms : /\ room'[r] = NoRoom <=> room[r] = NoRoom
                            /\ room[r] # NoRoom =>
                                  /\ room'[r].seat = room[r].seat
                                  /\ room'[r].is_disconnected = room[r].is_disconnected
                                  /\ room'[r].disconnected = room[r].disconnected
    PROVE  SeatsAreAccountedFor'
<1>a. \A c \in Conns : client[c].room \in Rooms \cup {NoRoom}
  BY DEF TypeOK, Client
<1>1. \A r, u : Left(r, u) /\ r # NoRoom =>
         \E d \in Conns : screen'[d] = "gone" /\ client'[d].user = u /\ client'[d].room = r
  BY DEF Left
<1>2. \A c \in Conns : screen'[c] \in {"off", "login"} => client'[c].room = NoRoom
  BY DEF SeatsAreAccountedFor
<1>3. \A c \in Conns : client'[c].room # NoRoom => room'[client'[c].room] # NoRoom
  BY <1>a DEF SeatsAreAccountedFor
<1>4. \A r \in Rooms : (room'[r] # NoRoom /\ room'[r].is_disconnected) =>
          \E d \in Conns : /\ screen'[d] = "gone" /\ client'[d].user = room'[r].disconnected
                           /\ client'[d].room = r
  BY <1>1, NoneAssumption DEF SeatsAreAccountedFor
<1>5. ASSUME NEW c \in Conns, screen'[c] # "gone", client'[c].room # NoRoom, ~client'[c].is_viewer
      PROVE  \/ \E s \in Seats : room'[client'[c].room].seat[s] = c
             \/ \E d \in Conns : /\ screen'[d] = "gone" /\ client'[d].user = client'[c].user
                                 /\ client'[d].room = client'[c].room
  <2>1. /\ client[c].room \in Rooms /\ client'[c].room = client[c].room
        /\ client'[c].user = client[c].user /\ room[client[c].room] # NoRoom
    BY <1>a, <1>5 DEF SeatsAreAccountedFor
  <2>2. \/ \E s \in Seats : room[client[c].room].seat[s] = c
        \/ Left(client[c].room, client[c].user)
    BY <1>5, <2>1 DEF SeatsAreAccountedFor
  <2>3. room'[client[c].room].seat = room[client[c].room].seat
    BY <2>1
  <2> QED
    BY <1>1, <1>5, <2>1, <2>2, <2>3
<1> QED
  BY <1>2, <1>3, <1>4, <1>5 DEF SeatsAreAccountedFor, Left

(* It holds after a step that takes client c into room r if that gives c a *)
(* seat, a viewer's mark or a former self there, and takes no seat from    *)
(* anybody who has no former self.                                         *)
LEMMA OneMoves ==
    ASSUME TypeOK, SeatsAreAccountedFor, NEW c \in Conns, NEW r \in Rooms,
           screen[c] # "gone", screen' = [screen EXCEPT ![c] = "told"],
           \A d \in Conns : d # c => client'[d] = client[d],
           client'[c].room = r, room'[r] # NoRoom,
           \A x \in Rooms : room[x] # NoRoom =>
               /\ room'[x] # NoRoom
               /\ room'[x].is_disconnected =>
                     room[x].is_disconnected /\ room'[x].disconnected = room[x].disconnected,
           \A x \in Rooms : room[x] = NoRoom => room'[x] = NoRoom \/ ~room'[x].is_disconnected,
           \A x \in Rooms, s \in Seats, d \in Conns \ {c} :
               (room[x] # NoRoom /\ room[x].seat[s] = d) =>
                   room'[x].seat[s] = d \/ Left(x, client[d].user),
           \/ client'[c].is_viewer
           \/ \E s \in Seats : room'[r].seat[s] = c
           \/ Left(r, client'[c].user)
    PROVE  SeatsAreAccountedFor'
<1>a. /\ \A d \in Conns : client[d].room \in Rooms \cup {NoRoom}
      /\ screen \in [Conns -> Screens]
  BY DEF TypeOK, Client
<1>b. screen'[c] = "told" /\ \A d \in Conns : d # c => screen'[d] = screen[d]
  BY <1>a
<1>1. \A x, u : Left(x, u) =>
         \E d \in Conns : screen'[d] = "gone" /\ client'[d].user = u /\ client'[d].room = x
  BY <1>b DEF Left
<1>2. \A d \in Conns : screen'[d] \in {"off", "login"} => client'[d].room = NoRoom
  BY <1>b DEF SeatsAreAccountedFor
<1>3. \A d \in Conns : client'[d].room # NoRoom => room'[client'[d].room] # NoRoom
  BY <1>a DEF SeatsAreAccountedFor
<1>4. \A x \in Rooms : (room'[x] # NoRoom /\ room'[x].is_disconnected) =>
          \E d \in Conns : /\ screen'[d] = "gone" /\ client'[d].user = room'[x].disconnected
                           /\ client'[d].room = x
  BY <1>1 DEF SeatsAreAccountedFor
<1>5. ASSUME NEW d \in Conns, screen'[d] # "gone", client'[d].room # NoRoom, ~client'[d].is_viewer
      PROVE  \/ \E s \in Seats : room'[client'[d].room].seat[s] = d
             \/ \E e \in Conns : /\ screen'[e] = "gone" /\ client'[e].user = client'[d].user
                                 /\ client'[e].room = client'[d].room
  <2>1. CASE d = c
    BY <1>1, <1>5, <2>1
  <2>2. CASE d # c
    <3>1. /\ client'[d] = client[d] /\ screen[d] # "gone" /\ client[d].room \in Rooms
          /\ room[client[d].room] # NoRoom
      BY <1>a, <1>b, <1>5, <2>2 DEF SeatsAreAccountedFor
    <3>2. \/ \E s \in Seats : room[client[d].room].seat[s] = d
          \/ Left(client[d].room, client[d].user)
      BY <1>5, <3>1 DEF SeatsAreAccountedFor
    <3>3. \/ \E s \in Seats : room'[client[d].room].seat[s] = d
          \/ Left(client[d].room, client[d].user)
      BY <2>2, <3>1, <3>2
    <3> QED
      BY <1>1, <3>1, <3>3
  <2> QED
    BY <2>1, <2>2
<1> QED
  BY <1>2, <1>3, <1>4, <1>5 DEF SeatsAreAccountedFor, Left


(* SeatsAreAccountedFor holds after every step.                            *)
LEMMA SeatsStep ==
    ASSUME TypeOK, AtARoom, Registered, SeatsAreAccountedFor, [Next]_vars
    PROVE  SeatsAreAccountedFor'
<1>a. /\ room \in [Rooms -> Room \cup {NoRoom}] /\ client \in [Conns -> Client]
      /\ screen \in [Conns -> Screens] /\ \A c \in Conns : client[c] \in Client
  BY DEF TypeOK
<1>b. \A r \in Rooms : room[r] # NoRoom => room[r] \in Room
  BY <1>a
<1>s. "WHITE" \in Seats /\ "BLACK" \in Seats
  BY DEF Seats
<1>1. ASSUME NEW c \in Conns, on_open(c) PROVE SeatsAreAccountedFor'
  BY <1>1, <1>a, NobodyMoves DEF on_open
<1>2. ASSUME NEW c \in Conns, on_close(c) PROVE SeatsAreAccountedFor'
  <2>1. screen[c] # "gone" /\ screen'[c] = "gone"
        /\ \A d \in Conns : d # c => screen'[d] = screen[d] /\ client'[d] = client[d]
    BY <1>2, <1>a DEF on_close, Registered
  <2>2. client'[c].user = client[c].user /\ client'[c].room = client[c].room
    BY <1>2, <1>a DEF on_close, NewClient
  <2>3. \A x, u : Left(x, u) =>
            \E d \in Conns : screen'[d] = "gone" /\ client'[d].user = u /\ client'[d].room = x
    BY <2>1 DEF Left
  <2>4. ASSUME NEW r \in Rooms, r \in live /\ r = client[c].room
        PROVE  /\ room'[r] # NoRoom
               /\ \A s \in Seats : room[r].seat[s] # c => room'[r].seat[s] = room[r].seat[s]
               /\ room'[r].is_disconnected =>
                     \/ room'[r].disconnected = client[c].user
                     \/ room[r].is_disconnected /\ room'[r].disconnected = room[r].disconnected
    <3>1. room'[r] = Abandon(r, c) /\ room[r] \in Room
      BY <1>2, <2>4, RoomsExist DEF on_close
    <3> QED
      BY <1>a, <3>1, AbandonedRoom, GamesAssumption
  <2>5. ASSUME NEW r \in Rooms, ~(r \in live /\ r = client[c].room)
        PROVE  room'[r] = room[r]
    BY <1>2, <2>5 DEF on_close
  <2>6. \A d \in Conns : screen'[d] \in {"off", "login"} => client'[d].room = NoRoom
    BY <2>1 DEF SeatsAreAccountedFor
  <2>7. \A d \in Conns : client'[d].room = client[d].room /\ client[d].room \in Rooms \cup {NoRoom}
    BY <1>a, <2>1, <2>2 DEF Client
  <2>8. \A d \in Conns : client'[d].room # NoRoom => room'[client'[d].room] # NoRoom
    BY <2>4, <2>5, <2>7 DEF SeatsAreAccountedFor
  <2>9. ASSUME NEW r \in Rooms, room'[r] # NoRoom, room'[r].is_disconnected
        PROVE  \E d \in Conns : /\ screen'[d] = "gone" /\ client'[d].user = room'[r].disconnected
                                /\ client'[d].room = r
    <3>1. CASE r \in live /\ r = client[c].room
      <4>1. CASE room'[r].disconnected = client[c].user
        BY <2>1, <2>2, <3>1, <4>1
      <4>2. CASE room[r].is_disconnected /\ room'[r].disconnected = room[r].disconnected
        <5>1. room[r] # NoRoom
          BY <3>1 DEF TypeOK
        <5> QED
          BY <2>3, <4>2, <5>1 DEF SeatsAreAccountedFor
      <4> QED
        BY <2>4, <2>9, <3>1, <4>1, <4>2
    <3>2. CASE ~(r \in live /\ r = client[c].room)
      BY <2>3, <2>5, <2>9, <3>2 DEF SeatsAreAccountedFor
    <3> QED
      BY <3>1, <3>2
  <2>10. ASSUME NEW d \in Conns, screen'[d] # "gone", client'[d].room # NoRoom, ~client'[d].is_viewer
         PROVE  \/ \E s \in Seats : room'[client'[d].room].seat[s] = d
                \/ \E e \in Conns : /\ screen'[e] = "gone" /\ client'[e].user = client'[d].user
                                    /\ client'[e].room = client'[d].room
    <3>1. d # c /\ client'[d] = client[d] /\ screen[d] # "gone" /\ client[d].room \in Rooms
      BY <2>1, <2>7, <2>10
    <3>2. \/ \E s \in Seats : room[client[d].room].seat[s] = d
          \/ Left(client[d].room, client[d].user)
      BY <2>10, <3>1 DEF SeatsAreAccountedFor
    <3>3. ASSUME NEW s \in Seats, room[client[d].room].seat[s] = d
          PROVE  room'[client[d].room].seat[s] = d
      BY <2>4, <2>5, <3>1, <3>3
    <3> QED
      BY <2>3, <3>1, <3>2, <3>3
  <2> QED
    BY <2>6, <2>8, <2>9, <2>10 DEF SeatsAreAccountedFor, Left
<1>3. ASSUME NEW c \in Conns, Login(c) PROVE SeatsAreAccountedFor'
  <2>0. screen[c] = "login" /\ UserOf[c] \in Users
    BY <1>3, UserAssumption DEF Login
  <2>1. ASSUME client' = [client EXCEPT ![c].user = UserOf[c]],
               screen' = [screen EXCEPT ![c] = "menu"], UNCHANGED room
        PROVE  SeatsAreAccountedFor'
    <3>1. client[c].room = NoRoom
      BY <2>0 DEF SeatsAreAccountedFor
    <3>2. \A d \in Conns : /\ client'[d].room = client[d].room
                           /\ client'[d].is_viewer = client[d].is_viewer
                           /\ d # c => client'[d].user = client[d].user
      BY <1>a, <2>1 DEF Client
    <3>3. \A d \in Conns : /\ screen'[d] = "gone" <=> screen[d] = "gone"
                           /\ screen'[d] \in {"off", "login"} => screen[d] \in {"off", "login"}
      BY <1>a, <2>0, <2>1
    <3>4. \A d \in Conns : client'[d].user # client[d].user =>
                               client[d].room = NoRoom /\ screen[d] # "gone"
      BY <2>0, <3>1, <3>2
    <3> QED
      BY <2>1, <3>2, <3>3, <3>4, NobodyMoves
  <2>2. ASSUME NEW r \in Waiting(UserOf[c]), Reconnect(c, UserOf[c], r) PROVE SeatsAreAccountedFor'
    <3>1. r \in Rooms /\ r \in live /\ room[r] \in Room /\ room[r].is_disconnected
          /\ room[r].disconnected = UserOf[c] /\ room[r] # NoRoom
      BY RoomsExist, GamesAssumption DEF Waiting
    <3>2. Left(r, UserOf[c])
      BY <3>1 DEF SeatsAreAccountedFor
    <3>3. /\ room'[r] \in Room
          /\ \A x \in Rooms : x # r => room'[x] = room[x]
          /\ \A x \in Conns : x # c => client'[x] = client[x]
          /\ client'[c].user = UserOf[c] /\ client'[c].room = r
          /\ \A s \in Seats : \/ room'[r].seat[s] = room[r].seat[s]
                              \/ room'[r].seat[s] = c /\ HeldBy(r, s, UserOf[c])
          /\ ~room'[r].is_disconnected
          /\ screen' = [screen EXCEPT ![c] = "told"]
      BY <1>a, <2>0, <2>2, <3>1, ReconnectEffect
    <3>4. \A x \in Rooms : room[x] # NoRoom =>
               /\ room'[x] # NoRoom
               /\ room'[x].is_disconnected =>
                     room[x].is_disconnected /\ room'[x].disconnected = room[x].disconnected
      BY <3>3, GamesAssumption
    <3>5. \A x \in Rooms : room[x] = NoRoom => room'[x] = NoRoom \/ ~room'[x].is_disconnected
      BY <3>3
    <3>6. \A x \in Rooms, s \in Seats, d \in Conns \ {c} :
               (room[x] # NoRoom /\ room[x].seat[s] = d) =>
                   room'[x].seat[s] = d \/ Left(x, client[d].user)
      <4> SUFFICES ASSUME NEW x \in Rooms, NEW s \in Seats, NEW d \in Conns \ {c},
                          room[x] # NoRoom, room[x].seat[s] = d
                   PROVE  room'[x].seat[s] = d \/ Left(x, client[d].user)
        OBVIOUS
      <4>1. CASE x # r
        BY <3>3, <4>1
      <4>2. CASE x = r
        BY <3>2, <3>3, <4>2 DEF HeldBy
      <4> QED
        BY <4>1, <4>2
    <3>7. room'[r] # NoRoom /\ screen[c] # "gone" /\ Left(r, client'[c].user)
      BY <2>0, <3>2, <3>3, GamesAssumption
    <3> QED
      BY <3>1, <3>3, <3>4, <3>5, <3>6, <3>7, OneMoves
  <2> QED
    BY <1>3, <2>1, <2>2 DEF Login
<1>4. ASSUME NEW c \in Conns, FindMatch(c) \/ CancelMatch(c) PROVE SeatsAreAccountedFor'
  <2>1. PICK b : client' = [client EXCEPT ![c].is_searching = b]
    BY <1>4 DEF FindMatch, CancelMatch
  <2>2. \A d \in Conns : /\ client'[d].room = client[d].room
                         /\ client'[d].is_viewer = client[d].is_viewer
                         /\ client'[d].user = client[d].user
    BY <1>a, <2>1 DEF Client
  <2>3. UNCHANGED << screen, room >>
    BY <1>4 DEF FindMatch, CancelMatch
  <2> QED
    BY <2>2, <2>3, NobodyMoves
<1>5. ASSUME NEW c \in Conns, OpenBoard(c) PROVE SeatsAreAccountedFor'
  BY <1>5, <1>a, NobodyMoves DEF OpenBoard
<1>6. ASSUME NEW c \in Conns, NEW n \in Names, CreateRoom(c, n) PROVE SeatsAreAccountedFor'
  <2>1. PICK r \in Rooms :
              /\ room[r] = NoRoom
              /\ room'[r] \in Room /\ room'[r].seat["WHITE"] = c /\ ~room'[r].is_disconnected
              /\ \A x \in Rooms : x # r => room'[x] = room[x]
              /\ \A x \in Conns : x # c => client'[x] = client[x]
              /\ client'[c].room = r
    BY <1>a, <1>6, CreateEffect
  <2>2. screen[c] # "gone" /\ screen' = [screen EXCEPT ![c] = "told"]
    BY <1>6 DEF CreateRoom, InMenu
  <2>3. room'[r] # NoRoom
    BY <2>1, GamesAssumption
  <2>4. \A x \in Rooms : room[x] # NoRoom => room'[x] = room[x]
    BY <2>1
  <2>5. \A x \in Rooms : room[x] = NoRoom => room'[x] = NoRoom \/ ~room'[x].is_disconnected
    BY <2>1
  <2>6. \E s \in Seats : room'[r].seat[s] = c
    BY <1>s, <2>1
  <2> QED
    BY <2>1, <2>2, <2>3, <2>4, <2>5, <2>6, OneMoves
<1>7. ASSUME NEW c \in Conns, NEW r \in Rooms, JoinRoom(c, r) PROVE SeatsAreAccountedFor'
  <2>1. /\ screen[c] # "gone" /\ screen' = [screen EXCEPT ![c] = "told"]
        /\ room[r] \in Room /\ room[r] # NoRoom
    BY <1>7, RoomsExist, GamesAssumption DEF JoinRoom, InMenu
  <2>2. CASE JoinAsViewer(c, r)
    <3>1. /\ UNCHANGED room
          /\ \A x \in Conns : x # c => client'[x] = client[x]
          /\ client'[c].room = r /\ client'[c].is_viewer
      BY <1>a, <2>2, JoinViewerEffect
    <3> QED
      BY <2>1, <3>1, OneMoves
  <2>3. CASE JoinAsBlack(c, r)
    <3>1. /\ room'[r] \in Room
          /\ \A x \in Rooms : x # r => room'[x] = room[x]
          /\ \A x \in Conns : x # c => client'[x] = client[x]
          /\ client'[c].room = r
          /\ room[r].seat["BLACK"] = NoConn /\ room'[r].seat["BLACK"] = c
          /\ \A s \in Seats : s # "BLACK" => room'[r].seat[s] = room[r].seat[s]
          /\ room'[r].is_disconnected = room[r].is_disconnected
          /\ room'[r].disconnected = room[r].disconnected
      BY <1>a, <2>1, <2>3, JoinBlackEffect
    <3>2. room'[r] # NoRoom
      BY <3>1, GamesAssumption
    <3>3. \A x \in Rooms : room[x] # NoRoom =>
               /\ room'[x] # NoRoom
               /\ room'[x].is_disconnected =>
                     room[x].is_disconnected /\ room'[x].disconnected = room[x].disconnected
      BY <3>1, <3>2
    <3>4. \A x \in Rooms : room[x] = NoRoom => room'[x] = NoRoom \/ ~room'[x].is_disconnected
      BY <2>1, <3>1
    <3>5. \A x \in Rooms, s \in Seats, d \in Conns \ {c} :
               (room[x] # NoRoom /\ room[x].seat[s] = d) =>
                   room'[x].seat[s] = d \/ Left(x, client[d].user)
      BY <3>1, NoneAssumption
    <3>6. \E s \in Seats : room'[r].seat[s] = c
      BY <1>s, <3>1
    <3>7. client'[c].room = r /\ \A d \in Conns : d # c => client'[d] = client[d]
      BY <3>1
    <3>8. screen[c] # "gone" /\ screen' = [screen EXCEPT ![c] = "told"]
      BY <2>1
    <3> QED
      BY <3>2, <3>3, <3>4, <3>5, <3>6, <3>7, <3>8, OneMoves
  <2> QED
    BY <1>7, <2>2, <2>3 DEF JoinRoom
<1>8. CASE process_matchmaking
  <2>1. UNCHANGED room
    BY <1>8 DEF process_matchmaking
  <2>2. \A c \in Conns : /\ client'[c].room = client[c].room
                         /\ client'[c].is_viewer = client[c].is_viewer
                         /\ client'[c].user = client[c].user
                         /\ screen'[c] = "gone" <=> screen[c] = "gone"
                         /\ screen'[c] \in {"off", "login"} => screen[c] \in {"off", "login"}
    BY <1>8, MatchmakingEffect
  <2> QED
    BY <2>1, <2>2, NobodyMoves
<1>9. ASSUME UNCHANGED << client, screen >>,
             \A r \in Rooms : /\ room'[r] = NoRoom <=> room[r] = NoRoom
                              /\ room[r] # NoRoom =>
                                   /\ room'[r].seat = room[r].seat
                                   /\ room'[r].is_disconnected = room[r].is_disconnected
                                   /\ room'[r].disconnected = room[r].disconnected
      PROVE  SeatsAreAccountedFor'
  BY <1>9, NobodyMoves
<1>10. ASSUME UNCHANGED << client, screen >>, NEW r \in Rooms, room[r] \in Room,
              \/ room' = [room EXCEPT ![r].played = TRUE]
              \/ room' = [room EXCEPT ![r] = [@ EXCEPT !.overdue = TRUE, !.expired = TRUE]]
              \/ room' = [room EXCEPT ![r].elo_updated = TRUE]
              \/ room' = [room EXCEPT ![r].overdue = FALSE]
              \/ \E b \in BOOLEAN : room' = [room EXCEPT ![r].early = b]
              \/ \E over \in BOOLEAN : room' = [room EXCEPT ![r].over = over]
       PROVE  SeatsAreAccountedFor'
  <2>1. /\ room'[r] \in Room
        /\ room'[r].seat = room[r].seat
        /\ room'[r].is_disconnected = room[r].is_disconnected
        /\ room'[r].disconnected = room[r].disconnected
    <3>1. CASE room' = [room EXCEPT ![r].played = TRUE]
      BY <1>a, <1>10, <3>1 DEF Room
    <3>2. CASE room' = [room EXCEPT ![r] = [@ EXCEPT !.overdue = TRUE, !.expired = TRUE]]
      BY <1>a, <1>10, <3>2 DEF Room
    <3>3. CASE room' = [room EXCEPT ![r].elo_updated = TRUE]
      BY <1>a, <1>10, <3>3 DEF Room
    <3>4. ASSUME NEW over \in BOOLEAN, room' = [room EXCEPT ![r].over = over]
          PROVE  /\ room'[r] \in Room
                 /\ room'[r].seat = room[r].seat
                 /\ room'[r].is_disconnected = room[r].is_disconnected
                 /\ room'[r].disconnected = room[r].disconnected
      BY <1>a, <1>10, <3>4 DEF Room
    <3>5. CASE room' = [room EXCEPT ![r].overdue = FALSE]
      BY <1>a, <1>10, <3>5 DEF Room
    <3>6. ASSUME NEW b \in BOOLEAN, room' = [room EXCEPT ![r].early = b]
          PROVE  /\ room'[r] \in Room
                 /\ room'[r].seat = room[r].seat
                 /\ room'[r].is_disconnected = room[r].is_disconnected
                 /\ room'[r].disconnected = room[r].disconnected
      BY <1>a, <1>10, <3>6 DEF Room
    <3> QED
      BY <1>10, <3>1, <3>2, <3>3, <3>4, <3>5, <3>6
  <2>2. \A x \in Rooms : x # r => room'[x] = room[x]
    BY <1>a, <1>10
  <2>3. \A x \in Rooms : /\ room'[x] = NoRoom <=> room[x] = NoRoom
                         /\ room[x] # NoRoom =>
                              /\ room'[x].seat = room[x].seat
                              /\ room'[x].is_disconnected = room[x].is_disconnected
                              /\ room'[x].disconnected = room[x].disconnected
    BY <1>10, <2>1, <2>2, GamesAssumption
  <2> QED
    BY <1>9, <1>10, <2>3
<1>11. ASSUME NEW c \in Conns, PlayInRoom(c) PROVE SeatsAreAccountedFor'
  BY <1>10, <1>11, RoomsExist DEF PlayInRoom
<1>12. ASSUME NEW r \in Rooms, WindowEnds(r) PROVE SeatsAreAccountedFor'
  BY <1>10, <1>12 DEF WindowEnds, TypeOK
<1>13. CASE UpdateRoom \/ Forfeit
  <2>1. Front \in Rooms /\ room[Front] \in Room
    BY <1>13, RoomsExist DEF UpdateRoom, Forfeit
  <2> QED
    BY <1>10, <1>13, <2>1 DEF UpdateRoom, Forfeit
<1>14. ASSUME UNCHANGED << client, screen, room >> PROVE SeatsAreAccountedFor'
  BY <1>9, <1>14
<1>15. CASE Settle
  <2>1. Front \in Rooms /\ room[Front] \in Room
    BY <1>15, RoomsExist DEF Settle
  <2> QED
    BY <1>10, <1>14, <1>15, <2>1 DEF Settle, MarkSettled
<1>16. ASSUME NEW c \in Conns, PlayInMatch(c) PROVE SeatsAreAccountedFor'
  BY <1>14, <1>16 DEF PlayInMatch
<1>17. CASE UpdateMatch \/ SnapshotRooms \/ Book \/ UNCHANGED vars
  BY <1>14, <1>17 DEF UpdateMatch, SnapshotRooms, Book, vars
<1>18. CASE StartCountdown
  <2>1. closing \in Rooms /\ room[closing] \in Room
    BY <1>18, RoomsExist DEF StartCountdown
  <2> QED
    BY <1>10, <1>18, <2>1 DEF StartCountdown
<1>19. CASE CheckWindow
  <2>1. Front \in Rooms /\ room[Front] \in Room
    BY <1>19, RoomsExist DEF CheckWindow
  <2>2. room' = room \/ \E b \in BOOLEAN : room' = [room EXCEPT ![Front].early = b]
    BY <1>19, <2>1 DEF CheckWindow, Room
  <2>3. UNCHANGED << client, screen >>
    BY <1>19 DEF CheckWindow
  <2> QED
    BY <1>10, <1>14, <2>1, <2>2, <2>3
<1> QED
  BY <1>1, <1>2, <1>3, <1>4, <1>5, <1>6, <1>7, <1>8, <1>11, <1>12, <1>13, <1>15, <1>16, <1>17,
     <1>18, <1>19
  DEF Next, Handlers, GameThread


-----------------------------------------------------------------------------
(* The theorems.                                                           *)

(* A server that has just started satisfies the invariant.                 *)
LEMMA InitInv == Init => IndInv
<1> SUFFICES ASSUME Init PROVE IndInv
  OBVIOUS
<1>1. TypeOK
  <2>1. NewClient \in Client
    BY DEF NewClient, Client, Roles
  <2>2. m_clients \in Seq(Conns)
    BY EmptySeq DEF Init
  <2> QED
    BY <2>1, <2>2 DEF Init, TypeOK, Screens, Steps
<1>2. Registered
  BY DEF Init, Registered
<1>3. AtARoom /\ EndsAreEarned /\ RoomResultsAreEarned
  BY DEF Init, AtARoom, EndsAreEarned, RoomResultsAreEarned, Games
<1>4. RoomsBookedOnce
  BY DEF Init, RoomsBookedOnce, Games
<1>5. MatchesBookedOnce
  <2>1. 0 \in Games
    BY BoundAssumption DEF Games
  <2> QED
    BY <2>1, BoundAssumption DEF Init, MatchesBookedOnce, Games
<1>6. SeatsAreAccountedFor
  BY DEF Init, SeatsAreAccountedFor, NewClient
<1> QED
  BY <1>1, <1>2, <1>3, <1>4, <1>5, <1>6 DEF IndInv

(* Every step keeps it.                                                    *)
LEMMA NextInv == IndInv /\ [Next]_vars => IndInv'
BY TypeStep, AtARoomStep, RegisteredStep, RoomsStep, MatchesStep, EarnedStep, SeatsStep DEF IndInv

(* The invariant holds throughout.                                         *)
THEOREM Invariance == Spec => []IndInv
BY InitInv, NextInv, PTL DEF Spec

(* The state of the server is well-typed: every room that game_loop or a   *)
(* handler looks up exists.                                                *)
THEOREM TypeCorrect == Spec => []TypeOK
<1>1. IndInv => TypeOK
  BY DEF IndInv
<1> QED
  BY <1>1, Invariance, PTL

(* ELO and history are booked at most once for every room and match,       *)
(* however handlers and the game loop interleave.                          *)
THEOREM RecordsAreUnique == Spec => []OneRecordPerGame
<1>1. IndInv => OneRecordPerGame
  BY DEF IndInv, OneRecordPerGame, RoomsBookedOnce, MatchesBookedOnce, Games
<1> QED
  BY <1>1, Invariance, PTL

(* No result is booked for a room in which nobody moved, unless it was     *)
(* forfeited 20 seconds after a player left, or by a game loop that looked *)
(* at the start time between the two writes of on_close.                   *)
THEOREM ResultsAreEarned == Spec => []RoomResultsAreEarned
<1>1. IndInv => RoomResultsAreEarned
  BY DEF IndInv
<1> QED
  BY <1>1, Invariance, PTL

(* Whoever can move pieces in a room sits there, or has been there under   *)
(* another connection.                                                     *)
THEOREM PlayersSit == Spec => []PlayersHoldASeat
<1>1. IndInv => PlayersHoldASeat
  <2> SUFFICES ASSUME IndInv, NEW c \in Connected, client[c].room \in live, MayPlay(c)
               PROVE  \/ \E s \in Seats : room[client[c].room].seat[s] = c
                      \/ \E d \in Conns \ {c} : /\ client[d].user = client[c].user
                                                /\ client[d].room = client[c].room
    BY DEF PlayersHoldASeat
  <2>1. c \in Conns /\ screen[c] # "gone"
    BY LenProperties DEF Connected, IndInv, TypeOK, Registered
  <2>2. client[c].room # NoRoom /\ ~client[c].is_viewer
    BY NoneAssumption DEF IndInv, TypeOK, MayPlay
  <2> QED
    BY <2>1, <2>2 DEF IndInv, SeatsAreAccountedFor, Left
<1> QED
  BY <1>1, Invariance, PTL

(* No step takes a seat from its holder, except for the same account.      *)
THEOREM SeatsAreKept == Spec => SeatsAreNotTaken
<1> DEFINE Kept == \A r \in live \cap live', s \in Seats :
                      LET old == room[r].seat[s]
                          new == room'[r].seat[s]
                      IN  (old # NoConn /\ new # old) =>
                             \/ new = NoConn /\ screen'[old] = "gone"
                             \/ new # NoConn /\ client'[new].user = client[old].user
<1>1. ASSUME IndInv, Next PROVE Kept
  <2> SUFFICES ASSUME NEW g \in live, NEW s \in Seats,
                      room[g].seat[s] # NoConn, room'[g].seat[s] # room[g].seat[s]
               PROVE  \/ room'[g].seat[s] = NoConn /\ screen'[room[g].seat[s]] = "gone"
                      \/ /\ room'[g].seat[s] # NoConn
                         /\ client'[room'[g].seat[s]].user = client[room[g].seat[s]].user
    OBVIOUS
  <2>a. /\ TypeOK /\ AtARoom /\ g \in Rooms /\ room[g] \in Room /\ room[g] # NoRoom
        /\ room \in [Rooms -> Room \cup {NoRoom}] /\ client \in [Conns -> Client]
        /\ screen \in [Conns -> Screens]
    BY <1>1, RoomsExist, GamesAssumption DEF IndInv, TypeOK
  <2>1. ASSUME NEW c \in Conns, on_close(c)
        PROVE  room'[g].seat[s] = NoConn /\ screen'[room[g].seat[s]] = "gone"
    <3>1. room'[g] = Abandon(g, c)
      BY <2>a, <2>1 DEF on_close
    <3>2. room'[g].seat[s] = NoConn /\ room[g].seat[s] = c
      BY <2>a, <3>1, AbandonedRoom
    <3> QED
      BY <2>a, <2>1, <3>2 DEF on_close
  <2>2. ASSUME NEW c \in Conns, NEW r \in Waiting(UserOf[c]), Reconnect(c, UserOf[c], r)
        PROVE  /\ room'[g].seat[s] # NoConn
               /\ client'[room'[g].seat[s]].user = client[room[g].seat[s]].user
    <3>1. r \in Rooms /\ room[r] \in Room /\ UserOf[c] \in Users
      BY <2>a, RoomsExist, UserAssumption DEF Waiting
    <3>2. /\ \A x \in Rooms : x # r => room'[x] = room[x]
          /\ client'[c].user = UserOf[c]
          /\ \A t \in Seats : \/ room'[r].seat[t] = room[r].seat[t]
                              \/ room'[r].seat[t] = c /\ HeldBy(r, t, UserOf[c])
      BY <2>a, <2>2, <3>1, ReconnectEffect
    <3>3. g = r /\ room'[g].seat[s] = c /\ HeldBy(g, s, UserOf[c])
      BY <2>a, <3>2
    <3> QED
      BY <3>2, <3>3, NoneAssumption DEF HeldBy
  <2>3. ASSUME NEW c \in Conns, NEW n \in Names, CreateRoom(c, n) PROVE FALSE
    <3>1. PICK r \in Rooms : room[r] = NoRoom /\ \A x \in Rooms : x # r => room'[x] = room[x]
      BY <2>a, <2>3, CreateEffect
    <3> QED
      BY <2>a, <3>1
  <2>4. ASSUME NEW c \in Conns, NEW r \in Rooms, JoinRoom(c, r) PROVE FALSE
    <3>1. room[r] \in Room
      BY <2>a, <2>4, RoomsExist DEF JoinRoom
    <3>2. CASE JoinAsBlack(c, r)
      BY <2>a, <3>1, <3>2, JoinBlackEffect
    <3>3. CASE JoinAsViewer(c, r)
      BY <3>3 DEF JoinAsViewer
    <3> QED
      BY <2>4, <3>2, <3>3 DEF JoinRoom
  <2>5. ASSUME UNCHANGED room PROVE FALSE
    BY <2>5
  <2>6. ASSUME NEW c \in Conns, PlayInRoom(c) PROVE FALSE
    <3>1. client[c].room \in Rooms /\ room[client[c].room] \in Room
      BY <2>a, <2>6, RoomsExist DEF PlayInRoom
    <3> QED
      BY <2>a, <2>6, <3>1 DEF PlayInRoom, Room
  <2>7. ASSUME NEW r \in Rooms, WindowEnds(r) PROVE FALSE
    <3>1. room[r] \in Room
      BY <2>a, <2>7 DEF WindowEnds
    <3> QED
      BY <2>a, <2>7, <3>1 DEF WindowEnds, Room
  <2>8. ASSUME UpdateRoom \/ Forfeit PROVE FALSE
    <3>1. Front \in Rooms /\ room[Front] \in Room
      BY <2>a, <2>8, RoomsExist DEF UpdateRoom, Forfeit
    <3>2. PICK over \in BOOLEAN : room' = [room EXCEPT ![Front].over = over]
      BY <2>8 DEF UpdateRoom, Forfeit
    <3> QED
      BY <2>a, <3>1, <3>2 DEF Room
  <2>9. ASSUME Settle PROVE FALSE
    <3>1. Front \in Rooms /\ room[Front] \in Room
      BY <2>a, <2>9, RoomsExist DEF Settle
    <3>2. room' = room \/ room' = [room EXCEPT ![Front].elo_updated = TRUE]
      BY <2>9 DEF Settle, MarkSettled
    <3> QED
      BY <2>a, <3>1, <3>2 DEF Room
  <2>10. ASSUME NEW c \in Conns,
                on_open(c) \/ FindMatch(c) \/ CancelMatch(c) \/ OpenBoard(c) \/ PlayInMatch(c)
         PROVE  FALSE
    BY <2>5, <2>10 DEF on_open, FindMatch, CancelMatch, OpenBoard, PlayInMatch
  <2>11. ASSUME process_matchmaking \/ UpdateMatch \/ SnapshotRooms \/ Book PROVE FALSE
    BY <2>5, <2>11 DEF process_matchmaking, UpdateMatch, SnapshotRooms, Book
  <2>12. ASSUME NEW c \in Conns, Login(c)
         PROVE  /\ room'[g].seat[s] # NoConn
                /\ client'[room'[g].seat[s]].user = client[room[g].seat[s]].user
    BY <2>2, <2>5, <2>12 DEF Login
  <2>13. ASSUME StartCountdown PROVE FALSE
    <3>1. closing \in Rooms /\ room[closing] \in Room
      BY <2>a, <2>13, RoomsExist DEF StartCountdown
    <3> QED
      BY <2>a, <2>13, <3>1 DEF StartCountdown, Room
  <2>14. ASSUME CheckWindow PROVE FALSE
    <3>1. Front \in Rooms /\ room[Front] \in Room
      BY <2>a, <2>14, RoomsExist DEF CheckWindow
    <3>2. room' = room \/ \E b \in BOOLEAN : room' = [room EXCEPT ![Front].early = b]
      BY <2>14, <3>1 DEF CheckWindow, Room
    <3> QED
      BY <2>a, <3>1, <3>2 DEF Room
  <2> QED
    BY <1>1, <2>1, <2>3, <2>4, <2>6, <2>7, <2>8, <2>9, <2>10, <2>11, <2>12, <2>13, <2>14
    DEF Next, Handlers, GameThread
<1>2. IndInv /\ [Next]_vars => [Kept]_vars
  BY <1>1
<1> QED
  BY <1>2, Invariance, PTL DEF Spec, SeatsAreNotTaken

=============================================================================
