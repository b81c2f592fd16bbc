------------------------- MODULE ServerLocksProofs -------------------------
(***************************************************************************)
(* The threads of network::SocketServer never wait for each other, and a   *)
(* sound stays in its game, for any number of rooms.  The argument is a    *)
(* proof outline of the handlers: between any two instructions stands what *)
(* the thread then holds and knows (Point), every instruction leads from   *)
(* one point to the next (Follows), and the outline of a handler is put    *)
(* together from those of its scopes.                                      *)
(***************************************************************************)
EXTENDS ServerLocks, SequenceTheorems, FiniteSetTheorems, TLAPS

(* Instructions of the handlers.                                           *)
Operations  == {"lock", "unlock", "tls", "publish", "push", "forfeit", "clear", "take",
                "erase", "add", "copy", "turn"}
Routes      == (Rooms \cup {NoRoom}) \X Games
Arguments   == Mutexes \cup Games \cup {NoRoom} \cup (SUBSET Rooms) \cup Routes
Instruction == [op : Operations, arg : Arguments]

(* The order in which the mutexes are taken.                               *)
Rank(m) == CASE m = "m_clients_mutex" -> 1 [] m = "m_sounds_mutex" -> 2
             [] m = "m_rooms_mutex" -> 3 [] m = "log_mutex" -> 4 [] m = "users_mutex" -> 5

(* What a thread holds, the room it works for, and the ids that it alone   *)
(* may give to new rooms.                                                  *)
Point == [held : SUBSET Mutexes, room : Rooms \cup {NoRoom}, fresh : SUBSET Rooms]

Spot(H, r, F) == [held |-> H, room |-> r, fresh |-> F]

Done == Spot({}, NoRoom, {})

(* A sound of game g may be pushed for room r: it is the room's own, or    *)
(* the match's, for a thread that works for no room or for an erased one.  *)
Belongs(r, g, gone) ==
    \/ r \in Rooms /\ g = r
    \/ r \in gone \cup {NoRoom} /\ g = "match"

(* Instruction x leads from point a to point b while the rooms in gone are *)
(* erased: mutexes are taken in their order, and engines publish with none *)
(* of them held.                                                           *)
Follows(a, x, b, gone) ==
    \/ /\ x.op = "lock" /\ x.arg \in Mutexes
       /\ \A m \in a.held : Rank(m) < Rank(x.arg)
       /\ b = Spot(a.held \cup {x.arg}, a.room, a.fresh)
    \/ /\ x.op = "unlock" /\ x.arg \in a.held
       /\ b = Spot(a.held \ {x.arg}, a.room, a.fresh)
    \/ x.op = "tls" /\ x.arg \in Rooms \cup {NoRoom} /\ b = Spot(a.held, x.arg, a.fresh)
    \/ x.op = "publish" /\ a.held = {} /\ Belongs(a.room, x.arg, gone) /\ b = a
    \/ x.op = "push" /\ Belongs(x.arg[1], x.arg[2], gone) /\ b = a
    \/ x.op \in {"forfeit", "clear"} /\ x.arg \in Rooms /\ b = a
    \/ x.op \in {"take", "copy"} /\ b = a
    \/ x.op = "erase" /\ x.arg \in SUBSET Rooms /\ b = a
    \/ x.op = "add" /\ x.arg \in a.fresh /\ b = Spot(a.held, a.room, a.fresh \ {x.arg})
    \/ x.op = "turn" /\ x.arg \in Rooms /\ a = Done /\ b = a

(* Code s leads from a to b.                                               *)
Outline(a, s, b, gone) ==
    \E h \in [1 .. Len(s) + 1 -> Point] :
        /\ h[1] = a /\ h[Len(s) + 1] = b
        /\ \A i \in 1 .. Len(s) : Follows(h[i], s[i], h[i + 1], gone)

Block(a, s, b, gone) == s \in Seq(Instruction) /\ Outline(a, s, b, gone)

Erased  == used \ m_rooms
Held(t) == {m \in Mutexes : owner[m] = t}

(* Every thread is somewhere in an outline that ends with all released;    *)
(* only the websocket thread has ids to give.                              *)
ThreadOK(t) ==
    \E F \in SUBSET Rooms :
        /\ F \cap used = {} /\ (t = "game" => F = {})
        /\ Block(Spot(Held(t), tls_current_room_id[t], F), code[t], Done, Erased)

LocksTypeOK ==
    /\ code \in [Threads -> Seq(Instruction)]
    /\ owner \in [Mutexes -> Threads \cup {NoThread}]
    /\ tls_current_room_id \in [Threads -> Rooms \cup {NoRoom}]
    /\ used \in SUBSET Rooms /\ m_rooms \in SUBSET used
    /\ pending_sounds \in [Rooms -> SUBSET Games]

LocksInv ==
    /\ LocksTypeOK
    /\ \A t \in Threads : ThreadOK(t)
    /\ SoundsStayInTheirGame

-----------------------------------------------------------------------------
(* Putting outlines together.                                              *)

(* The points between the instructions are well formed.                    *)
LEMMA SpotType ==
    ASSUME NEW H \in SUBSET Mutexes, NEW r \in Rooms \cup {NoRoom}, NEW F \in SUBSET Rooms
    PROVE  Spot(H, r, F) \in Point
  BY DEF Spot, Point

(* Code that does nothing.                                                 *)
LEMMA BlockEmpty ==
    ASSUME NEW a \in Point, NEW gone
    PROVE  Block(a, << >>, a, gone)
  <1> DEFINE h == [i \in 1 .. 1 |-> a]
  <1>1. << >> \in Seq(Instruction) /\ Len(<< >>) = 0
    BY EmptySeq
  <1>2. h \in [1 .. 1 -> Point] /\ h[1] = a
    OBVIOUS
  <1> HIDE DEF h
  <1>3. Outline(a, << >>, a, gone)
    BY <1>1, <1>2 DEF Outline
  <1> QED BY <1>1, <1>3 DEF Block

(* A single instruction.                                                   *)
LEMMA BlockDo ==
    ASSUME NEW a \in Point, NEW b \in Point, NEW gone,
           NEW op \in Operations, NEW arg \in Arguments,
           Follows(a, [op |-> op, arg |-> arg], b, gone)
    PROVE  Block(a, Do(op, arg), b, gone)
  <1> DEFINE x == [op |-> op, arg |-> arg]
             h == [i \in 1 .. 2 |-> IF i = 1 THEN a ELSE b]
  <1>1. x \in Instruction
    BY DEF Instruction
  <1>2. Do(op, arg) = << x >>
    BY DEF Do
  <1> HIDE DEF x
  <1>3. << x >> \in Seq(Instruction) /\ Len(<< x >>) = 1 /\ << x >>[1] = x
    BY <1>1
  <1>4. h \in [1 .. 2 -> Point] /\ h[1] = a /\ h[2] = b
    OBVIOUS
  <1> HIDE DEF h
  <1>5. Follows(h[1], << x >>[1], h[2], gone)
    BY <1>3, <1>4 DEF x
  <1>6. Outline(a, << x >>, b, gone)
    BY <1>3, <1>4, <1>5 DEF Outline
  <1> QED BY <1>2, <1>3, <1>6 DEF Block

(* One piece of code after another.                                        *)
LEMMA BlockConcat ==
    ASSUME NEW a, NEW b, NEW c, NEW gone, NEW s, NEW u,
           Block(a, s, b, gone), Block(b, u, c, gone)
    PROVE  Block(a, s \o u, c, gone)
  <1>1. /\ s \in Seq(Instruction) /\ u \in Seq(Instruction)
        /\ Len(s) \in Nat /\ Len(u) \in Nat
    BY LenProperties DEF Block
  <1>2. PICK h \in [1 .. Len(s) + 1 -> Point] :
                /\ h[1] = a /\ h[Len(s) + 1] = b
                /\ \A i \in 1 .. Len(s) : Follows(h[i], s[i], h[i + 1], gone)
    BY DEF Block, Outline
  <1>3. PICK k \in [1 .. Len(u) + 1 -> Point] :
                /\ k[1] = b /\ k[Len(u) + 1] = c
                /\ \A i \in 1 .. Len(u) : Follows(k[i], u[i], k[i + 1], gone)
    BY DEF Block, Outline
  <1> DEFINE n == Len(s)
             v == s \o u
             g == [i \in 1 .. Len(v) + 1 |-> IF i <= n THEN h[i] ELSE k[i - n]]
  <1>4. /\ v \in Seq(Instruction) /\ Len(v) = n + Len(u)
        /\ \A i \in 1 .. Len(v) : v[i] = IF i <= n THEN s[i] ELSE u[i - n]
    BY <1>1, ConcatProperties
  <1> HIDE DEF v
  <1>5. /\ g \in [1 .. Len(v) + 1 -> Point]
        /\ \A i \in 1 .. n : g[i] = h[i]
        /\ \A i \in (n + 1) .. (Len(v) + 1) : g[i] = k[i - n]
    BY <1>1, <1>2, <1>3, <1>4
  <1>6. g[n + 1] = h[n + 1] /\ g[1] = a /\ g[Len(v) + 1] = c
    BY <1>1, <1>2, <1>3, <1>4, <1>5
  <1> HIDE DEF g
  <1>7. ASSUME NEW i \in 1 .. Len(v) PROVE Follows(g[i], v[i], g[i + 1], gone)
    <2>1. CASE i <= n
      <3>1. v[i] = s[i] /\ g[i] = h[i] /\ i \in 1 .. n
        BY <1>1, <1>4, <1>5, <2>1
      <3>2. g[i + 1] = h[i + 1]
        <4>1. CASE i = n
          BY <1>6, <4>1
        <4>2. CASE i # n
          <5>1. i + 1 \in 1 .. n
            BY <1>1, <3>1, <4>2
          <5> QED BY ONLY <1>5, <5>1
        <4> QED BY <4>1, <4>2
      <3> QED BY <1>2, <3>1, <3>2
    <2>2. CASE i > n
      <3>1. v[i] = u[i - n] /\ g[i] = k[i - n] /\ g[i + 1] = k[(i - n) + 1]
        BY <1>1, <1>4, <1>5, <2>2
      <3>2. i - n \in 1 .. Len(u)
        BY <1>1, <1>4, <2>2
      <3> QED BY <1>3, <3>1, <3>2
    <2> QED BY <1>1, <2>1, <2>2
  <1> QED BY <1>4, <1>5, <1>6, <1>7 DEF Block, Outline, v

(* The first instruction and the rest.                                     *)
LEMMA BlockFirst ==
    ASSUME NEW a, NEW b, NEW gone, NEW s, s # << >>, Block(a, s, b, gone)
    PROVE  \E c \in Point : Follows(a, Head(s), c, gone) /\ Block(c, Tail(s), b, gone)
  <1>1. /\ s \in Seq(Instruction) /\ Len(s) \in Nat /\ Len(s) # 0
    BY LenProperties, EmptySeq DEF Block
  <1>2. /\ Head(s) = s[1] /\ Tail(s) \in Seq(Instruction) /\ Len(Tail(s)) = Len(s) - 1
        /\ \A i \in 1 .. Len(Tail(s)) : Tail(s)[i] = s[i + 1]
    BY <1>1, HeadTailProperties
  <1>3. PICK h \in [1 .. Len(s) + 1 -> Point] :
                /\ h[1] = a /\ h[Len(s) + 1] = b
                /\ \A i \in 1 .. Len(s) : Follows(h[i], s[i], h[i + 1], gone)
    BY DEF Block, Outline
  <1> DEFINE u == Tail(s)
             k == [i \in 1 .. Len(u) + 1 |-> h[i + 1]]
  <1>4. h[2] \in Point /\ Follows(a, Head(s), h[2], gone)
    BY <1>1, <1>2, <1>3
  <1>5. /\ k \in [1 .. Len(u) + 1 -> Point]
        /\ k[1] = h[2] /\ k[Len(u) + 1] = b
        /\ \A i \in 1 .. Len(u) : k[i] = h[i + 1] /\ k[i + 1] = h[(i + 1) + 1] /\ i + 1 \in 1 .. Len(s)
    BY <1>1, <1>2, <1>3
  <1> HIDE DEF k, u
  <1>6. \A i \in 1 .. Len(u) : Follows(k[i], u[i], k[i + 1], gone)
    BY <1>2, <1>3, <1>5 DEF u
  <1>7. Outline(h[2], u, b, gone)
    BY <1>5, <1>6 DEF Outline
  <1> QED BY <1>2, <1>4, <1>7 DEF Block, u

(* More rooms are erased: a sound that belonged somewhere still does.      *)
LEMMA BlockGrows ==
    ASSUME NEW a, NEW b, NEW s, NEW gone, NEW more, gone \subseteq more, Block(a, s, b, gone)
    PROVE  Block(a, s, b, more)
  <1>1. PICK h \in [1 .. Len(s) + 1 -> Point] :
                /\ h[1] = a /\ h[Len(s) + 1] = b
                /\ \A i \in 1 .. Len(s) : Follows(h[i], s[i], h[i + 1], gone)
    BY DEF Block, Outline
  <1>2. ASSUME NEW x, NEW y, NEW z, Follows(x, y, z, gone) PROVE Follows(x, y, z, more)
    <2>1. \A r, g : Belongs(r, g, gone) => Belongs(r, g, more)
      BY DEF Belongs
    <2> QED BY <1>2, <2>1 DEF Follows
  <1> QED BY <1>1, <1>2 DEF Block, Outline

(* A lock_guard scope around code that keeps what it finds.                *)
LEMMA BlockScope ==
    ASSUME NEW H \in SUBSET Mutexes, NEW r \in Rooms \cup {NoRoom}, NEW q \in Rooms \cup {NoRoom},
           NEW F \in SUBSET Rooms, NEW G \in SUBSET Rooms, NEW gone, NEW m \in Mutexes \ H,
           \A o \in H : Rank(o) < Rank(m), NEW body,
           Block(Spot(H \cup {m}, r, F), body, Spot(H \cup {m}, q, G), gone)
    PROVE  Block(Spot(H, r, F), Scope(m, body), Spot(H, q, G), gone)
  <1>1. Block(Spot(H, r, F), Do("lock", m), Spot(H \cup {m}, r, F), gone)
    <2>1. Follows(Spot(H, r, F), [op |-> "lock", arg |-> m], Spot(H \cup {m}, r, F), gone)
      BY DEF Follows, Spot
    <2>2. Spot(H, r, F) \in Point /\ Spot(H \cup {m}, r, F) \in Point
      BY SpotType
    <2>3. "lock" \in Operations /\ m \in Arguments
      BY DEF Operations, Arguments
    <2> QED BY <2>1, <2>2, <2>3, BlockDo
  <1>2. Block(Spot(H \cup {m}, q, G), Do("unlock", m), Spot(H, q, G), gone)
    <2>1. (H \cup {m}) \ {m} = H
      OBVIOUS
    <2>2. Follows(Spot(H \cup {m}, q, G), [op |-> "unlock", arg |-> m], Spot(H, q, G), gone)
      BY <2>1 DEF Follows, Spot
    <2>3. Spot(H, q, G) \in Point /\ Spot(H \cup {m}, q, G) \in Point
      BY SpotType
    <2>4. "unlock" \in Operations /\ m \in Arguments
      BY DEF Operations, Arguments
    <2> QED BY <2>2, <2>3, <2>4, BlockDo
  <1>3. Block(Spot(H, r, F), Do("lock", m) \o body, Spot(H \cup {m}, q, G), gone)
    BY <1>1, BlockConcat
  <1> QED BY <1>2, <1>3, BlockConcat DEF Scope

-----------------------------------------------------------------------------
(* The outlines of the handlers.                                           *)

(* A scope in which nothing happens to rooms and sounds.                   *)
LEMMA EmptyScope ==
    ASSUME NEW H \in SUBSET Mutexes, NEW r \in Rooms \cup {NoRoom}, NEW F \in SUBSET Rooms,
           NEW gone, NEW m \in Mutexes \ H, \A o \in H : Rank(o) < Rank(m)
    PROVE  Block(Spot(H, r, F), Scope(m, << >>), Spot(H, r, F), gone)
  <1>1. Spot(H \cup {m}, r, F) \in Point
    BY SpotType
  <1>2. Block(Spot(H \cup {m}, r, F), << >>, Spot(H \cup {m}, r, F), gone)
    BY <1>1, BlockEmpty
  <1> QED BY <1>2, BlockScope

(* The scopes that most handlers open one after the other.                 *)
LEMMA FreeScopes ==
    ASSUME NEW r \in Rooms \cup {NoRoom}, NEW F \in SUBSET Rooms, NEW gone
    PROVE  /\ Block(Spot({}, r, F), Clients(<< >>), Spot({}, r, F), gone)
           /\ Block(Spot({}, r, F), InRooms(<< >>), Spot({}, r, F), gone)
           /\ Block(Spot({}, r, F), log_server_activity, Spot({}, r, F), gone)
           /\ Block(Spot({}, r, F), UserManager, Spot({}, r, F), gone)
           /\ Block(Spot({}, r, F), << >>, Spot({}, r, F), gone)
  <1>1. \A m \in Mutexes : Block(Spot({}, r, F), Scope(m, << >>), Spot({}, r, F), gone)
    BY EmptyScope
  <1>2. Block(Spot({}, r, F), << >>, Spot({}, r, F), gone)
    BY BlockEmpty, SpotType
  <1> QED BY <1>1, <1>2 DEF Clients, InRooms, log_server_activity, UserManager, Mutexes

(* An instruction after which the thread holds and knows what it did.      *)
LEMMA KeepingDo ==
    ASSUME NEW H \in SUBSET Mutexes, NEW r \in Rooms \cup {NoRoom}, NEW F \in SUBSET Rooms,
           NEW gone, NEW op \in {"push", "forfeit", "clear", "take", "erase", "copy"},
           NEW arg \in Arguments,
           op = "push" => Belongs(arg[1], arg[2], gone),
           op \in {"forfeit", "clear"} => arg \in Rooms,
           op = "erase" => arg \in SUBSET Rooms
    PROVE  Block(Spot(H, r, F), Do(op, arg), Spot(H, r, F), gone)
  <1> DEFINE x == [op |-> op, arg |-> arg]
             a == Spot(H, r, F)
  <1>1. a \in Point
    BY SpotType
  <1>2. x.op = op /\ x.arg = arg
    OBVIOUS
  <1> HIDE DEF x, a
  <1>3. Follows(a, x, a, gone)
    BY <1>2 DEF Follows
  <1>4. op \in Operations
    BY DEF Operations
  <1> QED BY <1>1, <1>3, <1>4, BlockDo DEF a, x

(* tls_current_room_id is set.                                             *)
LEMMA TlsDo ==
    ASSUME NEW H \in SUBSET Mutexes, NEW r \in Rooms \cup {NoRoom}, NEW q \in Rooms \cup {NoRoom},
           NEW F \in SUBSET Rooms, NEW gone
    PROVE  Block(Spot(H, r, F), Do("tls", q), Spot(H, q, F), gone)
  <1>1. Spot(H, r, F) \in Point /\ Spot(H, q, F) \in Point
    BY SpotType
  <1>2. Follows(Spot(H, r, F), [op |-> "tls", arg |-> q], Spot(H, q, F), gone)
    BY DEF Follows, Spot
  <1>3. "tls" \in Operations /\ q \in Arguments
    BY DEF Operations, Arguments, Games
  <1> QED BY <1>1, <1>2, <1>3, BlockDo

(* An engine is called with no mutex held.                                 *)
LEMMA EngineDo ==
    ASSUME NEW r \in Rooms \cup {NoRoom}, NEW F \in SUBSET Rooms, NEW gone, NEW g \in Games,
           Belongs(r, g, gone)
    PROVE  Block(Spot({}, r, F), Engine(g), Spot({}, r, F), gone)
  <1>1. Spot({}, r, F) \in Point
    BY SpotType
  <1>2. Follows(Spot({}, r, F), [op |-> "publish", arg |-> g], Spot({}, r, F), gone)
    BY DEF Follows, Spot
  <1>3. "publish" \in Operations /\ g \in Arguments
    BY DEF Operations, Arguments
  <1> QED BY <1>1, <1>2, <1>3, BlockDo DEF Engine

(* The subscriber takes m_sounds_mutex and then m_rooms_mutex.             *)
LEMMA SubscriberBlock ==
    ASSUME NEW r \in Rooms \cup {NoRoom}, NEW F \in SUBSET Rooms, NEW gone, NEW g \in Games,
           Belongs(r, g, gone)
    PROVE  Block(Spot({}, r, F), Subscriber(r, g), Spot({}, r, F), gone)
  <1> DEFINE S == {"m_sounds_mutex"}
             B == {"m_sounds_mutex", "m_rooms_mutex"}
             push(q) == Do("push", << q, g >>)
             body == IF r # NoRoom THEN InRooms(push(r)) ELSE push(NoRoom)
  <1>1. /\ S \in SUBSET Mutexes /\ B \in SUBSET Mutexes /\ {} \cup {"m_sounds_mutex"} = S
        /\ S \cup {"m_rooms_mutex"} = B
        /\ "m_sounds_mutex" \in Mutexes \ {} /\ "m_rooms_mutex" \in Mutexes \ S
        /\ \A o \in S : Rank(o) < Rank("m_rooms_mutex")
    BY DEF Mutexes, Rank
  <1>2. << r, g >> \in Arguments
    <2>1. << r, g >> \in Routes
      BY DEF Routes
    <2> QED BY <2>1 DEF Arguments
  <1>3. ASSUME NEW H \in SUBSET Mutexes
        PROVE  Block(Spot(H, r, F), push(r), Spot(H, r, F), gone)
    <2>1. Belongs(<< r, g >>[1], << r, g >>[2], gone)
      OBVIOUS
    <2> QED BY <1>2, <2>1, KeepingDo
  <1> HIDE DEF S, B, push
  <1>4. Block(Spot(S, r, F), InRooms(push(r)), Spot(S, r, F), gone)
    BY <1>1, <1>3, BlockScope DEF InRooms
  <1>5. Block(Spot(S, r, F), body, Spot(S, r, F), gone)
    BY <1>1, <1>3, <1>4
  <1> HIDE DEF body
  <1>6. Block(Spot({}, r, F), Scope("m_sounds_mutex", body), Spot({}, r, F), gone)
    <2>1. Block(Spot({} \cup {"m_sounds_mutex"}, r, F), body, Spot({} \cup {"m_sounds_mutex"}, r, F), gone)
      BY <1>1, <1>5
    <2>2. \A o \in {} : Rank(o) < Rank("m_sounds_mutex")
      OBVIOUS
    <2> QED BY <1>1, <2>1, <2>2, BlockScope
  <1> QED BY <1>6 DEF Subscriber, body, push

(* Every command begins with the lookup of its sender.                     *)
LEMMA CommandBlock ==
    ASSUME NEW F \in SUBSET Rooms, NEW gone, NEW bodies, NEW h \in Command(bodies),
           \A b \in bodies : Block(Spot({}, NoRoom, F), b, Done, gone)
    PROVE  Block(Spot({}, NoRoom, F), h, Done, gone)
  <1>1. PICK b \in bodies : h = Clients(<< >>) \o b
    BY DEF Command
  <1>2. Block(Spot({}, NoRoom, F), Clients(<< >>), Spot({}, NoRoom, F), gone)
    BY FreeScopes
  <1> QED BY <1>1, <1>2, BlockConcat

(* on_open and on_close: clients, rooms, log, in this order.               *)
LEMMA ConnectionBlocks ==
    ASSUME NEW gone, NEW h \in on_open \cup on_close
    PROVE  Block(Done, h, Done, gone)
  <1> DEFINE C == {"m_clients_mutex"}
             R == {"m_clients_mutex", "m_rooms_mutex"}
             In(H, s) == Block(Spot(H, NoRoom, {}), s, Spot(H, NoRoom, {}), gone)
  <1>1. /\ C \in SUBSET Mutexes /\ R \in SUBSET Mutexes
        /\ {} \cup {"m_clients_mutex"} = C /\ C \cup {"m_rooms_mutex"} = R
        /\ "m_clients_mutex" \in Mutexes \ {} /\ "m_rooms_mutex" \in Mutexes \ C
        /\ "log_mutex" \in Mutexes \ R
        /\ \A o \in C : Rank(o) < Rank("m_rooms_mutex")
        /\ \A o \in R : Rank(o) < Rank("log_mutex")
        /\ \A o \in {} : Rank(o) < Rank("m_clients_mutex")
    BY DEF Mutexes, Rank
  <1>2. ASSUME NEW s, In(R, s) PROVE In(C, InRooms(s))
    <2>1. Block(Spot(C \cup {"m_rooms_mutex"}, NoRoom, {}), s,
                Spot(C \cup {"m_rooms_mutex"}, NoRoom, {}), gone)
      BY <1>1, <1>2
    <2> HIDE DEF C
    <2> QED BY <1>1, <2>1, BlockScope DEF InRooms
  <1>3. ASSUME NEW s, In(C, s) PROVE In({}, Clients(s))
    <2>1. Block(Spot({} \cup {"m_clients_mutex"}, NoRoom, {}), s,
                Spot({} \cup {"m_clients_mutex"}, NoRoom, {}), gone)
      BY <1>1, <1>3
    <2> QED BY <1>1, <2>1, BlockScope DEF Clients
  <1>4. In(R, << >>) /\ In(C, << >>)
    BY <1>1, SpotType, BlockEmpty
  <1>5. In(R, log_server_activity)
    BY <1>1, EmptyScope DEF log_server_activity
  <1>6. In(R, set_game_over \o log_server_activity)
    BY <1>4, <1>5, BlockConcat DEF set_game_over
  <1> HIDE DEF C, R
  <1>7. /\ In({}, Clients(<< >>)) /\ In({}, Clients(InRooms(<< >>)))
        /\ In({}, Clients(InRooms(log_server_activity)))
        /\ In({}, Clients(InRooms(set_game_over \o log_server_activity)))
    BY <1>2, <1>3, <1>4, <1>5, <1>6
  <1> QED BY <1>7 DEF on_open, on_close, Done

(* LOGIN, SEARCH and JOIN_ROOM.                                            *)
LEMMA LobbyBlocks ==
    ASSUME NEW gone, NEW h \in Login \cup Search \cup JoinRoom
    PROVE  Block(Done, h, Done, gone)
  <1> DEFINE a == Spot({}, NoRoom, {})
  <1>1. /\ a = Done
        /\ Block(a, Clients(<< >>), a, gone) /\ Block(a, InRooms(<< >>), a, gone)
        /\ Block(a, log_server_activity, a, gone) /\ Block(a, UserManager, a, gone)
    BY FreeScopes DEF Done
  <1>2. Block(a, InRooms(log_server_activity), a, gone)
    <2> DEFINE R == {"m_rooms_mutex"}
    <2>1. /\ R \in SUBSET Mutexes /\ {} \cup {"m_rooms_mutex"} = R
          /\ "m_rooms_mutex" \in Mutexes \ {} /\ "log_mutex" \in Mutexes \ R
          /\ \A o \in R : Rank(o) < Rank("log_mutex")
          /\ \A o \in {} : Rank(o) < Rank("m_rooms_mutex")
      BY DEF Mutexes, Rank
    <2> HIDE DEF R
    <2>2. Block(Spot(R, NoRoom, {}), log_server_activity, Spot(R, NoRoom, {}), gone)
      BY <2>1, EmptyScope DEF log_server_activity
    <2> QED BY <2>1, <2>2, BlockScope DEF InRooms
  <1> HIDE DEF a
  <1>3. ASSUME NEW s, NEW u, Block(a, s, a, gone), Block(a, u, a, gone)
        PROVE  Block(a, s \o u, a, gone)
    BY <1>3, BlockConcat
  <1>4. CASE h \in Login
    <2> DEFINE B == {UserManager,
                     UserManager \o Clients(<< >>) \o InRooms(<< >>),
                     UserManager \o Clients(<< >>) \o InRooms(log_server_activity)}
    <2>1. \A b \in B : Block(a, b, a, gone)
      BY <1>1, <1>2, <1>3
    <2>2. h \in Command(B)
      BY <1>4 DEF Login
    <2> HIDE DEF B
    <2>3. \A b \in B : Block(Spot({}, NoRoom, {}), b, Done, gone)
      BY <1>1, <2>1 DEF a
    <2>4. Block(Spot({}, NoRoom, {}), h, Done, gone)
      BY <2>2, <2>3, CommandBlock
    <2> QED BY <2>4 DEF Done
  <1>5. CASE h \in Search
    BY <1>1, <1>5, CommandBlock DEF Search, a
  <1>6. CASE h \in JoinRoom
    <2> DEFINE B == {Clients(<< >>) \o InRooms(<< >>) \o log_server_activity}
    <2>1. \A b \in B : Block(a, b, a, gone)
      BY <1>1, <1>3
    <2>2. h \in Command(B)
      BY <1>6 DEF JoinRoom
    <2> HIDE DEF B
    <2>3. \A b \in B : Block(Spot({}, NoRoom, {}), b, Done, gone)
      BY <1>1, <2>1 DEF a
    <2>4. Block(Spot({}, NoRoom, {}), h, Done, gone)
      BY <2>2, <2>3, CommandBlock
    <2> QED BY <2>4 DEF Done
  <1> QED BY <1>4, <1>5, <1>6

(* CREATE_ROOM, with the id that generate_room_id gives it.                *)
LEMMA CreateRoomBlock ==
    ASSUME LocksTypeOK, NEW gone, NEW h \in CreateRoom
    PROVE  \E r \in Rooms \ used : Block(Spot({}, NoRoom, {r}), h, Done, gone)
  <1>1. PICK S \in SUBSET m_rooms, r \in Rooms \ used :
             h = Clients(<< >>) \o (Clients(<< >>) \o InRooms(Do("erase", S))
                                        \o InRooms(Do("add", r)) \o log_server_activity)
    <2> DEFINE body(S, r) == Clients(<< >>) \o InRooms(Do("erase", S)) \o InRooms(Do("add", r))
                                 \o log_server_activity
               B == {body(S, r) : S \in SUBSET m_rooms, r \in Rooms \ used}
    <2>1. h \in Command(B)
      BY DEF CreateRoom
    <2> HIDE DEF body
    <2>2. \A b \in B : \E S \in SUBSET m_rooms, r \in Rooms \ used : b = body(S, r)
      OBVIOUS
    <2> HIDE DEF B
    <2>3. PICK b \in B : h = Clients(<< >>) \o b
      BY <2>1 DEF Command
    <2> QED BY <2>2, <2>3 DEF body
  <1> DEFINE a == Spot({}, NoRoom, {r})
             R == {"m_rooms_mutex"}
  <1>2. /\ R \in SUBSET Mutexes /\ {} \cup {"m_rooms_mutex"} = R
        /\ "m_rooms_mutex" \in Mutexes \ {}
        /\ \A o \in {} : Rank(o) < Rank("m_rooms_mutex")
    BY DEF Mutexes
  <1>3. Block(a, Clients(<< >>), a, gone) /\ Block(Done, log_server_activity, Done, gone)
    BY FreeScopes DEF Done
  <1> HIDE DEF R
  <1>4. Block(a, InRooms(Do("erase", S)), a, gone)
    <2>1. S \in SUBSET Rooms
      BY DEF LocksTypeOK
    <2>2. S \in Arguments
      BY <2>1 DEF Arguments
    <2>3. Block(Spot(R, NoRoom, {r}), Do("erase", S), Spot(R, NoRoom, {r}), gone)
      BY <1>2, <2>1, <2>2, KeepingDo
    <2> QED BY <1>2, <2>3, BlockScope DEF InRooms
  <1>5. Block(a, InRooms(Do("add", r)), Done, gone)
    <2>1. Spot(R, NoRoom, {r}) \in Point /\ Spot(R, NoRoom, {}) \in Point
      BY <1>2, SpotType
    <2>2. {r} \ {r} = {}
      OBVIOUS
    <2>3. Follows(Spot(R, NoRoom, {r}), [op |-> "add", arg |-> r], Spot(R, NoRoom, {}), gone)
      BY <2>2 DEF Follows, Spot
    <2>4. "add" \in Operations /\ r \in Arguments
      BY DEF Operations, Arguments, Games
    <2>5. Block(Spot(R, NoRoom, {r}), Do("add", r), Spot(R, NoRoom, {}), gone)
      BY <2>1, <2>3, <2>4, BlockDo
    <2> QED BY <1>2, <2>5, BlockScope DEF InRooms, Done
  <1> HIDE DEF a
  <1>6. Block(a, Clients(<< >>) \o InRooms(Do("erase", S)), a, gone)
    BY <1>3, <1>4, BlockConcat
  <1>7. Block(a, Clients(<< >>) \o InRooms(Do("erase", S)) \o InRooms(Do("add", r)), Done, gone)
    BY <1>5, <1>6, BlockConcat
  <1>8. Block(a, Clients(<< >>) \o InRooms(Do("erase", S)) \o InRooms(Do("add", r))
                     \o log_server_activity, Done, gone)
    BY <1>3, <1>7, BlockConcat
  <1>9. Block(a, h, Done, gone)
    BY <1>1, <1>3, <1>8, BlockConcat
  <1> QED BY <1>9 DEF a

(* MOVE and JUMP: the room id is set before the engine of that room is     *)
(* called, and unset on every way out.                                     *)
LEMMA RequestBlock ==
    ASSUME LocksTypeOK, NEW r \in used \cup {NoRoom}, NEW after, NEW h \in Request(r, after),
           Block(Spot({}, r, {}), after, Spot({}, r, {}), Erased)
    PROVE  Block(Done, h, Done, Erased)
  <1> DEFINE a == Spot({}, r, {})
             set    == Do("tls", r)
             unset  == Do("tls", NoRoom)
             early  == set \o Lookup(r) \o unset
             played == set \o Lookup(r) \o Engine(EngineOf(r)) \o log_server_activity \o after \o unset
             refused == set \o InRooms(unset)
  <1>1. r \in Rooms \cup {NoRoom} /\ m_rooms \subseteq Rooms
    BY DEF LocksTypeOK
  <1>2. Block(Done, set, a, Erased) /\ Block(a, unset, Done, Erased)
    BY <1>1, TlsDo DEF Done
  <1>3. Block(a, Lookup(r), a, Erased) /\ Block(a, log_server_activity, a, Erased)
    BY <1>1, FreeScopes DEF Lookup
  <1>4. Block(a, Engine(EngineOf(r)), a, Erased)
    <2>1. EngineOf(r) \in Games /\ Belongs(r, EngineOf(r), Erased)
      BY <1>1, LocksAssumption DEF EngineOf, Games, Belongs, Erased
    <2> QED BY <1>1, <2>1, EngineDo
  <1>5. Block(a, InRooms(unset), Done, Erased)
    <2> DEFINE R == {"m_rooms_mutex"}
    <2>1. /\ R \in SUBSET Mutexes /\ {} \cup {"m_rooms_mutex"} = R
          /\ "m_rooms_mutex" \in Mutexes \ {}
          /\ \A o \in {} : Rank(o) < Rank("m_rooms_mutex")
      BY DEF Mutexes
    <2> HIDE DEF R
    <2>2. Block(Spot(R, r, {}), unset, Spot(R, NoRoom, {}), Erased)
      BY <1>1, <2>1, TlsDo
    <2> HIDE DEF unset
    <2> QED BY <1>1, <2>1, <2>2, BlockScope DEF InRooms, Done
  <1> HIDE DEF a, set, unset
  <1>6. Block(Done, set \o Lookup(r), a, Erased)
    BY <1>2, <1>3, BlockConcat
  <1>7. Block(Done, early, Done, Erased) /\ Block(Done, refused, Done, Erased)
    BY <1>2, <1>5, <1>6, BlockConcat
  <1>8. Block(Done, played, Done, Erased)
    <2>1. Block(Done, set \o Lookup(r) \o Engine(EngineOf(r)), a, Erased)
      BY <1>4, <1>6, BlockConcat
    <2>2. Block(Done, set \o Lookup(r) \o Engine(EngineOf(r)) \o log_server_activity, a, Erased)
      BY <1>3, <2>1, BlockConcat
    <2>3. Block(Done, set \o Lookup(r) \o Engine(EngineOf(r)) \o log_server_activity \o after, a, Erased)
      BY <2>2, BlockConcat DEF a
    <2> QED BY <1>2, <2>3, BlockConcat
  <1>9. Block(Done, << >>, Done, Erased) /\ Block(Done, Clients(<< >>), Done, Erased)
    BY FreeScopes DEF Done
  <1> DEFINE rests == {<< >>, early, played} \cup {refused : x \in {r} \cap m_rooms}
             bodies == {Clients(<< >>) \o rest : rest \in rests}
  <1>10. h \in Command(bodies)
    BY DEF Request, set, unset
  <1> HIDE DEF early, played, refused
  <1>11. \A rest \in rests : Block(Done, rest, Done, Erased)
    BY <1>7, <1>8, <1>9
  <1> HIDE DEF rests
  <1>12. \A b \in bodies : Block(Spot({}, NoRoom, {}), b, Done, Erased)
    <2>1. ASSUME NEW rest \in rests PROVE Block(Done, Clients(<< >>) \o rest, Done, Erased)
      BY <1>9, <1>11, BlockConcat
    <2> QED BY <2>1 DEF Done
  <1> HIDE DEF bodies
  <1> QED BY <1>10, <1>12, CommandBlock DEF Done

(* After a move in a room its snapshot is sent with m_rooms_mutex held.    *)
LEMMA PlayBlocks ==
    ASSUME LocksTypeOK, NEW r \in used \cup {NoRoom}, NEW h \in Move(r) \cup Jump(r)
    PROVE  Block(Done, h, Done, Erased)
  <1> DEFINE send == IF r \in m_rooms THEN broadcast_room_state(r) ELSE << >>
             R == {"m_rooms_mutex"}
  <1>1. /\ r \in Rooms \cup {NoRoom} /\ m_rooms \subseteq Rooms
        /\ R \in SUBSET Mutexes /\ {} \cup {"m_rooms_mutex"} = R
        /\ "m_rooms_mutex" \in Mutexes \ {}
        /\ \A o \in {} : Rank(o) < Rank("m_rooms_mutex")
    BY DEF LocksTypeOK, Mutexes
  <1> HIDE DEF R
  <1>2. Block(Spot(R, r, {}), send, Spot(R, r, {}), Erased)
    <2>1. CASE r \in m_rooms
      <3>1. r \in Rooms /\ r \in Arguments
        BY <1>1, <2>1 DEF Arguments, Games
      <3> QED BY <1>1, <2>1, <3>1, KeepingDo DEF broadcast_room_state
    <2>2. CASE r \notin m_rooms
      BY <1>1, <2>2, SpotType, BlockEmpty
    <2> QED BY <2>1, <2>2
  <1> HIDE DEF send
  <1>3. Block(Spot({}, r, {}), InRooms(send), Spot({}, r, {}), Erased)
    BY <1>1, <1>2, BlockScope DEF InRooms
  <1>4. Block(Spot({}, r, {}), << >>, Spot({}, r, {}), Erased)
    BY <1>1, FreeScopes
  <1>5. CASE h \in Move(r)
    <2>1. h \in Request(r, IF r = NoRoom THEN << >> ELSE InRooms(send))
      BY <1>5 DEF Move, send
    <2> QED BY <1>3, <1>4, <2>1, RequestBlock
  <1>6. CASE h \in Jump(r)
    BY <1>4, <1>6, RequestBlock DEF Jump
  <1> QED BY <1>5, <1>6

(* All handlers of the websocket thread.                                   *)
LEMMA SocketBlocks ==
    ASSUME LocksTypeOK, NEW h \in HandlersOfSockets
    PROVE  \E F \in SUBSET Rooms : /\ F \cap used = {}
                                   /\ Block(Spot({}, NoRoom, F), h, Done, Erased)
  <1>1. CASE Block(Done, h, Done, Erased)
    BY <1>1 DEF Done
  <1>2. CASE h \in CreateRoom
    <2>1. PICK r \in Rooms \ used : Block(Spot({}, NoRoom, {r}), h, Done, Erased)
      BY <1>2, CreateRoomBlock
    <2>2. {r} \in SUBSET Rooms /\ {r} \cap used = {}
      OBVIOUS
    <2> QED BY <2>1, <2>2
  <1>3. CASE h \in on_open \cup on_close
    BY <1>1, <1>3, ConnectionBlocks
  <1>4. CASE h \in Login \cup Search \cup JoinRoom
    BY <1>1, <1>4, LobbyBlocks
  <1>5. CASE \E r \in used \cup {NoRoom} : h \in Move(r) \cup Jump(r)
    BY <1>1, <1>5, PlayBlocks
  <1> QED BY <1>2, <1>3, <1>4, <1>5 DEF HandlersOfSockets

(* A turn of game_loop, up to the rooms.                                   *)
LEMMA GameLoopBlocks ==
    ASSUME NEW gone, NEW h \in game_loop
    PROVE  Block(Done, h, Done, gone)
  <1>1. /\ Block(Done, Clients(<< >>), Done, gone) /\ Block(Done, << >>, Done, gone)
        /\ Block(Done, log_server_activity, Done, gone) /\ Block(Done, UserManager, Done, gone)
    BY FreeScopes DEF Done
  <1>2. Block(Done, Engine("match"), Done, gone)
    BY EngineDo DEF Done, Games, Belongs
  <1>3. Block(Done, FindPlayers, Done, gone) /\ Block(Done, MatchOver, Done, gone)
    BY <1>1, BlockConcat DEF FindPlayers, MatchOver
  <1>4. ASSUME NEW m \in {"m_sounds_mutex", "m_rooms_mutex"}, NEW op \in {"take", "copy"}
        PROVE  Block(Done, Scope(m, Do(op, NoRoom)), Done, gone)
    <2> DEFINE R == {m}
    <2>1. /\ R \in SUBSET Mutexes /\ {} \cup {m} = R /\ m \in Mutexes \ {}
          /\ \A o \in {} : Rank(o) < Rank(m)
      BY DEF Mutexes
    <2> HIDE DEF R
    <2>2. NoRoom \in Arguments
      BY DEF Arguments
    <2>3. Block(Spot(R, NoRoom, {}), Do(op, NoRoom), Spot(R, NoRoom, {}), gone)
      BY <2>1, <2>2, KeepingDo
    <2> QED BY <2>1, <2>3, BlockScope DEF Done
  <1>5. Block(Done, broadcast_state, Done, gone)
    BY <1>1, <1>4, BlockConcat DEF broadcast_state
  <1>6. Block(Done, InRooms(Do("copy", NoRoom)), Done, gone)
    BY <1>4 DEF InRooms
  <1>7. PICK over \in {<< >>, FindPlayers, MatchOver} :
             h = process_matchmaking \o Engine("match") \o over \o broadcast_state
                     \o InRooms(Do("copy", NoRoom))
    BY DEF game_loop
  <1>8. Block(Done, process_matchmaking \o Engine("match"), Done, gone) /\ Block(Done, over, Done, gone)
    BY <1>1, <1>2, <1>3, BlockConcat DEF process_matchmaking
  <1>9. Block(Done, process_matchmaking \o Engine("match") \o over \o broadcast_state, Done, gone)
    <2>1. Block(Done, process_matchmaking \o Engine("match") \o over, Done, gone)
      BY <1>8, BlockConcat
    <2> QED BY <1>5, <2>1, BlockConcat
  <1> QED BY <1>6, <1>7, <1>9, BlockConcat

(* The turn of a room.                                                     *)
LEMMA RoomTurnBlocks ==
    ASSUME NEW gone, NEW r \in Rooms, NEW h \in RoomTurn(r)
    PROVE  Block(Done, h, Done, gone)
  <1>1. /\ Block(Done, << >>, Done, gone)
        /\ Block(Done, log_server_activity, Done, gone) /\ Block(Done, UserManager, Done, gone)
    BY FreeScopes DEF Done
  <1>2. Block(Done, UpdateOf(r), Done, gone)
    <2>1. Block(Done, Do("tls", r), Spot({}, r, {}), gone)
          /\ Block(Spot({}, r, {}), Do("tls", NoRoom), Done, gone)
      BY TlsDo DEF Done
    <2>2. Block(Spot({}, r, {}), Engine(r), Spot({}, r, {}), gone)
      BY EngineDo DEF Games, Belongs
    <2>3. Block(Done, Do("tls", r) \o Engine(r), Spot({}, r, {}), gone)
      BY <2>1, <2>2, BlockConcat
    <2> QED BY <2>1, <2>3, BlockConcat DEF UpdateOf
  <1>3. /\ Block(Done, Do("forfeit", r), Done, gone)
        /\ Block(Done, broadcast_room_state(r), Done, gone)
    <2>1. r \in Arguments
      BY DEF Arguments, Games
    <2> QED BY <2>1, KeepingDo DEF Done, broadcast_room_state
  <1>4. PICK forfeit \in {<< >>, Forfeit(r)}, over \in {<< >>, RoomOver} : h = TurnOf(r, forfeit, over)
    BY DEF RoomTurn
  <1>5. Block(Done, forfeit, Done, gone)
    <2>1. Block(Done, set_game_over \o Do("forfeit", r), Done, gone)
      BY <1>1, <1>3, BlockConcat DEF set_game_over
    <2>2. Block(Done, Forfeit(r), Done, gone)
      BY <1>1, <2>1, BlockConcat DEF Forfeit
    <2> QED BY <1>1, <1>4, <2>2
  <1>6. Block(Done, over, Done, gone)
    <2>1. Block(Done, RoomOver, Done, gone)
      BY <1>1, BlockConcat DEF RoomOver
    <2> QED BY <1>1, <1>4, <2>1
  <1>7. Block(Done, UpdateOf(r) \o forfeit \o over, Done, gone)
    <2>1. Block(Done, UpdateOf(r) \o forfeit, Done, gone)
      BY <1>2, <1>5, BlockConcat
    <2> QED BY <1>6, <2>1, BlockConcat
  <1> QED BY <1>3, <1>4, <1>7, BlockConcat DEF TurnOf

(* rooms_copy: a turn for each room, at the end of the turn of the loop.   *)
LEMMA TurnsBlock ==
    ASSUME NEW gone, NEW S \in SUBSET Rooms
    PROVE  Block(Done, [i \in DOMAIN SetToSeq(S) |-> [op |-> "turn", arg |-> SetToSeq(S)[i]]],
                 Done, gone)
  <1> DEFINE n == Cardinality(S)
             copy == SetToSeq(S)
  <1>1. IsFiniteSet(S)
    BY FS_Subset, LocksAssumption
  <1>2. n \in Nat /\ ExistsBijection(1 .. n, S)
    BY <1>1, FS_CardinalityType
  <1>3. \E f \in [1 .. n -> S] : IsInjective(f)
    BY <1>2 DEF ExistsBijection, Bijection, Injection
  <1>4. copy \in [1 .. n -> S]
    BY <1>3 DEF SetToSeq
  <1> HIDE DEF n, copy
  <1> DEFINE turns == [i \in DOMAIN copy |-> [op |-> "turn", arg |-> copy[i]]]
             h == [i \in 1 .. n + 1 |-> Done]
  <1>5. \A r \in Rooms : [op |-> "turn", arg |-> r] \in Instruction
    BY DEF Instruction, Operations, Arguments, Games
  <1>6. DOMAIN copy = 1 .. n /\ \A i \in 1 .. n : copy[i] \in Rooms
    BY <1>4
  <1>7. turns \in [1 .. n -> Instruction]
    BY <1>5, <1>6
  <1>8. \A i \in 1 .. n : turns[i] = [op |-> "turn", arg |-> copy[i]]
    BY <1>6
  <1> HIDE DEF turns
  <1>9. turns \in Seq(Instruction) /\ Len(turns) = n
    BY <1>2, <1>7 DEF n
  <1>10. Done \in Point
    BY SpotType DEF Done
  <1>11. \A r \in Rooms : Follows(Done, [op |-> "turn", arg |-> r], Done, gone)
    BY DEF Follows
  <1>12. h \in [1 .. n + 1 -> Point] /\ \A i \in 1 .. n + 1 : h[i] = Done
    BY <1>10
  <1> HIDE DEF h
  <1>13. h[1] = Done /\ h[n + 1] = Done /\ \A i \in 1 .. n : h[i] = Done /\ h[i + 1] = Done
    BY <1>2, <1>12 DEF n
  <1>14. \A i \in 1 .. n : Follows(h[i], turns[i], h[i + 1], gone)
    BY <1>6, <1>8, <1>11, <1>13
  <1>15. Outline(Done, turns, Done, gone)
    BY <1>9, <1>12, <1>13, <1>14 DEF Outline
  <1> QED BY <1>9, <1>15 DEF Block, turns, copy

-----------------------------------------------------------------------------
(* Steps of the threads.                                                   *)

(* The next instruction of a thread fits where the thread is.              *)
LEMMA FirstStep ==
    ASSUME NEW t \in Threads, ThreadOK(t), code[t] # << >>
    PROVE  \E F \in SUBSET Rooms, c \in Point :
              /\ F \cap used = {} /\ (t = "game" => F = {})
              /\ Follows(Spot(Held(t), tls_current_room_id[t], F), Head(code[t]), c, Erased)
              /\ Block(c, Tail(code[t]), Done, Erased)
  <1>1. PICK F \in SUBSET Rooms :
             /\ F \cap used = {} /\ (t = "game" => F = {})
             /\ Block(Spot(Held(t), tls_current_room_id[t], F), code[t], Done, Erased)
    BY DEF ThreadOK
  <1> QED BY <1>1, BlockFirst

(* A thread goes on with code s, at the end of which it is at point c.     *)
LEMMA GoesOn ==
    ASSUME LocksTypeOK, \A u \in Threads : ThreadOK(u),
           NEW t \in Threads, NEW s, NEW c, NEW G \in SUBSET Rooms, Goto(t, s),
           G \cap used' = {}, t = "game" => G = {},
           Block(Spot(Held(t)', tls_current_room_id'[t], G), s, c, Erased),
           Block(c, Tail(code[t]), Done, Erased),
           Erased \subseteq Erased', used' = used \/ t = "websocket",
           \A u \in Threads \ {t} : /\ Held(u)' = Held(u)
                                    /\ tls_current_room_id'[u] = tls_current_room_id[u]
    PROVE  code' \in [Threads -> Seq(Instruction)] /\ \A u \in Threads : ThreadOK(u)'
  <1> DEFINE rest == Tail(code[t])
  <1>1. code' = [code EXCEPT ![t] = s \o rest] /\ code \in [Threads -> Seq(Instruction)]
    BY DEF Goto, LocksTypeOK
  <1>2. Block(Spot(Held(t)', tls_current_room_id'[t], G), s \o rest, Done, Erased)
    BY BlockConcat
  <1>3. Block(Spot(Held(t)', tls_current_room_id'[t], G), s \o rest, Done, Erased')
    BY <1>2, BlockGrows
  <1>4. s \o rest \in Seq(Instruction)
    BY <1>2 DEF Block
  <1> HIDE DEF rest
  <1>5. /\ code' \in [Threads -> Seq(Instruction)] /\ code'[t] = s \o rest
        /\ \A u \in Threads \ {t} : code'[u] = code[u]
    BY <1>1, <1>4
  <1>6. ThreadOK(t)'
    BY <1>3, <1>5 DEF ThreadOK
  <1>7. ASSUME NEW u \in Threads \ {t} PROVE ThreadOK(u)'
    <2>1. PICK F \in SUBSET Rooms :
               /\ F \cap used = {} /\ (u = "game" => F = {})
               /\ Block(Spot(Held(u), tls_current_room_id[u], F), code[u], Done, Erased)
      BY DEF ThreadOK
    <2>2. F \cap used' = {}
      BY <1>7, <2>1 DEF Threads
    <2>3. Block(Spot(Held(u), tls_current_room_id[u], F), code[u], Done, Erased')
      BY <2>1, BlockGrows
    <2> QED BY <1>5, <2>1, <2>2, <2>3 DEF ThreadOK
  <1> QED BY <1>5, <1>6, <1>7

(* A mutex changes hands between one thread and nobody.                    *)
LEMMA LockInv ==
    ASSUME LocksInv, NEW t \in Threads, Lock(t) \/ Unlock(t)
    PROVE  LocksInv'
  <1> DEFINE x == Head(code[t])
             r == tls_current_room_id[t]
  <1>1. /\ LocksTypeOK /\ \A u \in Threads : ThreadOK(u) /\ SoundsStayInTheirGame
        /\ code[t] # << >> /\ Goto(t, << >>)
        /\ UNCHANGED << tls_current_room_id, m_rooms, used, m_pending_sounds, pending_sounds >>
    BY DEF LocksInv, Lock, Unlock, At
  <1>2. PICK F \in SUBSET Rooms, c \in Point :
             /\ F \cap used = {} /\ (t = "game" => F = {})
             /\ Follows(Spot(Held(t), r, F), x, c, Erased)
             /\ Block(c, Tail(code[t]), Done, Erased)
    BY <1>1, FirstStep
  <1>3. owner \in [Mutexes -> Threads \cup {NoThread}] /\ NoThread \notin Threads
    BY <1>1, LocksAssumption DEF LocksTypeOK
  <1>4. /\ x.arg \in Mutexes
        /\ \A u \in Threads \ {t} : Held(u)' = Held(u)
        /\ owner' \in [Mutexes -> Threads \cup {NoThread}]
        /\ c = Spot(Held(t)', r, F)
    <2>1. CASE Lock(t)
      <3>1. x.op = "lock" /\ owner[x.arg] = NoThread /\ owner' = [owner EXCEPT ![x.arg] = t]
        BY <2>1 DEF Lock, At, Arg
      <3> HIDE DEF x
      <3>2. x.arg \in Mutexes /\ c = Spot(Held(t) \cup {x.arg}, r, F)
        BY <1>2, <3>1 DEF Follows, Spot
      <3>3. Held(t)' = Held(t) \cup {x.arg} /\ \A u \in Threads \ {t} : Held(u)' = Held(u)
        BY <1>3, <3>1, <3>2 DEF Held
      <3> QED BY <1>3, <3>1, <3>2, <3>3
    <2>2. CASE Unlock(t)
      <3>1. x.op = "unlock" /\ owner' = [owner EXCEPT ![x.arg] = NoThread]
        BY <2>2 DEF Unlock, At, Arg
      <3> HIDE DEF x
      <3>2. x.arg \in Held(t) /\ c = Spot(Held(t) \ {x.arg}, r, F)
        BY <1>2, <3>1 DEF Follows, Spot
      <3>3. x.arg \in Mutexes /\ owner[x.arg] = t
        BY <3>2 DEF Held
      <3>4. Held(t)' = Held(t) \ {x.arg} /\ \A u \in Threads \ {t} : Held(u)' = Held(u)
        BY <1>3, <3>1, <3>3 DEF Held
      <3> QED BY <1>3, <3>1, <3>2, <3>3, <3>4
    <2> QED BY <2>1, <2>2
  <1>5. Block(Spot(Held(t)', tls_current_room_id'[t], F), << >>, c, Erased)
    BY <1>1, <1>4, BlockEmpty
  <1>6. Erased' = Erased
    BY <1>1 DEF Erased
  <1>7. code' \in [Threads -> Seq(Instruction)] /\ \A u \in Threads : ThreadOK(u)'
    BY <1>1, <1>2, <1>4, <1>5, <1>6, GoesOn
  <1>8. LocksTypeOK' /\ SoundsStayInTheirGame'
    BY <1>1, <1>4, <1>7 DEF LocksTypeOK, SoundsStayInTheirGame
  <1> QED BY <1>7, <1>8 DEF LocksInv

(* An instruction that leaves the thread where it is.                      *)
LEMMA StaysInv ==
    ASSUME LocksInv, NEW t \in Threads, code[t] # << >>,
           Head(code[t]).op \in {"push", "forfeit", "clear", "take", "erase"}, Goto(t, << >>),
           UNCHANGED << owner, tls_current_room_id, used >>, m_rooms' \in SUBSET m_rooms,
           pending_sounds' \in [Rooms -> SUBSET Games],
           SoundsStayInTheirGame'
    PROVE  LocksInv'
  <1> DEFINE x == Head(code[t])
             a(F) == Spot(Held(t), tls_current_room_id[t], F)
  <1>1. LocksTypeOK /\ \A u \in Threads : ThreadOK(u)
    BY DEF LocksInv
  <1>2. PICK F \in SUBSET Rooms, c \in Point :
             /\ F \cap used = {} /\ (t = "game" => F = {})
             /\ Follows(a(F), x, c, Erased)
             /\ Block(c, Tail(code[t]), Done, Erased)
    BY <1>1, FirstStep
  <1> HIDE DEF x
  <1>3. c = a(F)
    BY <1>2 DEF Follows, x
  <1>4. /\ Erased \subseteq Erased' /\ \A u \in Threads : Held(u)' = Held(u)
    BY DEF Erased, Held
  <1>5. Block(Spot(Held(t)', tls_current_room_id'[t], F), << >>, c, Erased)
    BY <1>3, <1>4, BlockEmpty
  <1>6. code' \in [Threads -> Seq(Instruction)] /\ \A u \in Threads : ThreadOK(u)'
    BY <1>1, <1>2, <1>4, <1>5, GoesOn
  <1>7. LocksTypeOK'
    BY <1>1, <1>6 DEF LocksTypeOK
  <1> QED BY <1>6, <1>7 DEF LocksInv

(* A sound is pushed for the room of its game, or dropped with it.         *)
LEMMA PushInv ==
    ASSUME LocksInv, NEW t \in Threads, Push(t)
    PROVE  LocksInv'
  <1> DEFINE x == Head(code[t])
  <1>1. /\ LocksTypeOK /\ ThreadOK(t) /\ SoundsStayInTheirGame
        /\ code[t] # << >> /\ x.op = "push" /\ Goto(t, << >>)
        /\ UNCHANGED << owner, tls_current_room_id, m_rooms, used >>
    BY DEF LocksInv, Push, At
  <1>2. PICK F \in SUBSET Rooms, c \in Point :
             Follows(Spot(Held(t), tls_current_room_id[t], F), x, c, Erased)
    BY <1>1, FirstStep
  <1>3. Belongs(x.arg[1], x.arg[2], Erased)
    BY <1>1, <1>2 DEF Follows
  <1>4. /\ pending_sounds \in [Rooms -> SUBSET Games] /\ m_rooms \subseteq Rooms
        /\ \/ /\ x.arg[1] = NoRoom
              /\ m_pending_sounds' = m_pending_sounds \cup {x.arg[2]} /\ UNCHANGED pending_sounds
           \/ /\ x.arg[1] # NoRoom /\ UNCHANGED m_pending_sounds
              /\ pending_sounds' = [q \in Rooms |-> IF q = x.arg[1] /\ x.arg[1] \in m_rooms
                                                    THEN pending_sounds[q] \cup {x.arg[2]}
                                                    ELSE pending_sounds[q]]
    BY <1>1 DEF Push, Arg, LocksTypeOK
  <1> HIDE DEF x
  <1>5. SoundsStayInTheirGame' /\ pending_sounds' \in [Rooms -> SUBSET Games]
    <2> DEFINE q == x.arg[1]
               g == x.arg[2]
    <2>1. CASE q = NoRoom
      <3>1. g = "match"
        BY <1>3, <2>1, LocksAssumption DEF Belongs
      <3> QED BY <1>1, <1>4, <2>1, <3>1 DEF SoundsStayInTheirGame
    <2>2. CASE q # NoRoom
      <3>1. q \in m_rooms => g = q /\ g \in Games
        BY <1>3, <1>4, <2>2 DEF Belongs, Erased, Games
      <3>2. /\ UNCHANGED m_pending_sounds
            /\ pending_sounds' = [y \in Rooms |-> IF y = q /\ q \in m_rooms
                                                  THEN pending_sounds[y] \cup {g}
                                                  ELSE pending_sounds[y]]
        BY <1>4, <2>2
      <3> HIDE DEF q, g
      <3>3. ASSUME NEW y \in Rooms
            PROVE  pending_sounds'[y] \subseteq {y} /\ pending_sounds'[y] \in SUBSET Games
        <4>1. pending_sounds[y] \subseteq {y} /\ pending_sounds[y] \in SUBSET Games
          BY <1>1, <1>4 DEF SoundsStayInTheirGame
        <4>2. CASE y = q /\ q \in m_rooms
          BY <3>1, <3>2, <4>1, <4>2
        <4>3. CASE ~(y = q /\ q \in m_rooms)
          BY <3>2, <4>1, <4>3
        <4> QED BY <4>2, <4>3
      <3> QED BY <1>1, <3>2, <3>3 DEF SoundsStayInTheirGame
    <2> QED BY <2>1, <2>2
  <1> QED BY <1>1, <1>5, StaysInv DEF x

(* The accesses to sounds without a lock, and the erasure of rooms.        *)
LEMMA AccessInv ==
    ASSUME LocksInv, NEW t \in Threads,
           PushUnlocked(t) \/ Clear(t) \/ Take(t) \/ EraseRooms(t)
    PROVE  LocksInv'
  <1> DEFINE x == Head(code[t])
  <1>1. /\ LocksTypeOK /\ ThreadOK(t) /\ SoundsStayInTheirGame
        /\ code[t] # << >> /\ x.op \in {"forfeit", "clear", "take", "erase"} /\ Goto(t, << >>)
        /\ UNCHANGED << owner, tls_current_room_id, used >> /\ m_rooms' \in SUBSET m_rooms
    BY DEF LocksInv, PushUnlocked, Clear, Take, EraseRooms, At, LocksTypeOK
  <1>2. PICK F \in SUBSET Rooms, c \in Point :
             Follows(Spot(Held(t), tls_current_room_id[t], F), x, c, Erased)
    BY <1>1, FirstStep
  <1>3. x.op \in {"forfeit", "clear"} => x.arg \in Rooms
    BY <1>2 DEF Follows
  <1>4. pending_sounds \in [Rooms -> SUBSET Games]
    BY <1>1 DEF LocksTypeOK
  <1>5. SoundsStayInTheirGame' /\ pending_sounds' \in [Rooms -> SUBSET Games]
    <2>1. CASE PushUnlocked(t)
      BY <1>1, <1>3, <1>4, <2>1 DEF PushUnlocked, At, Arg, SoundsStayInTheirGame, Games
    <2>2. CASE Clear(t)
      BY <1>1, <1>3, <1>4, <2>2 DEF Clear, At, Arg, SoundsStayInTheirGame
    <2>3. CASE Take(t) \/ EraseRooms(t)
      BY <1>1, <1>4, <2>3 DEF Take, EraseRooms, SoundsStayInTheirGame
    <2> QED BY <2>1, <2>2, <2>3
  <1> QED BY <1>1, <1>5, StaysInv

(* tls_current_room_id is set or unset.                                    *)
LEMMA SetRoomInv ==
    ASSUME LocksInv, NEW t \in Threads, SetRoom(t)
    PROVE  LocksInv'
  <1> DEFINE x == Head(code[t])
  <1>1. /\ LocksTypeOK /\ \A u \in Threads : ThreadOK(u) /\ SoundsStayInTheirGame
        /\ code[t] # << >> /\ x.op = "tls" /\ Goto(t, << >>)
        /\ tls_current_room_id' = [tls_current_room_id EXCEPT ![t] = x.arg]
        /\ UNCHANGED << owner, m_rooms, used, m_pending_sounds, pending_sounds >>
    BY DEF LocksInv, SetRoom, At, Arg
  <1>2. PICK F \in SUBSET Rooms, c \in Point :
             /\ F \cap used = {} /\ (t = "game" => F = {})
             /\ Follows(Spot(Held(t), tls_current_room_id[t], F), x, c, Erased)
             /\ Block(c, Tail(code[t]), Done, Erased)
    BY <1>1, FirstStep
  <1> HIDE DEF x
  <1>3. c = Spot(Held(t), x.arg, F) /\ x.arg \in Rooms \cup {NoRoom}
    BY <1>1, <1>2 DEF Follows, Spot
  <1>4. /\ tls_current_room_id' \in [Threads -> Rooms \cup {NoRoom}]
        /\ tls_current_room_id'[t] = x.arg
        /\ \A u \in Threads \ {t} : tls_current_room_id'[u] = tls_current_room_id[u]
    BY <1>1, <1>3 DEF LocksTypeOK
  <1>5. Erased' = Erased /\ \A u \in Threads : Held(u)' = Held(u)
    BY <1>1 DEF Erased, Held
  <1>6. Block(Spot(Held(t)', tls_current_room_id'[t], F), << >>, c, Erased)
    BY <1>3, <1>4, <1>5, BlockEmpty
  <1>7. code' \in [Threads -> Seq(Instruction)] /\ \A u \in Threads : ThreadOK(u)'
    BY <1>1, <1>2, <1>4, <1>5, <1>6, GoesOn
  <1>8. LocksTypeOK' /\ SoundsStayInTheirGame'
    BY <1>1, <1>4, <1>7 DEF LocksTypeOK, SoundsStayInTheirGame
  <1> QED BY <1>7, <1>8 DEF LocksInv

(* A room is added under an id that no room has had.                       *)
LEMMA AddRoomInv ==
    ASSUME LocksInv, NEW t \in Threads, AddRoom(t)
    PROVE  LocksInv'
  <1> DEFINE x == Head(code[t])
  <1>1. /\ LocksTypeOK /\ \A u \in Threads : ThreadOK(u) /\ SoundsStayInTheirGame
        /\ code[t] # << >> /\ x.op = "add" /\ Goto(t, << >>)
        /\ m_rooms' = m_rooms \cup {x.arg} /\ used' = used \cup {x.arg}
        /\ UNCHANGED << owner, tls_current_room_id, m_pending_sounds, pending_sounds >>
    BY DEF LocksInv, AddRoom, At, Arg
  <1>2. PICK F \in SUBSET Rooms, c \in Point :
             /\ F \cap used = {} /\ (t = "game" => F = {})
             /\ Follows(Spot(Held(t), tls_current_room_id[t], F), x, c, Erased)
             /\ Block(c, Tail(code[t]), Done, Erased)
    BY <1>1, FirstStep
  <1> HIDE DEF x
  <1> DEFINE G == F \ {x.arg}
  <1>3. c = Spot(Held(t), tls_current_room_id[t], G) /\ x.arg \in F
    BY <1>1, <1>2 DEF Follows, Spot
  <1>4. t = "websocket"
    BY <1>2, <1>3 DEF Threads
  <1>5. /\ Erased \subseteq Erased' /\ G \in SUBSET Rooms /\ G \cap used' = {}
        /\ \A u \in Threads : Held(u)' = Held(u)
    BY <1>1, <1>2, <1>3 DEF Erased, Held
  <1> HIDE DEF G
  <1>6. Block(Spot(Held(t)', tls_current_room_id'[t], G), << >>, c, Erased)
    BY <1>1, <1>3, <1>5, BlockEmpty
  <1>7. code' \in [Threads -> Seq(Instruction)] /\ \A u \in Threads : ThreadOK(u)'
    BY <1>1, <1>2, <1>4, <1>5, <1>6, GoesOn
  <1>8. LocksTypeOK' /\ SoundsStayInTheirGame'
    BY <1>1, <1>2, <1>3, <1>7 DEF LocksTypeOK, SoundsStayInTheirGame
  <1> QED BY <1>7, <1>8 DEF LocksInv

(* A thread goes on with code that brings it back to where it is.          *)
LEMMA CallInv ==
    ASSUME LocksInv, NEW t \in Threads, code[t] # << >>, NEW s, Goto(t, s),
           UNCHANGED << owner, tls_current_room_id, m_rooms, used, m_pending_sounds, pending_sounds >>,
           Head(code[t]).op \in {"publish", "turn"},
           \A F \in SUBSET Rooms, c \in Point :
              Follows(Spot(Held(t), tls_current_room_id[t], F), Head(code[t]), c, Erased) =>
                 Block(c, s, c, Erased)
    PROVE  LocksInv'
  <1> DEFINE x == Head(code[t])
             a(F) == Spot(Held(t), tls_current_room_id[t], F)
  <1>1. LocksTypeOK /\ \A u \in Threads : ThreadOK(u) /\ SoundsStayInTheirGame
    BY DEF LocksInv
  <1>2. PICK F \in SUBSET Rooms, c \in Point :
             /\ F \cap used = {} /\ (t = "game" => F = {})
             /\ Follows(a(F), x, c, Erased)
             /\ Block(c, Tail(code[t]), Done, Erased)
    BY <1>1, FirstStep
  <1>3. Block(c, s, c, Erased)
    BY <1>2
  <1>4. c = a(F)
    BY <1>2 DEF Follows
  <1>5. Erased' = Erased /\ \A u \in Threads : Held(u)' = Held(u)
    BY DEF Erased, Held
  <1>6. Block(Spot(Held(t)', tls_current_room_id'[t], F), s, c, Erased)
    BY <1>3, <1>4, <1>5
  <1>7. code' \in [Threads -> Seq(Instruction)] /\ \A u \in Threads : ThreadOK(u)'
    BY <1>1, <1>2, <1>5, <1>6, GoesOn
  <1>8. LocksTypeOK' /\ SoundsStayInTheirGame'
    BY <1>1, <1>7 DEF LocksTypeOK, SoundsStayInTheirGame
  <1> QED BY <1>7, <1>8 DEF LocksInv

(* The engine publishes: nothing is held, and the room is the engine's.    *)
LEMMA PublishInv ==
    ASSUME LocksInv, NEW t \in Threads, Publish(t)
    PROVE  LocksInv'
  <1> DEFINE x == Head(code[t])
             r == tls_current_room_id[t]
  <1>1. PICK sound \in BOOLEAN : Goto(t, IF sound THEN Subscriber(r, x.arg) ELSE << >>)
    BY DEF Publish, Arg
  <1> DEFINE s == IF sound THEN Subscriber(r, x.arg) ELSE << >>
  <1>2. ASSUME NEW F \in SUBSET Rooms, NEW c \in Point, Follows(Spot(Held(t), r, F), x, c, Erased)
        PROVE  Block(c, s, c, Erased)
    <2>1. x.op = "publish"
      BY DEF Publish, At
    <2> HIDE DEF x
    <2>2. Held(t) = {} /\ Belongs(r, x.arg, Erased) /\ c = Spot({}, r, F)
      BY <1>2, <2>1 DEF Follows, Spot
    <2>3. r \in Rooms \cup {NoRoom} /\ x.arg \in Games
      BY <2>2 DEF LocksInv, LocksTypeOK, Belongs, Games
    <2>4. Block(c, Subscriber(r, x.arg), c, Erased)
      BY <2>2, <2>3, SubscriberBlock
    <2> QED BY <2>4, BlockEmpty
  <1>3. /\ code[t] # << >> /\ x.op = "publish"
        /\ UNCHANGED << owner, tls_current_room_id, m_rooms, used, m_pending_sounds, pending_sounds >>
    BY DEF Publish, At
  <1> HIDE DEF s
  <1>4. Goto(t, s)
    BY <1>1 DEF s
  <1> QED BY <1>2, <1>3, <1>4, CallInv

(* A room has its turn.                                                    *)
LEMMA TakeTurnInv ==
    ASSUME LocksInv, NEW t \in Threads, TakeTurn(t)
    PROVE  LocksInv'
  <1> DEFINE x == Head(code[t])
  <1>1. PICK turn \in RoomTurn(x.arg) : Goto(t, turn)
    BY DEF TakeTurn, Arg
  <1>2. /\ code[t] # << >> /\ x.op = "turn"
        /\ UNCHANGED << owner, tls_current_room_id, m_rooms, used, m_pending_sounds, pending_sounds >>
    BY DEF TakeTurn, At
  <1>3. ASSUME NEW F \in SUBSET Rooms, NEW c \in Point,
               Follows(Spot(Held(t), tls_current_room_id[t], F), x, c, Erased)
        PROVE  Block(c, turn, c, Erased)
    <2>1. x.arg \in Rooms /\ c = Done
      BY <1>2, <1>3 DEF Follows
    <2> QED BY <1>1, <2>1, RoomTurnBlocks
  <1> QED BY <1>1, <1>2, <1>3, CallInv

(* rooms_copy is taken; the turns come after the rest of the code.         *)
LEMMA CopyRoomsInv ==
    ASSUME LocksInv, NEW t \in Threads, CopyRooms(t)
    PROVE  LocksInv'
  <1> DEFINE x == Head(code[t])
             a(F) == Spot(Held(t), tls_current_room_id[t], F)
             turns == [i \in DOMAIN SetToSeq(m_rooms) |-> [op |-> "turn", arg |-> SetToSeq(m_rooms)[i]]]
  <1>1. /\ LocksTypeOK /\ \A u \in Threads : ThreadOK(u) /\ SoundsStayInTheirGame
        /\ code[t] # << >> /\ x.op = "copy"
        /\ code' = [code EXCEPT ![t] = Tail(code[t]) \o turns]
        /\ UNCHANGED << owner, tls_current_room_id, m_rooms, used, m_pending_sounds, pending_sounds >>
    BY DEF LocksInv, CopyRooms, At
  <1>2. Block(Done, turns, Done, Erased)
    <2>1. m_rooms \in SUBSET Rooms
      BY <1>1 DEF LocksTypeOK
    <2> QED BY <2>1, TurnsBlock
  <1> HIDE DEF turns
  <1>3. PICK F \in SUBSET Rooms, c \in Point :
             /\ F \cap used = {} /\ (t = "game" => F = {})
             /\ Follows(a(F), x, c, Erased)
             /\ Block(c, Tail(code[t]), Done, Erased)
    BY <1>1, FirstStep
  <1>4. c = a(F)
    BY <1>1, <1>3 DEF Follows
  <1>5. Block(a(F), Tail(code[t]) \o turns, Done, Erased)
    BY <1>2, <1>3, <1>4, BlockConcat
  <1>6. Tail(code[t]) \o turns \in Seq(Instruction)
    BY <1>5 DEF Block
  <1>7. Erased' = Erased /\ \A u \in Threads : Held(u)' = Held(u)
    BY <1>1 DEF Erased, Held
  <1>8. /\ code' \in [Threads -> Seq(Instruction)] /\ code'[t] = Tail(code[t]) \o turns
        /\ \A u \in Threads \ {t} : code'[u] = code[u]
    BY <1>1, <1>6 DEF LocksTypeOK
  <1>9. ThreadOK(t)'
    BY <1>1, <1>3, <1>5, <1>7, <1>8 DEF ThreadOK
  <1>10. ASSUME NEW u \in Threads \ {t} PROVE ThreadOK(u)'
    BY <1>1, <1>7, <1>8 DEF ThreadOK
  <1>11. LocksTypeOK' /\ SoundsStayInTheirGame'
    BY <1>1, <1>8 DEF LocksTypeOK, SoundsStayInTheirGame
  <1> QED BY <1>9, <1>10, <1>11 DEF LocksInv

(* A thread that has nothing to do begins a handler: it holds nothing and  *)
(* works for no room.                                                      *)
LEMMA EnterInv ==
    ASSUME LocksInv, NEW t \in Threads, NEW h, Enter(t, h),
           NEW F \in SUBSET Rooms, F \cap used = {}, t = "game" => F = {},
           Block(Spot({}, NoRoom, F), h, Done, Erased)
    PROVE  LocksInv'
  <1>1. /\ LocksTypeOK /\ \A u \in Threads : ThreadOK(u) /\ SoundsStayInTheirGame
        /\ code[t] = << >> /\ code' = [code EXCEPT ![t] = h]
        /\ UNCHANGED << owner, tls_current_room_id, m_rooms, used, m_pending_sounds, pending_sounds >>
    BY DEF LocksInv, Enter
  <1>2. Held(t) = {} /\ tls_current_room_id[t] = NoRoom
    <2>1. PICK G \in SUBSET Rooms :
               Block(Spot(Held(t), tls_current_room_id[t], G), code[t], Done, Erased)
      BY <1>1 DEF ThreadOK
    <2>2. Len(<< >>) = 0
      OBVIOUS
    <2>3. Spot(Held(t), tls_current_room_id[t], G) = Done
      BY <1>1, <2>1, <2>2 DEF Block, Outline
    <2> QED BY <2>3 DEF Spot, Done
  <1>3. h \in Seq(Instruction)
    BY DEF Block
  <1>4. Erased' = Erased /\ \A u \in Threads : Held(u)' = Held(u)
    BY <1>1 DEF Erased, Held
  <1>5. /\ code' \in [Threads -> Seq(Instruction)] /\ code'[t] = h
        /\ \A u \in Threads \ {t} : code'[u] = code[u]
    BY <1>1, <1>3 DEF LocksTypeOK
  <1>6. ThreadOK(t)'
    BY <1>1, <1>2, <1>4, <1>5 DEF ThreadOK
  <1>7. ASSUME NEW u \in Threads \ {t} PROVE ThreadOK(u)'
    BY <1>1, <1>4, <1>5 DEF ThreadOK
  <1>8. LocksTypeOK' /\ SoundsStayInTheirGame'
    BY <1>1, <1>5 DEF LocksTypeOK, SoundsStayInTheirGame
  <1> QED BY <1>6, <1>7, <1>8 DEF LocksInv

-----------------------------------------------------------------------------
(* Nothing is held and nothing is pending.                                 *)
LEMMA LocksStart == Init => LocksInv
  <1> SUFFICES ASSUME Init PROVE LocksInv
    OBVIOUS
  <1>1. << >> \in Seq(Instruction)
    BY EmptySeq
  <1>2. LocksTypeOK
    BY <1>1 DEF Init, LocksTypeOK
  <1>3. ASSUME NEW t \in Threads PROVE ThreadOK(t)
    <2>1. Held(t) = {} /\ tls_current_room_id[t] = NoRoom /\ code[t] = << >> /\ used = {}
      BY LocksAssumption DEF Init, Held
    <2>2. Block(Done, << >>, Done, Erased)
      BY SpotType, BlockEmpty DEF Done
    <2> QED BY <2>1, <2>2 DEF ThreadOK, Done
  <1>4. SoundsStayInTheirGame
    BY DEF Init, SoundsStayInTheirGame
  <1> QED BY <1>2, <1>3, <1>4 DEF LocksInv

(* Every handler that begins and every instruction of every thread.        *)
LEMMA LocksStep == LocksInv /\ [Next]_vars => LocksInv'
  <1> SUFFICES ASSUME LocksInv, [Next]_vars PROVE LocksInv'
    OBVIOUS
  <1>1. ASSUME NEW h \in HandlersOfSockets, Enter("websocket", h) PROVE LocksInv'
    <2>1. PICK F \in SUBSET Rooms : F \cap used = {} /\ Block(Spot({}, NoRoom, F), h, Done, Erased)
      BY SocketBlocks DEF LocksInv
    <2>2. "websocket" \in Threads /\ "websocket" # "game"
      BY DEF Threads
    <2> QED BY <1>1, <2>1, <2>2, EnterInv
  <1>2. ASSUME NEW h \in game_loop, Enter("game", h) PROVE LocksInv'
    <2>1. Block(Spot({}, NoRoom, {}), h, Done, Erased)
      BY GameLoopBlocks DEF Done
    <2>2. "game" \in Threads
      BY DEF Threads
    <2> QED BY <1>2, <2>1, <2>2, EnterInv
  <1>3. ASSUME NEW t \in Threads, Step(t) PROVE LocksInv'
    BY <1>3, LockInv, SetRoomInv, PublishInv, PushInv, AccessInv, AddRoomInv, CopyRoomsInv,
       TakeTurnInv DEF Step
  <1>4. CASE UNCHANGED vars
    <2>1. Erased' = Erased /\ \A t \in Threads : Held(t)' = Held(t)
      BY <1>4 DEF vars, Erased, Held
    <2>2. \A t \in Threads : ThreadOK(t)'
      BY <1>4, <2>1 DEF LocksInv, ThreadOK, vars
    <2> QED BY <1>4, <2>2 DEF LocksInv, LocksTypeOK, SoundsStayInTheirGame, vars
  <1> QED BY <1>1, <1>2, <1>3, <1>4 DEF Next

(* Every thread is inside its outline, in every state.                     *)
THEOREM LocksInvariant == Spec => []LocksInv
  BY LocksStart, LocksStep, PTL DEF Spec

(* A thread waits only for a mutex above all that it holds, so no two      *)
(* threads wait for each other.                                            *)
LEMMA OrderExcludesCycles == LocksInv => NoCircularWait
  <1> SUFFICES ASSUME LocksInv, NEW t \in Threads, NEW u \in WaitsFor(t)
               PROVE  u # t /\ t \notin WaitsFor(u)
    BY DEF NoCircularWait
  <1>1. ASSUME NEW v \in Threads, NEW w \in WaitsFor(v)
        PROVE  /\ Arg(v) \in Mutexes /\ w = owner[Arg(v)] /\ w \in Threads
               /\ \A m \in Held(v) : Rank(m) < Rank(Arg(v))
    <2>1. At(v, "lock") /\ owner[Arg(v)] # NoThread /\ w = owner[Arg(v)]
      BY DEF WaitsFor
    <2> DEFINE x == Head(code[v])
    <2>2. code[v] # << >> /\ x.op = "lock" /\ x.arg = Arg(v) /\ ThreadOK(v)
      BY <2>1 DEF At, Arg, LocksInv
    <2>3. PICK F \in SUBSET Rooms, c \in Point :
               Follows(Spot(Held(v), tls_current_room_id[v], F), x, c, Erased)
      BY <2>2, FirstStep
    <2> HIDE DEF x
    <2>4. x.arg \in Mutexes /\ \A m \in Held(v) : Rank(m) < Rank(x.arg)
      BY <2>2, <2>3 DEF Follows, Spot
    <2> QED BY <2>1, <2>2, <2>4 DEF LocksInv, LocksTypeOK
  <1>2. \A m \in Mutexes : Rank(m) \in Nat
    BY DEF Rank, Mutexes
  <1>3. Arg(t) \in Held(u) /\ u \in Threads
    BY <1>1 DEF Held
  <1>4. u # t
    BY <1>1, <1>2, <1>3
  <1>5. ASSUME t \in WaitsFor(u) PROVE FALSE
    <2>1. Arg(u) \in Mutexes /\ Arg(u) \in Held(t) /\ Rank(Arg(t)) < Rank(Arg(u))
      BY <1>1, <1>3, <1>5 DEF Held
    <2>2. Rank(Arg(u)) < Rank(Arg(t)) /\ Arg(t) \in Mutexes
      BY <1>1, <2>1
    <2> QED BY <1>2, <2>1, <2>2
  <1> QED BY <1>4, <1>5

(* The websocket thread and the game thread never wait for each other.     *)
THEOREM NobodyWaitsInACircle == Spec => []NoCircularWait
  BY LocksInvariant, OrderExcludesCycles, PTL

(* A sound reaches the players of the game that made it, and nobody else.  *)
THEOREM SoundsReachTheirGame == Spec => []SoundsStayInTheirGame
  <1>1. LocksInv => SoundsStayInTheirGame
    BY DEF LocksInv
  <1> QED BY <1>1, LocksInvariant, PTL

=============================================================================
