-------------------------- MODULE UserStoreProofs --------------------------
(***************************************************************************)
(* What io::UserManager keeps for any number of users, passwords and games *)
(* (MaxGames only bounds the model), and for any text that its parser cuts *)
(* short: no result is ever counted twice, and nothing is lost before one  *)
(* of the mishaps that the model names.                                    *)
(***************************************************************************)
EXTENDS UserStore, TLAPS

(* A table that has every known user and all their wins.                   *)
Current(t) ==
    \A n \in Names : /\ n \in known => t[n] # NoUser
                     /\ t[n] # NoUser => t[n].wins = wins[n]

(* A table whose names and wins come back from the file as they are.       *)
Sane(t) ==
    \A n \in Names : t[n] # NoUser => Plain(n) /\ t[n].password \notin Braced

(* The mutex admits one writer of the file, which is a running server.     *)
OneWriter ==
    /\ ~(lpc = "writing" /\ epc = "writing")
    /\ ~up => lpc = "idle" /\ epc = "idle"

(* A login in progress is somebody's, and writes only after it has entered *)
(* its user.                                                               *)
LoginInProgress ==
    /\ lpc # "idle" => login \in Login
    /\ lpc = "writing" => m_users[login.name] # NoUser

(* Nobody wins a game before the first login.                              *)
NewcomersHaveNoWins == \A n \in Names \ known : wins[n] = 0

(* As long as nothing has gone wrong, memory is complete, the file is so   *)
(* whenever the mutex is free and has every account that memory has, both  *)
(* can be read back, and the text a login has read is the file's.          *)
Undisturbed ==
    ~mishap =>
        /\ up => Current(m_users) /\ Sane(m_users)
        /\ MutexFree => /\ Current(file) /\ Sane(file)
                        /\ up => \A n \in Names : m_users[n] # NoUser => file[n] # NoUser
        /\ lpc = "read" => json_str = file /\ epc = "idle"

IndInv ==
    /\ TypeOK
    /\ NoResultInvented
    /\ OneWriter
    /\ LoginInProgress
    /\ NewcomersHaveNoWins
    /\ Undisturbed

-----------------------------------------------------------------------------
(* A file in the middle of a write holds records of the table, or less.    *)
LEMMA TornTable ==
    ASSUME NEW t \in Table, NEW f \in Torn(t)
    PROVE  /\ f \in Table
           /\ \A n \in Names : f[n] # NoUser => f[n] = t[n]
BY DEF Torn, Table

(* Reading a record back makes a record, with the wins it had if no brace  *)
(* cut it short and with none otherwise.                                   *)
LEMMA ReadBackRecord ==
    ASSUME NEW n \in Names, NEW u \in User
    PROVE  /\ ReadBack(n, u) \in User
           /\ ReadBack(n, u).password \notin Braced
           /\ ReadBack(n, u).wins <= u.wins
           /\ (n \notin Braced /\ u.password \notin Braced) => ReadBack(n, u).wins = u.wins
BY TextAssumption DEF ReadBack, User

(* A record that a reader finds is that of some name it was written under. *)
LEMMA ParsedTable ==
    ASSUME NEW t \in Table
    PROVE  /\ Parsed(t) \in Table
           /\ \A m \in Names : Parsed(t)[m] # NoUser =>
                 \E n \in Names : /\ t[n] # NoUser /\ NameRead[n] = m
                                  /\ Parsed(t)[m] = ReadBack(n, t[n])
<1>1. ASSUME NEW m \in Names, Last(t, m) # {}
      PROVE  \E n \in Names : /\ t[n] # NoUser /\ NameRead[n] = m
                              /\ Parsed(t)[m] = ReadBack(n, t[n])
  <2>1. PICK n \in Last(t, m) : n = CHOOSE k \in Last(t, m) : TRUE
    BY <1>1
  <2>2. n \in Names /\ t[n] # NoUser /\ NameRead[n] = m
    BY <2>1 DEF Last, ReadAs
  <2>3. Parsed(t)[m] = ReadBack(n, t[n])
    BY <1>1, <2>1 DEF Parsed
  <2>4. QED
    BY <2>2, <2>3
<1>2. ASSUME NEW m \in Names, Last(t, m) = {} PROVE Parsed(t)[m] = NoUser
  BY <1>2 DEF Parsed
<1>3. \A m \in Names : Parsed(t)[m] \in User \cup {NoUser}
  <2>1. ASSUME NEW n \in Names, t[n] # NoUser PROVE ReadBack(n, t[n]) \in User
    BY <2>1, ReadBackRecord DEF Table
  <2>2. QED
    BY <1>1, <1>2, <2>1
<1>4. Parsed(t) = [m \in Names |-> Parsed(t)[m]]
  BY DEF Parsed
<1>5. Parsed(t) \in Table
  BY <1>3, <1>4 DEF Table
<1>6. QED
  BY <1>1, <1>2, <1>5

(* A reader credits a name that no other is cut down to with no more than  *)
(* its record does.                                                        *)
LEMMA ParsedInvents ==
    ASSUME NEW t \in Table, NEW m \in Names, \A k \in Names \ {m} : NameRead[k] # m,
           Parsed(t)[m] # NoUser
    PROVE  t[m] # NoUser /\ Parsed(t)[m].wins <= t[m].wins
<1>1. PICK n \in Names : /\ t[n] # NoUser /\ NameRead[n] = m
                         /\ Parsed(t)[m] = ReadBack(n, t[n])
  BY ParsedTable
<1>2. n = m
  BY <1>1
<1>3. t[m] \in User
  BY <1>1, <1>2 DEF Table
<1>4. QED
  BY <1>1, <1>2, <1>3, ReadBackRecord

(* A table that can be read back has all its accounts and wins when it is. *)
LEMMA ParsedSane ==
    ASSUME NEW t \in Table, Sane(t)
    PROVE  /\ Sane(Parsed(t))
           /\ \A m \in Names : Parsed(t)[m] = NoUser <=> t[m] = NoUser
           /\ \A m \in Names : t[m] # NoUser => Parsed(t)[m].wins = t[m].wins
<1>1. ASSUME NEW m \in Names, Parsed(t)[m] # NoUser
      PROVE  /\ t[m] # NoUser /\ Plain(m)
             /\ Parsed(t)[m].password \notin Braced
             /\ Parsed(t)[m].wins = t[m].wins
  <2>1. PICK n \in Names : /\ t[n] # NoUser /\ NameRead[n] = m
                           /\ Parsed(t)[m] = ReadBack(n, t[n])
    BY <1>1, ParsedTable
  <2>2. Plain(n) /\ t[n].password \notin Braced
    BY <2>1 DEF Sane
  <2>3. n = m
    BY <2>1, <2>2 DEF Plain
  <2>4. t[m] \in User
    BY <2>1, <2>3 DEF Table
  <2>5. m \notin Braced
    BY <2>2, <2>3 DEF Plain
  <2>6. QED
    BY <2>1, <2>2, <2>3, <2>4, <2>5, ReadBackRecord
<1>2. ASSUME NEW m \in Names, t[m] # NoUser PROVE Parsed(t)[m] # NoUser
  <2>1. \A n \in ReadAs(t, m) : n = m
    BY DEF ReadAs, Sane, Plain
  <2>2. m \in ReadAs(t, m)
    BY <1>2 DEF ReadAs, Sane, Plain
  <2>3. Rank[m] <= Rank[m]
    BY TextAssumption
  <2>4. m \in Last(t, m) /\ \A n \in Last(t, m) : n = m
    BY <2>1, <2>2, <2>3 DEF Last
  <2>5. Parsed(t)[m] = ReadBack(m, t[m])
    BY <2>4 DEF Parsed
  <2>6. t[m] \in User
    BY <1>2 DEF Table
  <2>7. QED
    BY <2>5, <2>6, ReadBackRecord, NoUserAssumption
<1>3. Sane(Parsed(t))
  BY <1>1 DEF Sane
<1>4. QED
  BY <1>1, <1>2, <1>3

(* Entering the user of a login makes or keeps one record, with the wins   *)
(* it had.                                                                 *)
LEMMA EntryRecord ==
    ASSUME m_users \in Table, NEW l \in Login
    PROVE  /\ Entry(l) \in User
           /\ m_users[l.name] = NoUser => Entry(l).wins = 0
           /\ m_users[l.name] # NoUser => Entry(l).wins = m_users[l.name].wins
           /\ Entry(l).password = l.password
BY DEF Entry, Login, Table, User

(* Booking a result adds one win to the winner's record and none to any    *)
(* other.                                                                  *)
LEMMA ScoredTable ==
    ASSUME NEW t \in Table, NEW w \in Names, NEW l \in Names,
           t[w] # NoUser, t[l] # NoUser
    PROVE  /\ Scored(t, w, l) \in Table
           /\ \A n \in Names :
                 /\ Scored(t, w, l)[n] = NoUser <=> t[n] = NoUser
                 /\ t[n] # NoUser =>
                       /\ Scored(t, w, l)[n].wins = t[n].wins + (IF n = w THEN 1 ELSE 0)
                       /\ Scored(t, w, l)[n].password = t[n].password
<1>1. t[w] \in User /\ t[l] \in User
  BY DEF Table
<1> DEFINE t1 == [t EXCEPT ![w].wins = @ + 1]
           t2 == [t1 EXCEPT ![l].losses = @ + 1]
<1>2. /\ t1 \in Table /\ t1[w] \in User /\ t1[l] \in User
      /\ t1[w].wins = t[w].wins + 1 /\ t1[w].password = t[w].password
      /\ \A n \in Names : n # w => t1[n] = t[n]
  BY <1>1 DEF Table, User
<1> HIDE DEF t1
<1>3. /\ t2 \in Table /\ t2[l] \in User
      /\ t2[l].wins = t1[l].wins /\ t2[l].password = t1[l].password
      /\ \A n \in Names : n # l => t2[n] = t1[n]
  BY <1>2 DEF Table, User
<1> HIDE DEF t2
<1>4. Scored(t, w, l) = t2
  BY DEF Scored, t1, t2
<1>5. \A n \in Names : t2[n] = NoUser <=> t[n] = NoUser
  BY <1>1, <1>2, <1>3, NoUserAssumption
<1>6. \A n \in Names : t[n] # NoUser => t2[n].wins = t[n].wins + (IF n = w THEN 1 ELSE 0)
  <2>1. ASSUME NEW n \in Names, t[n] # NoUser
        PROVE  t2[n].wins = t[n].wins + (IF n = w THEN 1 ELSE 0)
    <3>1. t[n].wins \in Nat
      BY <2>1 DEF Table, User
    <3>2. t2[n].wins = t1[n].wins
      BY <1>3
    <3>3. t1[n].wins = t[n].wins + (IF n = w THEN 1 ELSE 0)
      BY <1>2, <3>1
    <3>4. QED
      BY <3>2, <3>3
  <2>2. QED
    BY <2>1
<1>7. \A n \in Names : t[n] # NoUser => t2[n].password = t[n].password
  BY <1>2, <1>3
<1>8. QED
  BY <1>3, <1>4, <1>5, <1>6, <1>7

-----------------------------------------------------------------------------
(* The server starts with no accounts.                                     *)
LEMMA InitInd == Init => IndInv
<1> SUFFICES ASSUME Init PROVE IndInv
  OBVIOUS
<1> USE DEF Init
<1>1. TypeOK
  BY DEF TypeOK, Empty, Table
<1>2. NoResultInvented
  BY DEF NoResultInvented, Empty
<1>3. OneWriter /\ LoginInProgress /\ NewcomersHaveNoWins
  BY DEF OneWriter, LoginInProgress, NewcomersHaveNoWins
<1>4. Undisturbed
  BY DEF Undisturbed, Current, Sane, Empty
<1>5. QED
  BY <1>1, <1>2, <1>3, <1>4 DEF IndInv

(* ReadFile takes a copy of the file, or nothing.  During a write that is  *)
(* a mishap.                                                               *)
LEMMA ReadFileInd ==
    ASSUME IndInv, NEW l \in Login, ReadFile(l)
    PROVE  IndInv'
<1> USE DEF ReadFile, IndInv
<1>1. TypeOK'
  BY DEF TypeOK, Table, Empty
<1>2. NoResultInvented'
  BY DEF NoResultInvented, Empty
<1>3. OneWriter' /\ LoginInProgress' /\ NewcomersHaveNoWins'
  BY DEF OneWriter, LoginInProgress, NewcomersHaveNoWins
<1>4. Undisturbed'
  <2>1. CASE json_str' = file /\ lpc' = "read" /\ mishap' = (mishap \/ epc = "writing")
    <3>1. ~mishap' => ~mishap /\ epc = "idle"
      BY <2>1 DEF TypeOK
    <3>2. QED
      BY <2>1, <3>1 DEF Undisturbed, Current, Sane, MutexFree
  <2>2. CASE lpc' = "reloaded" /\ UNCHANGED << json_str, mishap >>
    BY <2>2 DEF Undisturbed, Current, Sane, MutexFree
  <2>3. CASE mishap' = TRUE
    BY <2>3 DEF Undisturbed
  <2>4. QED
    BY <2>1, <2>2, <2>3
<1>5. QED
  BY <1>1, <1>2, <1>3, <1>4

(* Reload puts what it can parse of the copy into memory: without mishap,  *)
(* no account and no win changes.                                          *)
LEMMA ReloadInd ==
    ASSUME IndInv, Reload
    PROVE  IndInv'
<1> USE DEF Reload, IndInv, past
<1>1. m_users' = Parsed(json_str) /\ json_str \in Table /\ Parsed(json_str) \in Table
  BY ParsedTable DEF TypeOK
<1>2. TypeOK'
  BY <1>1 DEF TypeOK, Table, Empty
<1>3. NoResultInvented'
  <2>1. ASSUME NEW n \in Names, \A k \in Names \ {n} : NameRead[k] # n,
               Parsed(json_str)[n] # NoUser
        PROVE  Parsed(json_str)[n].wins <= wins[n]
    <3>1. json_str[n] # NoUser /\ Parsed(json_str)[n].wins <= json_str[n].wins
      BY <1>1, <2>1, ParsedInvents
    <3>2. json_str[n].wins <= wins[n]
      BY <2>1, <3>1 DEF NoResultInvented
    <3>3. /\ json_str[n].wins \in Nat /\ Parsed(json_str)[n].wins \in Nat
          /\ wins[n] \in Nat
      BY <1>1, <2>1, <3>1 DEF TypeOK, Table, User
    <3>4. QED
      BY <3>1, <3>2, <3>3
  <2>2. QED
    BY <1>1, <2>1 DEF NoResultInvented, Empty
<1>4. OneWriter' /\ LoginInProgress' /\ NewcomersHaveNoWins'
  BY DEF OneWriter, LoginInProgress, NewcomersHaveNoWins, MutexFree
<1>5. ASSUME ~mishap
      PROVE  /\ Current(m_users)' /\ Sane(m_users)'
             /\ \A n \in Names : m_users'[n] # NoUser => file[n] # NoUser
  <2>1. json_str = file /\ Current(file) /\ Sane(file)
    BY <1>5 DEF Undisturbed
  <2>2. /\ Sane(Parsed(file))
        /\ \A m \in Names : Parsed(file)[m] = NoUser <=> file[m] = NoUser
        /\ \A m \in Names : file[m] # NoUser => Parsed(file)[m].wins = file[m].wins
    BY <1>1, <2>1, ParsedSane
  <2>3. m_users' = Parsed(file) /\ known' = known /\ wins' = wins
    BY <1>1, <2>1
  <2>4. Current(m_users)'
    BY <2>1, <2>2, <2>3 DEF Current
  <2>5. Sane(m_users)'
    BY <2>2, <2>3 DEF Sane
  <2>6. QED
    BY <2>2, <2>3, <2>4, <2>5
<1>6. Undisturbed'
  BY <1>5 DEF Undisturbed, Current, Sane, MutexFree
<1>7. QED
  BY <1>2, <1>3, <1>4, <1>6

(* Authenticate finds the user as the login wants it, or enters it and     *)
(* starts to write; with the file out of reach it only answers.            *)
LEMMA AuthenticateInd ==
    ASSUME IndInv, Authenticate
    PROVE  IndInv'
<1> USE DEF IndInv, OneWriter, LoginInProgress, NewcomersHaveNoWins, MutexFree
<1>1. /\ login \in Login /\ login.name \in Names /\ m_users \in Table
      /\ up /\ lpc = "reloaded" /\ epc # "writing"
      /\ UNCHANGED << epc, up, wins >>
  BY DEF Authenticate, TypeOK, Login
<1>2. /\ Entry(login) \in User /\ Entry(login) # NoUser
      /\ m_users[login.name] = NoUser => Entry(login).wins = 0
      /\ m_users[login.name] # NoUser => Entry(login).wins = m_users[login.name].wins
      /\ Entry(login).password = login.password
  BY <1>1, EntryRecord, NoUserAssumption
<1>3. CASE m_users[login.name] = Entry(login)
  <2>1. Reset /\ known' = known \cup {login.name} /\ UNCHANGED << m_users, file, mishap >>
    BY <1>3 DEF Authenticate
  <2>2. TypeOK'
    BY <1>1, <2>1 DEF Reset, TypeOK, NoLogin, Empty, Table
  <2>3. NoResultInvented'
    BY <1>1, <2>1 DEF Reset, NoResultInvented, Empty
  <2>4. Undisturbed'
    BY <1>1, <1>2, <1>3, <2>1 DEF Reset, Undisturbed, Current, Sane
  <2>5. QED
    BY <1>1, <2>1, <2>2, <2>3, <2>4 DEF Reset
<1>4. CASE m_users[login.name] # Entry(login)
  <2>1. m_users' = [m_users EXCEPT ![login.name] = Entry(login)]
    BY <1>4 DEF Authenticate
  <2>2. m_users' \in Table /\ m_users'[login.name] # NoUser
    BY <1>1, <1>2, <2>1 DEF Table
  <2>3. ASSUME NEW n \in Names, \A k \in Names \ {n} : NameRead[k] # n, m_users'[n] # NoUser
        PROVE  m_users'[n].wins <= wins[n]
    BY <1>1, <1>2, <2>1, <2>3 DEF NoResultInvented, TypeOK, Table
  <2>4. CASE /\ file' \in Torn(m_users') /\ lpc' = "writing"
             /\ mishap' = (mishap \/ ~Plain(login.name) \/ login.password \in Braced)
             /\ UNCHANGED << login, json_str, known >>
    <3>1. file' \in Table /\ \A n \in Names : file'[n] # NoUser => file'[n] = m_users'[n]
      BY <2>2, <2>4, TornTable
    <3>2. NoResultInvented'
      BY <1>1, <2>3, <2>4, <3>1 DEF NoResultInvented
    <3>3. ~mishap' => Current(m_users)' /\ Sane(m_users)'
      BY <1>1, <1>2, <2>1, <2>4 DEF Undisturbed, Current, Sane, Table
    <3>4. TypeOK'
      BY <1>1, <2>2, <2>4, <3>1 DEF TypeOK
    <3>5. QED
      BY <1>1, <2>2, <2>4, <3>2, <3>3, <3>4 DEF Undisturbed
  <2>5. CASE /\ Reset /\ known' = known \cup {login.name}
             /\ mishap' = TRUE /\ UNCHANGED file
    <3>1. NoResultInvented'
      BY <1>1, <2>3, <2>5 DEF NoResultInvented, Reset, Empty
    <3>2. TypeOK'
      BY <1>1, <2>2, <2>5 DEF TypeOK, Reset, NoLogin, Empty, Table
    <3>3. QED
      BY <1>1, <2>5, <3>1, <3>2 DEF Reset, Undisturbed
  <2>6. QED
    BY <1>4, <2>4, <2>5 DEF Authenticate
<1>5. QED
  BY <1>3, <1>4

(* EndLogin completes the file and answers.                                *)
LEMMA EndLoginInd ==
    ASSUME IndInv, EndLogin
    PROVE  IndInv'
<1> USE DEF EndLogin, Reset, IndInv
<1>1. TypeOK'
  BY DEF TypeOK, LoginInProgress, Login, NoLogin, Empty, Table
<1>2. NoResultInvented'
  BY DEF NoResultInvented, Empty
<1>3. OneWriter' /\ LoginInProgress' /\ NewcomersHaveNoWins'
  BY DEF OneWriter, LoginInProgress, NewcomersHaveNoWins
<1>4. Undisturbed'
  BY DEF Undisturbed, OneWriter, LoginInProgress, Current, Sane, MutexFree
<1>5. QED
  BY <1>1, <1>2, <1>3, <1>4

(* UpdateElo drops a result of a user that memory has lost, or books it    *)
(* and starts to write if it can.                                          *)
LEMMA UpdateEloInd ==
    ASSUME IndInv, NEW w \in Names, NEW l \in Names, UpdateElo(w, l)
    PROVE  IndInv'
<1> USE DEF IndInv, OneWriter, LoginInProgress, MutexFree
<1>1. /\ up /\ epc = "idle" /\ lpc # "writing" /\ w \in known /\ l \in known
      /\ wins' = [wins EXCEPT ![w] = @ + 1]
      /\ UNCHANGED << lpc, login, json_str, up, known >>
      /\ m_users \in Table /\ wins \in [Names -> Nat]
  BY DEF UpdateElo, TypeOK
<1>2. wins' \in [Names -> Nat] /\ \A n \in Names : wins'[n] = wins[n] + (IF n = w THEN 1 ELSE 0)
  BY <1>1
<1>3. NewcomersHaveNoWins'
  BY <1>1, <1>2 DEF NewcomersHaveNoWins
<1>4. ASSUME NEW t \in {m_users, file, json_str}, NEW n \in Names,
             \A k \in Names \ {n} : NameRead[k] # n, t[n] # NoUser
      PROVE  t[n].wins <= wins'[n]
  <2>1. t \in Table /\ t[n].wins \in Nat
    BY <1>4 DEF TypeOK, Table, User
  <2>2. t[n].wins <= wins[n]
    BY <1>4 DEF NoResultInvented
  <2>3. QED
    BY <1>1, <1>2, <2>1, <2>2
<1>5. CASE m_users[w] = NoUser \/ m_users[l] = NoUser
  <2>1. UNCHANGED << m_users, file, epc >> /\ mishap' = (mishap \/ lpc = "read")
    BY <1>5 DEF UpdateElo
  <2>2. mishap
    BY <1>1, <1>5 DEF Undisturbed, Current
  <2>3. NoResultInvented'
    BY <1>1, <1>4, <2>1 DEF NoResultInvented
  <2>4. QED
    BY <1>1, <1>2, <1>3, <2>1, <2>2, <2>3 DEF TypeOK, Undisturbed
<1>6. CASE m_users[w] # NoUser /\ m_users[l] # NoUser
  <2>1. m_users' = Scored(m_users, w, l)
    BY <1>6 DEF UpdateElo
  <2>2. /\ m_users' \in Table
        /\ \A n \in Names :
              /\ m_users'[n] = NoUser <=> m_users[n] = NoUser
              /\ m_users[n] # NoUser =>
                    /\ m_users'[n].wins = m_users[n].wins + (IF n = w THEN 1 ELSE 0)
                    /\ m_users'[n].password = m_users[n].password
    BY <1>1, <1>6, <2>1, ScoredTable
  <2>3. ASSUME NEW n \in Names, \A k \in Names \ {n} : NameRead[k] # n, m_users'[n] # NoUser
        PROVE  m_users'[n].wins <= wins'[n]
    <3>1. m_users[n] # NoUser /\ m_users[n].wins \in Nat /\ m_users[n].wins <= wins[n]
      BY <1>1, <2>2, <2>3 DEF NoResultInvented, Table, User
    <3>2. QED
      BY <1>1, <1>2, <2>2, <3>1
  <2>4. CASE /\ file' \in Torn(m_users') /\ epc' = "writing"
             /\ mishap' = (mishap \/ lpc = "read")
    <3>1. file' \in Table /\ \A n \in Names : file'[n] # NoUser => file'[n] = m_users'[n]
      BY <2>2, <2>4, TornTable
    <3>2. NoResultInvented'
      BY <1>1, <1>4, <2>3, <3>1 DEF NoResultInvented
    <3>3. ~mishap' => Current(m_users)'
      BY <1>1, <1>2, <2>2, <2>4 DEF Undisturbed, Current
    <3>4. ~mishap' => Sane(m_users)'
      BY <1>1, <2>2, <2>4 DEF Undisturbed, Sane, Plain
    <3>5. TypeOK'
      BY <1>1, <1>2, <2>2, <2>4, <3>1 DEF TypeOK
    <3>6. LoginInProgress'
      BY <1>1, <2>2
    <3>7. QED
      BY <1>1, <1>3, <2>4, <3>2, <3>3, <3>4, <3>5, <3>6 DEF Undisturbed
  <2>5. CASE mishap' = TRUE /\ UNCHANGED << file, epc >>
    <3>1. NoResultInvented'
      BY <1>1, <1>4, <2>3, <2>5 DEF NoResultInvented
    <3>2. TypeOK'
      BY <1>1, <1>2, <2>2, <2>5 DEF TypeOK
    <3>3. LoginInProgress'
      BY <1>1, <2>2
    <3>4. QED
      BY <1>1, <1>3, <2>5, <3>1, <3>2, <3>3 DEF Undisturbed
  <2>6. QED
    BY <1>6, <2>4, <2>5 DEF UpdateElo
<1>7. QED
  BY <1>5, <1>6

(* EndElo completes the file.                                              *)
LEMMA EndEloInd ==
    ASSUME IndInv, EndElo
    PROVE  IndInv'
<1> USE DEF EndElo, IndInv, past
<1>1. TypeOK'
  BY DEF TypeOK
<1>2. NoResultInvented'
  BY DEF NoResultInvented
<1>3. OneWriter' /\ LoginInProgress' /\ NewcomersHaveNoWins'
  BY DEF OneWriter, LoginInProgress, NewcomersHaveNoWins, MutexFree
<1>4. Undisturbed'
  BY DEF Undisturbed, OneWriter, Current, Sane, MutexFree, TypeOK
<1>5. QED
  BY <1>1, <1>2, <1>3, <1>4

(* A stop loses memory, not the file; in the middle of a write it is a     *)
(* mishap.                                                                 *)
LEMMA StopInd ==
    ASSUME IndInv, Stop
    PROVE  IndInv'
<1> USE DEF Stop, Reset, IndInv
<1>1. TypeOK'
  BY DEF TypeOK, NoLogin, Empty, Table
<1>2. NoResultInvented'
  BY DEF NoResultInvented, Empty
<1>3. OneWriter' /\ LoginInProgress' /\ NewcomersHaveNoWins'
  BY DEF OneWriter, LoginInProgress, NewcomersHaveNoWins
<1>4. Undisturbed'
  BY DEF Undisturbed, Current, Sane, MutexFree
<1>5. QED
  BY <1>1, <1>2, <1>3, <1>4

(* The next start reads what it can parse of the file, or nothing.         *)
LEMMA LoadInd ==
    ASSUME IndInv, load
    PROVE  IndInv'
<1> USE DEF load, IndInv
<1>1. file \in Table /\ Parsed(file) \in Table
  BY ParsedTable DEF TypeOK
<1>2. OneWriter' /\ LoginInProgress' /\ NewcomersHaveNoWins'
  BY DEF OneWriter, LoginInProgress, NewcomersHaveNoWins
<1>3. CASE m_users' = Parsed(file) /\ UNCHANGED mishap
  <2>1. TypeOK'
    BY <1>1, <1>3 DEF TypeOK
  <2>2. NoResultInvented'
    <3>1. ASSUME NEW n \in Names, \A k \in Names \ {n} : NameRead[k] # n,
                 Parsed(file)[n] # NoUser
          PROVE  Parsed(file)[n].wins <= wins[n]
      <4>1. file[n] # NoUser /\ Parsed(file)[n].wins <= file[n].wins
        BY <1>1, <3>1, ParsedInvents
      <4>2. file[n].wins <= wins[n]
        BY <3>1, <4>1 DEF NoResultInvented
      <4>3. /\ file[n].wins \in Nat /\ Parsed(file)[n].wins \in Nat
            /\ wins[n] \in Nat
        BY <1>1, <3>1, <4>1 DEF TypeOK, Table, User
      <4>4. QED
        BY <4>1, <4>2, <4>3
    <3>2. QED
      BY <1>3, <3>1 DEF NoResultInvented
  <2>3. ASSUME ~mishap
        PROVE  /\ Current(m_users)' /\ Sane(m_users)'
               /\ \A n \in Names : m_users'[n] # NoUser => file[n] # NoUser
    <3>1. Current(file) /\ Sane(file)
      BY <2>3 DEF Undisturbed, OneWriter, MutexFree
    <3>2. /\ Sane(Parsed(file))
          /\ \A m \in Names : Parsed(file)[m] = NoUser <=> file[m] = NoUser
          /\ \A m \in Names : file[m] # NoUser => Parsed(file)[m].wins = file[m].wins
      BY <1>1, <3>1, ParsedSane
    <3>3. Current(m_users)'
      BY <1>3, <3>1, <3>2 DEF Current
    <3>4. Sane(m_users)'
      BY <1>3, <3>2 DEF Sane
    <3>5. QED
      BY <1>3, <3>2, <3>3, <3>4
  <2>4. Undisturbed'
    BY <1>3, <2>3 DEF Undisturbed, Current, Sane, MutexFree, OneWriter
  <2>5. QED
    BY <1>2, <2>1, <2>2, <2>4
<1>4. CASE mishap' = TRUE /\ UNCHANGED m_users
  <2>1. TypeOK' /\ NoResultInvented'
    BY <1>4 DEF TypeOK, NoResultInvented
  <2>2. QED
    BY <1>2, <1>4, <2>1 DEF Undisturbed
<1>5. QED
  BY <1>3, <1>4

(* A step that changes nothing.                                            *)
LEMMA StutterInd ==
    ASSUME IndInv, UNCHANGED vars
    PROVE  IndInv'
BY DEF vars, past, IndInv, TypeOK, NoResultInvented, OneWriter, LoginInProgress,
       NewcomersHaveNoWins, Undisturbed, Current, Sane, MutexFree

(* The inductive invariant holds in every state of the store.              *)
THEOREM StoreInvariant == Spec => []IndInv
<1>1. ASSUME IndInv, [Next]_vars PROVE IndInv'
  <2>1. ASSUME NEW l \in Login, ReadFile(l) PROVE IndInv'
    BY <1>1, <2>1, ReadFileInd
  <2>2. CASE WsThread
    BY <1>1, <2>2, ReloadInd, AuthenticateInd, EndLoginInd DEF WsThread
  <2>3. CASE GameThread
    BY <1>1, <2>3, EndEloInd, UpdateEloInd DEF GameThread
  <2>4. CASE Stop \/ load
    BY <1>1, <2>4, StopInd, LoadInd
  <2>5. CASE UNCHANGED vars
    BY <1>1, <2>5, StutterInd
  <2>6. QED
    BY <1>1, <2>1, <2>2, <2>3, <2>4, <2>5 DEF Next
<1>2. QED
  BY InitInd, <1>1, PTL DEF Spec

(* The tables of memory and file are well-formed in every state.           *)
THEOREM StoreTypeCorrect == Spec => []TypeOK
<1>1. IndInv => TypeOK
  BY DEF IndInv
<1>2. QED
  BY StoreInvariant, <1>1, PTL

(* However logins, results, failed opens and restarts interleave, no table *)
(* ever credits a user with more wins than the games they won, unless      *)
(* another name is cut down to theirs.                                     *)
THEOREM ResultsAreNotInvented == Spec => []NoResultInvented
<1>1. IndInv => NoResultInvented
  BY DEF IndInv
<1>2. QED
  BY StoreInvariant, <1>1, PTL

(* Overlaps, failed opens and text that is not read back are the only ways *)
(* to lose an account or a result: without them the file has them all      *)
(* whenever the mutex is free, and so has whoever reads it.                *)
THEOREM OnlyMishapsLose == Spec => []NothingLostWithoutMishap
<1>1. ASSUME IndInv, ~mishap, MutexFree, NEW n \in known
      PROVE  /\ file[n] # NoUser /\ file[n].wins = wins[n]
             /\ Parsed(file)[n] # NoUser /\ Parsed(file)[n].wins = wins[n]
  <2>1. file \in Table /\ n \in Names
    BY <1>1 DEF IndInv, TypeOK
  <2>2. Current(file) /\ Sane(file)
    BY <1>1 DEF IndInv, Undisturbed
  <2>3. file[n] # NoUser /\ file[n].wins = wins[n]
    BY <2>1, <2>2 DEF Current
  <2>4. QED
    BY <2>1, <2>2, <2>3, ParsedSane
<1>2. IndInv => NothingLostWithoutMishap
  BY <1>1 DEF NothingLostWithoutMishap
<1>3. QED
  BY StoreInvariant, <1>2, PTL

=============================================================================
