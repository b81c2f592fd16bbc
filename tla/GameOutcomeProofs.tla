-------------------------- MODULE GameOutcomeProofs --------------------------
(***************************************************************************)
(* What becomes of the pieces of GameEngine: pawns are promoted, no piece  *)
(* is left MOVING for ever, a captured king ends the game, and the score   *)
(* is the worth of what was captured.  Each fact rests on IndInv of        *)
(* GameEngineProofs and on a strengthening of its own.                     *)
(***************************************************************************)
EXTENDS GameEngineProofs, FiniteSetTheorems, WellFoundedInduction

(* A pawn that is sent back by a block goes back to a cell that was not    *)
(* its last row when it left, and so is not now.                           *)
FlyingPawnsHaveAWay ==
    \A m \in Unhandled :
        kind[m.piece] = "PAWN" => m.source[1] # LastRow(Color[m.piece])

(* Promotion is the only change of a kind: it makes and unmakes no king.   *)
KingsStayKings ==
    \A p \in Pieces : kind[p] = "KING" <=> StartKind[p] = "KING"

PawnInv == PawnsPromote /\ FlyingPawnsHaveAWay
KingInv == KingsStayKings /\ CapturedKingEndsGame

-----------------------------------------------------------------------------
(* What is in the air after an update was in the air before it.            *)
LEMMA AgedFlight ==
    ASSUME IndInv, EndUpdate, NEW x \in Unhandled'
    PROVE  \E e \in Unhandled : x.piece = e.piece /\ x.source = e.source
  <1>1. motions' = Aged(motions, ms) /\ ms \in Nat /\ motions \subseteq Motion
    BY TimeAssumption DEF EndUpdate, IndInv, TypeOK
  <1>2. PICK e \in motions : e.remaining > ms /\ x = [e EXCEPT !.remaining = e.remaining - ms]
    BY <1>1 DEF Unhandled, Aged
  <1>3. e \in Unhandled
    BY <1>1, <1>2 DEF Unhandled, IndInv, HandledAreDue, Motion
  <1> QED BY <1>1, <1>2, <1>3 DEF Motion

(* And the other way round, for the motions and the jumps that an update   *)
(* did not resolve.                                                        *)
LEMMA UnresolvedSurvive ==
    ASSUME IndInv, EndUpdate
    PROVE  /\ \A e \in Unhandled : \E x \in Unhandled' : x.piece = e.piece
           /\ \A j \in jumps \ handled_jumps : \E x \in jumps' \ handled_jumps' :
                 x.piece = j.piece /\ x.pos = j.pos
  <1>1. /\ motions' = Aged(motions, ms) /\ jumps' = Aged(jumps, ms)
        /\ handled_motions' = {} /\ handled_jumps' = {}
        /\ ms \in Nat /\ motions \subseteq Motion /\ jumps \subseteq Jump
        /\ DueMotions = {} /\ DueJumps = {}
    BY TimeAssumption DEF EndUpdate, IndInv, TypeOK
  <1>2. ASSUME NEW e \in Unhandled PROVE \E x \in Unhandled' : x.piece = e.piece
    <2> DEFINE x == [e EXCEPT !.remaining = e.remaining - ms]
    <2>1. e \in Motion /\ e.remaining > ms
      BY <1>1 DEF DueMotions, Unhandled, Motion
    <2>2. x \in Aged(motions, ms)
      BY <2>1 DEF Aged, Unhandled
    <2>3. x.piece = e.piece
      BY <2>1 DEF Motion
    <2> QED BY <1>1, <2>2, <2>3 DEF Unhandled
  <1>3. ASSUME NEW j \in jumps \ handled_jumps
        PROVE  \E x \in jumps' \ handled_jumps' : x.piece = j.piece /\ x.pos = j.pos
    <2> DEFINE x == [j EXCEPT !.remaining = j.remaining - ms]
    <2>1. j \in Jump /\ j.remaining > ms
      BY <1>1 DEF DueJumps, Jump
    <2>2. x \in Aged(jumps, ms)
      BY <2>1 DEF Aged
    <2>3. x.piece = j.piece /\ x.pos = j.pos
      BY <2>1 DEF Jump
    <2> QED BY <1>1, <2>2, <2>3
  <1> QED BY <1>2, <1>3

-----------------------------------------------------------------------------
(* No board is built with a pawn on its last row.                          *)
LEMMA PawnInit == Init => PawnInv
  <1> SUFFICES ASSUME Init PROVE PawnInv
    OBVIOUS
  <1>1. IndInv
    BY InitInd
  <1>2. \A p \in Pieces : kind[p] = "PAWN" => cell[p][1] # LastRow(Color[p])
    BY PawnAssumption DEF Init
  <1> QED BY <1>1, <1>2 DEF PawnInv, PawnsPromote, FlyingPawnsHaveAWay, IndInv, TypeOK,
                            BoardConsistent, Unhandled, Init

(* The outcomes of a motion: a promotion happens in the step that reaches  *)
(* the last row, and a block returns to the source.                        *)
LEMMA HandleMotionPawns ==
    ASSUME IndInv, PawnInv, NEW m \in motions, HandleMotion(m)
    PROVE  PawnInv'
  <1> USE DEF PawnInv
  <1>1. /\ m.piece \in Pieces /\ m.dest \in Cell /\ m.source \in Cell
        /\ m \in Unhandled
        /\ Unhandled' \subseteq Unhandled
        /\ \A o \in Unhandled' : o.piece # m.piece /\ o.piece \in Pieces
        /\ Arrive(m)
    BY HandleMotionFrame DEF Motion, IndInv, TypeOK, Unhandled
  <1>2. CASE BlockAt(m)
    <2>1. /\ board' = add_piece(board, m.piece, m.source)
          /\ UNCHANGED kind
      BY <1>2 DEF BlockAt
    <2>2. kind[m.piece] = "PAWN" => m.source[1] # LastRow(Color[m.piece])
      BY <1>1 DEF FlyingPawnsHaveAWay
    <2>3. PawnsPromote'
      BY <1>1, <2>1, <2>2 DEF PawnsPromote, add_piece, IndInv, TypeOK
    <2> QED BY <1>1, <2>1, <2>3 DEF FlyingPawnsHaveAWay
  <1>3. CASE \E j \in jumps : MidAirCapture(m, j)
    BY <1>1, <1>3 DEF MidAirCapture, PawnsPromote, FlyingPawnsHaveAWay
  <1>4. CASE /\ kind' = Promote(m.piece, m.dest)
             /\ \A c \in Cell : c # m.dest => board'[c] = board[c]
             /\ board'[m.dest] \in {board[m.dest], m.piece}
    <2>1. /\ \A p \in Pieces : p # m.piece => kind'[p] = kind[p]
          /\ kind'[m.piece] = "PAWN" => m.dest[1] # LastRow(Color[m.piece])
      BY <1>1, <1>4 DEF Promote, IndInv, TypeOK
    <2>2. \A c \in Cell : board[c] # m.piece /\ board[c] \in Pieces \cup {NoPiece}
      BY HandleMotionFrame DEF IndInv, TypeOK
    <2>3. PawnsPromote'
      BY <1>1, <1>4, <2>1, <2>2 DEF PawnsPromote
    <2>4. FlyingPawnsHaveAWay'
      BY <1>1, <2>1 DEF FlyingPawnsHaveAWay
    <2> QED BY <2>3, <2>4
  <1>5. CASE PieceAtDest(m) # NoPiece /\ Capture(m, PieceAtDest(m))
    BY <1>1, <1>4, <1>5 DEF Capture, IndInv, TypeOK
  <1>6. CASE Land(m)
    BY <1>1, <1>4, <1>6 DEF Land, add_piece, IndInv, TypeOK
  <1> QED BY <1>1, <1>2, <1>3, <1>5, <1>6 DEF Arrive, Interceptors

(* No other step puts a pawn on the board or gives it a new source.        *)
LEMMA PawnStep == IndInv /\ PawnInv /\ [Next]_vars => PawnInv'
  <1> SUFFICES ASSUME IndInv, PawnInv, [Next]_vars PROVE PawnInv'
    OBVIOUS
  <1> USE DEF PawnInv
  <1>1. ASSUME NEW src \in Cell, NEW dst \in Cell, RequestMove(src, dst) PROVE PawnInv'
    <2> DEFINE n == [piece |-> board[src], source |-> src, dest |-> dst,
                     remaining |-> Dist(src, dst) * MoveTime]
    <2>1. /\ board' = [board EXCEPT ![src] = NoPiece]
          /\ Unhandled' \subseteq Unhandled \cup {n}
          /\ UNCHANGED kind
          /\ board[src] # NoPiece
      BY <1>1 DEF RequestMove, start_motion, loopVars, Unhandled, CanAct
    <2>2. kind[n.piece] = "PAWN" => n.source[1] # LastRow(Color[n.piece])
      BY <2>1 DEF PawnsPromote
    <2>3. PawnsPromote'
      BY <2>1 DEF PawnsPromote, IndInv, TypeOK
    <2>4. FlyingPawnsHaveAWay'
      BY <2>1, <2>2 DEF FlyingPawnsHaveAWay
    <2> QED BY <2>3, <2>4
  <1>2. ASSUME NEW pos \in Cell, RequestJump(pos) PROVE PawnInv'
    BY <1>2 DEF RequestJump, loopVars, PawnsPromote, FlyingPawnsHaveAWay, Unhandled
  <1>3. ASSUME NEW t \in Ticks, BeginUpdate(t) PROVE PawnInv'
    <2>1. UNCHANGED << board, kind >> /\ Unhandled' = Unhandled
      BY <1>3, NothingHandled DEF BeginUpdate, boardVars, Unhandled
    <2> QED BY <2>1 DEF PawnsPromote, FlyingPawnsHaveAWay
  <1>4. ASSUME NEW j \in jumps, HandleJump(j) PROVE PawnInv'
    BY <1>4 DEF HandleJump, PawnsPromote, FlyingPawnsHaveAWay, Unhandled
  <1>5. ASSUME NEW m \in motions, HandleMotion(m) PROVE PawnInv'
    BY <1>5, HandleMotionPawns
  <1>6. CASE EndUpdate
    <2>1. UNCHANGED << board, kind >>
      BY <1>6 DEF EndUpdate, boardVars
    <2>2. FlyingPawnsHaveAWay'
      BY <1>6, <2>1, AgedFlight DEF FlyingPawnsHaveAWay
    <2> QED BY <2>1, <2>2 DEF PawnsPromote
  <1>7. CASE UNCHANGED vars
    BY <1>7 DEF vars, boardVars, timeVars, loopVars, PawnsPromote, FlyingPawnsHaveAWay, Unhandled
  <1> QED BY <1>1, <1>2, <1>3, <1>4, <1>5, <1>6, <1>7 DEF Next, Update

(* No pawn stands unpromoted on its last row, whether it moved there, took *)
(* there or was sent back by a block.                                      *)
THEOREM PawnsAlwaysPromote == Spec => []PawnsPromote
  <1>1. PawnInv => PawnsPromote
    BY DEF PawnInv
  <1> QED BY <1>1, PawnInit, PawnStep, EngineInvariant, PTL DEF Spec

-----------------------------------------------------------------------------
(* The outcomes of a motion: its own piece is no longer MOVING, and a      *)
(* jumper that loses its cell in this step has been captured on it.        *)
LEMMA HandleMotionMoving ==
    ASSUME IndInv, MovingIsTemporary, NEW m \in motions, HandleMotion(m)
    PROVE  MovingIsTemporary'
  <1>1. /\ m.piece \in Pieces /\ m.dest \in Cell /\ m.source \in Cell
        /\ Unhandled' = Unhandled \ {m}
        /\ \A o \in Unhandled : o.piece = m.piece => o = m
        /\ UNCHANGED << jumps, handled_jumps >>
        /\ Arrive(m)
    BY HandleMotionFrame DEF Motion, IndInv, InFlightOffBoard
  <1>2. \A j \in jumps : j.pos \in Cell
    BY DEF IndInv, TypeOK, Jump
  <1> SUFFICES ASSUME NEW p \in Pieces, pstate'[p] = "MOVING"
               PROVE  \/ \E o \in Unhandled' : o.piece = p
                      \/ \E j \in jumps \ handled_jumps : j.piece = p /\ board'[j.pos] = p
    BY <1>1 DEF MovingIsTemporary
  <1>3. p # m.piece /\ pstate[p] = "MOVING" /\ \A c \in Cell : board[c] = p => board'[c] = p
    <2>1. CASE BlockAt(m)
      BY <1>1, <2>1, PieceAssumption DEF BlockAt, add_piece, IndInv, TypeOK
    <2>2. CASE \E j \in jumps : MidAirCapture(m, j)
      BY <1>1, <2>2 DEF MidAirCapture, IndInv, TypeOK
    <2>3. CASE PieceAtDest(m) # NoPiece /\ Capture(m, PieceAtDest(m))
      <3>1. PieceAtDest(m) = board[m.dest] /\ board[m.dest] \in Pieces
        BY <1>1, <2>3 DEF PieceAtDest, IndInv, TypeOK
      <3>2. board[m.dest] # m.piece
        BY <1>1, HandleMotionFrame
      <3> QED BY <1>1, <2>3, <3>1, <3>2 DEF Capture, IndInv, TypeOK
    <2>4. CASE Land(m)
      BY <1>1, <2>4, PieceAssumption DEF Land, add_piece, IndInv, TypeOK
    <2> QED BY <1>1, <2>1, <2>2, <2>3, <2>4 DEF Arrive, Interceptors
  <1> QED BY <1>1, <1>2, <1>3 DEF MovingIsTemporary

(* A step that takes a MOVING piece's event away also unmarks the piece.   *)
LEMMA MovingStep == IndInv /\ MovingIsTemporary /\ [Next]_vars => MovingIsTemporary'
  <1> SUFFICES ASSUME IndInv, MovingIsTemporary, [Next]_vars PROVE MovingIsTemporary'
    OBVIOUS
  <1>0. \A j \in jumps : j.pos \in Cell
    BY DEF IndInv, TypeOK, Jump
  <1>1. ASSUME NEW src \in Cell, NEW dst \in Cell, RequestMove(src, dst)
        PROVE  MovingIsTemporary'
    <2> DEFINE n == [piece |-> board[src], source |-> src, dest |-> dst,
                     remaining |-> Dist(src, dst) * MoveTime]
    <2>1. /\ board' = [board EXCEPT ![src] = NoPiece]
          /\ pstate' = [pstate EXCEPT ![board[src]] = "MOVING"]
          /\ motions' = motions \cup {n}
          /\ UNCHANGED << jumps, handled_jumps, handled_motions >>
          /\ ms = 0
      BY <1>1 DEF RequestMove, start_motion, loopVars
    <2>2. Unhandled' = Unhandled \cup {n} /\ n.piece = board[src]
      BY <2>1, NothingHandled DEF Unhandled
    <2> QED BY <1>0, <2>1, <2>2 DEF MovingIsTemporary, IndInv, TypeOK
  <1>2. ASSUME NEW pos \in Cell, RequestJump(pos) PROVE MovingIsTemporary'
    <2> DEFINE n == [piece |-> board[pos], pos |-> pos, remaining |-> JumpTime]
    <2>1. /\ pstate' = [pstate EXCEPT ![board[pos]] = "MOVING"]
          /\ jumps' = jumps \cup {n}
          /\ UNCHANGED << board, motions, handled_jumps, handled_motions >>
          /\ ms = 0
      BY <1>2 DEF RequestJump, loopVars
    <2>2. handled_jumps = {} /\ n.piece = board[pos] /\ n.pos = pos
      BY <2>1, NothingHandled
    <2> QED BY <2>1, <2>2 DEF MovingIsTemporary, Unhandled, IndInv, TypeOK
  <1>3. ASSUME NEW t \in Ticks, BeginUpdate(t) PROVE MovingIsTemporary'
    BY <1>3, NothingHandled DEF BeginUpdate, boardVars, Unhandled, MovingIsTemporary
  <1>4. ASSUME NEW j \in jumps, HandleJump(j) PROVE MovingIsTemporary'
    <2>1. /\ handled_jumps' = handled_jumps \cup {j}
          /\ UNCHANGED << board, motions, jumps, handled_motions >>
      BY <1>4 DEF HandleJump
    <2>2. CASE LandsAtHome(j)
      BY <1>4, <2>1, <2>2 DEF HandleJump, MovingIsTemporary, Unhandled, IndInv, TypeOK
    <2>3. CASE ~LandsAtHome(j)
      BY <1>4, <2>1, <2>3 DEF HandleJump, LandsAtHome, MovingIsTemporary, Unhandled
    <2> QED BY <2>2, <2>3
  <1>5. ASSUME NEW m \in motions, HandleMotion(m) PROVE MovingIsTemporary'
    BY <1>5, HandleMotionMoving
  <1>6. CASE EndUpdate
    <2>1. UNCHANGED << board, pstate >>
      BY <1>6 DEF EndUpdate, boardVars
    <2> QED BY <1>6, <2>1, UnresolvedSurvive DEF MovingIsTemporary
  <1>7. CASE UNCHANGED vars
    BY <1>7 DEF vars, boardVars, timeVars, loopVars, MovingIsTemporary, Unhandled
  <1> QED BY <1>1, <1>2, <1>3, <1>4, <1>5, <1>6, <1>7 DEF Next, Update

(* Whatever jump is cut short by a move, a block or a capture: a piece     *)
(* marked MOVING always has an event ahead that will unmark it.            *)
THEOREM NobodyMovesForever == Spec => []MovingIsTemporary
  <1>1. Init => MovingIsTemporary
    BY DEF Init, MovingIsTemporary
  <1> QED BY <1>1, MovingStep, EngineInvariant, PTL DEF Spec

-----------------------------------------------------------------------------
(* Kinds change by promotion only, which neither takes nor makes a king.   *)
LEMMA KingsStayKingsStep ==
    ASSUME IndInv, KingsStayKings, [Next]_vars
    PROVE  KingsStayKings'
  <1>1. kind' = kind \/ \E p \in Pieces, c \in Cell : kind' = Promote(p, c)
    <2>1. ASSUME NEW m \in motions, HandleMotion(m)
          PROVE  kind' = kind \/ \E p \in Pieces, c \in Cell : kind' = Promote(p, c)
      <3>1. m.piece \in Pieces /\ m.dest \in Cell /\ Arrive(m)
        BY <2>1, HandleMotionFrame DEF Motion
      <3> QED BY <3>1 DEF Arrive, BlockAt, MidAirCapture, Capture, Land
    <2> QED BY <2>1 DEF Next, Update, RequestMove, RequestJump, BeginUpdate, HandleJump, EndUpdate,
                        boardVars, vars
  <1> QED BY <1>1 DEF KingsStayKings, Promote, IndInv, TypeOK

(* Only EndUpdate returns to ms = 0 after a capture, and it looks for the  *)
(* kings that are left.                                                    *)
LEMMA KingStep == IndInv /\ KingInv /\ [Next]_vars => KingInv'
  <1> SUFFICES ASSUME IndInv, KingInv, [Next]_vars PROVE CapturedKingEndsGame'
    BY KingsStayKingsStep DEF KingInv
  <1> SUFFICES ASSUME ms' = 0, NEW k \in Pieces, InitialKings(Color[k]) = {k},
                      pstate'[k] = "CAPTURED"
               PROVE  game_over'
    BY DEF CapturedKingEndsGame, InitialKings
  <1>1. ASSUME UNCHANGED << ms, game_over >>, pstate[k] = "CAPTURED" PROVE game_over'
    BY <1>1 DEF KingInv, CapturedKingEndsGame
  <1>2. ASSUME NEW src \in Cell, NEW dst \in Cell, RequestMove(src, dst) PROVE game_over'
    BY <1>1, <1>2 DEF RequestMove, start_motion, stateVars, loopVars, IndInv, TypeOK
  <1>3. ASSUME NEW pos \in Cell, RequestJump(pos) PROVE game_over'
    BY <1>1, <1>3 DEF RequestJump, stateVars, loopVars, IndInv, TypeOK
  <1>4. CASE EndUpdate
    <2>1. pstate[k] = "CAPTURED" /\ \A c \in Cell : board[c] # k
      BY <1>4, PieceAssumption DEF EndUpdate, boardVars, IndInv, BoardConsistent
    <2>2. KingsLeft(Color[k], board, motions', jumps') = {}
      BY <2>1 DEF KingsLeft, KingInv, KingsStayKings, InitialKings
    <2>3. Color[k] \in Colors
      BY ColorAssumption
    <2> QED BY <1>4, <2>2, <2>3 DEF EndUpdate, check_game_status
  <1>5. CASE UNCHANGED vars
    BY <1>1, <1>5 DEF vars, boardVars, loopVars, stateVars
  <1>6. ASSUME NEW t \in Ticks, BeginUpdate(t) PROVE FALSE
    BY <1>6, TimeAssumption DEF BeginUpdate
  <1>7. ASSUME \/ \E j \in jumps : HandleJump(j)
               \/ \E m \in motions : HandleMotion(m)
        PROVE  FALSE
    BY <1>7, TimeAssumption DEF HandleJump, HandleMotion, IndInv, TypeOK
  <1> QED BY <1>2, <1>3, <1>4, <1>5, <1>6, <1>7 DEF Next, Update

(* When a side's only king is captured, on the board or in mid-air, the    *)
(* update that captured it ends the game: no request comes in between.     *)
THEOREM KingCaptureEndsGame == Spec => []CapturedKingEndsGame
  <1>1. Init => KingInv
    BY DEF Init, KingInv, KingsStayKings, CapturedKingEndsGame
  <1>2. KingInv => CapturedKingEndsGame
    BY DEF KingInv
  <1> QED BY <1>1, <1>2, KingStep, EngineInvariant, PTL DEF Spec

-----------------------------------------------------------------------------
(* The score is a sum over the captured pieces, and a sum over a set is    *)
(* defined by a recursive function on its subsets.  g is such a function   *)
(* for the worths v and the subsets of P, whatever the order of the terms. *)
IsTotal(g, P, v) ==
    /\ g \in [SUBSET P -> Nat]
    /\ g[{}] = 0
    /\ \A s \in SUBSET P : \A x \in s : g[s] = v[x] + g[s \ {x}]

(* Induction over finite sets, as the choice of a smallest counterexample. *)
LEMMA SmallestSet ==
    ASSUME NEW P, IsFiniteSet(P), NEW T \in SUBSET (SUBSET P), T # {}
    PROVE  \E s \in T : \A y \in T : y \subseteq s => y = s
  <1>1. IsWellFoundedOn(StrictSubsetOrdering(P), SUBSET P)
    BY FS_StrictSubsetOrderingWellFounded, FS_FiniteSubsetsOfFinite
  <1>2. PICK s \in T : \A y \in T : ~(<< y, s >> \in StrictSubsetOrdering(P))
    BY <1>1, WFMin
  <1>3. ASSUME NEW y \in T, y \subseteq s, y # s PROVE FALSE
    <2>1. << y, s >> \in StrictSubsetOrdering(P)
      BY <1>3 DEF StrictSubsetOrdering
    <2> QED BY <1>2, <2>1
  <1> QED BY <1>3

(* A smallest set without such a function would have one: take any of its  *)
(* members away and add it back.                                           *)
LEMMA TotalExists ==
    ASSUME NEW P, IsFiniteSet(P), NEW v \in [P -> Nat]
    PROVE  \E g : IsTotal(g, P, v)
  <1> DEFINE T == {Q \in SUBSET P : ~\E g : IsTotal(g, Q, v)}
  <1> SUFFICES ASSUME ~\E g : IsTotal(g, P, v) PROVE FALSE
    OBVIOUS
  <1>1. P \in T /\ T \in SUBSET (SUBSET P)
    OBVIOUS
  <1>2. PICK Q \in T : \A y \in T : y \subseteq Q => y = Q
    <2> HIDE DEF T
    <2> QED BY <1>1, SmallestSet
  <1>3. Q # {}
    <2>1. ASSUME Q = {} PROVE IsTotal([s \in SUBSET Q |-> 0], Q, v)
      BY <2>1 DEF IsTotal
    <2> QED BY <2>1
  <1>4. PICK y \in Q : TRUE
    BY <1>3
  <1> DEFINE R == Q \ {y}
  <1>5. R \in SUBSET P /\ R # Q /\ R \subseteq Q
    BY <1>4
  <1>6. PICK g : IsTotal(g, R, v)
    BY <1>2, <1>5
  <1> DEFINE h == [s \in SUBSET Q |-> IF y \in s THEN v[y] + g[s \ {y}] ELSE g[s]]
  <1>7. /\ g \in [SUBSET R -> Nat] /\ g[{}] = 0 /\ y \in P /\ v[y] \in Nat
        /\ \A s \in SUBSET R : \A x \in s : g[s] = v[x] + g[s \ {x}]
    BY <1>4, <1>6 DEF IsTotal
  <1>8. /\ \A s \in SUBSET Q : y \in s => h[s] = v[y] + g[s \ {y}] /\ s \ {y} \in SUBSET R
        /\ \A s \in SUBSET Q : y \notin s => h[s] = g[s] /\ s \in SUBSET R
    OBVIOUS
  <1>9. h \in [SUBSET Q -> Nat] /\ h[{}] = 0
    BY <1>7, <1>8
  <1>10. ASSUME NEW s \in SUBSET Q, NEW x \in s PROVE h[s] = v[x] + h[s \ {x}]
    <2>1. s \ {x} \in SUBSET Q /\ x \in P /\ v[x] \in Nat
      OBVIOUS
    <2> HIDE DEF h, R
    <2>2. CASE y \notin s
      BY <1>7, <1>8, <2>1, <2>2
    <2>3. CASE x = y
      BY <1>8, <2>1, <2>3
    <2>4. CASE y \in s /\ x # y
      <3>1. h[s] = v[y] + g[s \ {y}] /\ h[s \ {x}] = v[y] + g[(s \ {x}) \ {y}]
        BY <1>8, <2>1, <2>4
      <3>2. (s \ {x}) \ {y} = (s \ {y}) \ {x} /\ x \in s \ {y} /\ s \ {y} \in SUBSET R
        BY <1>8, <2>4
      <3>3. g[s \ {y}] = v[x] + g[(s \ {y}) \ {x}]
        BY <1>7, <3>2
      <3>4. (s \ {y}) \ {x} \in SUBSET R
        BY <3>2
      <3>5. g[(s \ {y}) \ {x}] \in Nat
        BY <1>7, <3>4
      <3>6. \A a, b, d \in Nat : a + (b + d) = b + (a + d)
        OBVIOUS
      <3>7. h[s] = v[y] + (v[x] + g[(s \ {y}) \ {x}])
        BY ONLY <3>1, <3>3
      <3>8. h[s \ {x}] = v[y] + g[(s \ {y}) \ {x}]
        BY ONLY <3>1, <3>2
      <3>9. v[y] \in Nat
        BY <1>7
      <3> QED BY ONLY <2>1, <3>5, <3>6, <3>7, <3>8, <3>9
    <2> QED BY <2>2, <2>3, <2>4
  <1> HIDE DEF h
  <1>11. IsTotal(h, Q, v)
    BY <1>9, <1>10 DEF IsTotal
  <1> QED BY <1>11

(* The fold that MapThenSumSet chooses agrees with every such function.    *)
LEMMA TotalIs ==
    ASSUME NEW S, IsFiniteSet(S), NEW v, NEW g, IsTotal(g, S, v)
    PROVE  Total(v, S) = g[S]
  <1> DEFINE pick(s) == CHOOSE x \in s : TRUE
             Fold(i) == i = [s \in SUBSET S |-> IF s = {} THEN 0 ELSE v[pick(s)] + i[s \ {pick(s)}]]
             iter == CHOOSE i : Fold(i)
  <1>1. Total(v, S) = iter[S]
    BY DEF Total, MapThenSumSet, MapThenFoldSet
  <1>2. \A s \in SUBSET S : s # {} => pick(s) \in s
    OBVIOUS
  <1> HIDE DEF pick
  <1>3. Fold(g)
    <2>1. \A s \in SUBSET S : g[s] = IF s = {} THEN 0 ELSE v[pick(s)] + g[s \ {pick(s)}]
      BY <1>2 DEF IsTotal
    <2>2. g = [s \in SUBSET S |-> g[s]]
      BY DEF IsTotal
    <2> QED BY <2>1, <2>2
  <1>4. Fold(iter)
    <2> HIDE DEF Fold
    <2> QED BY <1>3
  <1> HIDE DEF iter
  <1> DEFINE T == {s \in SUBSET S : iter[s] # g[s]}
  <1>5. T = {}
    <2> SUFFICES ASSUME T # {} PROVE FALSE
      OBVIOUS
    <2>1. PICK s \in T : \A y \in T : y \subseteq s => y = s
      <3>1. T \in SUBSET (SUBSET S)
        OBVIOUS
      <3> HIDE DEF T
      <3> QED BY <3>1, SmallestSet
    <2>2. s \in SUBSET S /\ iter[s] # g[s]
      OBVIOUS
    <2>3. s # {}
      BY <1>4, <2>2 DEF IsTotal
    <2>4. pick(s) \in s /\ s \ {pick(s)} \in SUBSET S /\ s \ {pick(s)} # s
      BY <1>2, <2>2, <2>3
    <2>5. iter[s \ {pick(s)}] = g[s \ {pick(s)}]
      BY <2>1, <2>4
    <2>6. iter[s] = v[pick(s)] + iter[s \ {pick(s)}]
      BY <1>4, <2>2, <2>3
    <2>7. g[s] = v[pick(s)] + g[s \ {pick(s)}]
      BY <1>3, <2>2, <2>3
    <2> QED BY <2>2, <2>5, <2>6, <2>7
  <1> QED BY <1>1, <1>5

(* Nothing taken, nothing scored.                                          *)
LEMMA TotalEmpty ==
    ASSUME NEW v
    PROVE  Total(v, {}) = 0
  <1> DEFINE g == [s \in SUBSET {} |-> 0]
  <1>1. IsTotal(g, {}, v)
    BY DEF IsTotal
  <1> HIDE DEF g
  <1> QED BY <1>1, TotalIs, FS_EmptySet DEF IsTotal

(* One more piece adds its worth.                                          *)
LEMMA TotalAdd ==
    ASSUME NEW P, IsFiniteSet(P), NEW v \in [P -> Nat], NEW S \in SUBSET P, NEW x \in P \ S
    PROVE  Total(v, S \cup {x}) = v[x] + Total(v, S)
  <1>1. PICK g : IsTotal(g, P, v)
    BY TotalExists
  <1>2. ASSUME NEW Q \in SUBSET P PROVE Total(v, Q) = g[Q]
    <2> DEFINE h == [s \in SUBSET Q |-> g[s]]
    <2>1. IsTotal(h, Q, v)
      <3>1. h \in [SUBSET Q -> Nat] /\ h[{}] = 0
        BY <1>1 DEF IsTotal
      <3>2. ASSUME NEW s \in SUBSET Q, NEW y \in s PROVE h[s] = v[y] + h[s \ {y}]
        <4>1. s \in SUBSET P /\ s \ {y} \in SUBSET Q
          OBVIOUS
        <4> QED BY <1>1, <4>1 DEF IsTotal
      <3> HIDE DEF h
      <3> QED BY <3>1, <3>2 DEF IsTotal
    <2>2. IsFiniteSet(Q)
      BY FS_Subset
    <2>3. h[Q] = g[Q]
      OBVIOUS
    <2> HIDE DEF h
    <2> QED BY <2>1, <2>2, <2>3, TotalIs
  <1>3. S \cup {x} \in SUBSET P /\ x \in S \cup {x} /\ (S \cup {x}) \ {x} = S
    OBVIOUS
  <1>4. g[S \cup {x}] = v[x] + g[S]
    BY <1>1, <1>3 DEF IsTotal
  <1> QED BY <1>2, <1>3, <1>4

(* Only the worths of the members count.                                   *)
LEMMA TotalSame ==
    ASSUME NEW S, IsFiniteSet(S), NEW v, NEW w, \A p \in S : v[p] = w[p] /\ v[p] \in Nat
    PROVE  Total(v, S) = Total(w, S)
  <1> DEFINE u == [p \in S |-> v[p]]
  <1>1. u \in [S -> Nat]
    OBVIOUS
  <1>2. PICK g : IsTotal(g, S, u)
    BY <1>1, TotalExists
  <1>3. IsTotal(g, S, v) /\ IsTotal(g, S, w)
    BY <1>2 DEF IsTotal
  <1> QED BY <1>3, TotalIs

-----------------------------------------------------------------------------
(* Every piece is worth a natural number, and a set of pieces is finite.   *)
LEMMA WorthType ==
    ASSUME IndInv
    PROVE  Worth \in [Pieces -> Nat] /\ \A c \in Colors : IsFiniteSet(TakenBy(c))
  <1>1. \A p \in Pieces : get_piece_value(kind[p]) \in Nat
    BY DEF IndInv, TypeOK, get_piece_value, Kinds
  <1>2. \A c \in Colors : TakenBy(c) \subseteq Pieces
    BY DEF TakenBy
  <1> QED BY <1>1, <1>2, FiniteAssumption, FS_Subset DEF Worth

(* A step that takes no piece, and promotes none that was taken.           *)
LEMMA NothingTaken ==
    ASSUME IndInv, ScoreAccounts, UNCHANGED score,
           \A p \in Pieces : pstate'[p] = "CAPTURED" <=> pstate[p] = "CAPTURED",
           \A p \in Pieces : pstate[p] = "CAPTURED" => kind'[p] = kind[p]
    PROVE  ScoreAccounts'
  <1> SUFFICES ASSUME NEW c \in Colors PROVE score[c] = Total(Worth', TakenBy(c)')
    BY DEF ScoreAccounts
  <1>1. TakenBy(c)' = TakenBy(c)
    BY DEF TakenBy
  <1>2. \A p \in TakenBy(c) : Worth[p] = Worth'[p] /\ Worth[p] \in Nat
    BY WorthType DEF TakenBy, Worth
  <1>3. IsFiniteSet(TakenBy(c))
    BY WorthType
  <1>4. Total(Worth, TakenBy(c)) = Total(Worth', TakenBy(c))
    BY <1>2, <1>3, TotalSame
  <1> QED BY <1>1, <1>4 DEF ScoreAccounts

(* A step that takes one piece and scores it for the other side.           *)
LEMMA OneTaken ==
    ASSUME IndInv, ScoreAccounts,
           NEW v \in Pieces, NEW c \in Colors, pstate[v] # "CAPTURED", Color[v] # c,
           score' = [score EXCEPT ![c] = @ + get_piece_value(kind[v])],
           \A p \in Pieces : pstate'[p] = "CAPTURED" <=> pstate[p] = "CAPTURED" \/ p = v,
           \A p \in Pieces : pstate'[p] = "CAPTURED" => kind'[p] = kind[p]
    PROVE  ScoreAccounts'
  <1> SUFFICES ASSUME NEW d \in Colors PROVE score'[d] = Total(Worth', TakenBy(d)')
    BY DEF ScoreAccounts
  <1>1. TakenBy(d) \subseteq Pieces /\ v \notin TakenBy(d)
    BY DEF TakenBy
  <1>2. IsFiniteSet(TakenBy(d)')
    <2>1. TakenBy(d)' \subseteq Pieces
      BY DEF TakenBy
    <2> QED BY <2>1, FiniteAssumption, FS_Subset
  <1>3. Total(Worth, TakenBy(d)') = Total(Worth', TakenBy(d)')
    <2>1. \A p \in TakenBy(d)' : Worth[p] = Worth'[p] /\ Worth[p] \in Nat
      BY WorthType DEF TakenBy, Worth
    <2> QED BY <1>2, <2>1, TotalSame
  <1>4. score[d] = Total(Worth, TakenBy(d)) /\ score \in [Colors -> Nat]
    BY DEF ScoreAccounts, IndInv, TypeOK
  <1>5. CASE d = c
    <2>1. TakenBy(d)' = TakenBy(d) \cup {v}
      BY <1>5 DEF TakenBy
    <2>2. Total(Worth, TakenBy(d) \cup {v}) = Worth[v] + Total(Worth, TakenBy(d))
      BY <1>1, WorthType, FiniteAssumption, TotalAdd
    <2>3. score'[d] = score[d] + Worth[v] /\ score[d] \in Nat /\ Worth[v] \in Nat
      BY <1>4, <1>5, WorthType DEF Worth
    <2>4. \A a, b \in Nat : a + b = b + a
      OBVIOUS
    <2> QED BY ONLY <1>3, <1>4, <2>1, <2>2, <2>3, <2>4
  <1>6. CASE d # c
    <2>1. Color[v] = d
      BY <1>6, ColorAssumption DEF Colors
    <2>2. TakenBy(d)' = TakenBy(d)
      BY <2>1 DEF TakenBy
    <2> QED BY <1>3, <1>4, <1>6, <2>2
  <1> QED BY <1>5, <1>6

(* The outcomes of a motion: the piece that a capture takes, in mid-air or *)
(* on the board, had not been taken before, and is not the one promoted.   *)
LEMMA HandleMotionScore ==
    ASSUME IndInv, ScoreAccounts, NEW m \in motions, HandleMotion(m)
    PROVE  ScoreAccounts'
  <1>1. /\ m.piece \in Pieces /\ m.dest \in Cell
        /\ pstate[m.piece] = "MOVING"
        /\ Color[m.piece] \in Colors
        /\ \A c \in Cell : board[c] # m.piece
        /\ Arrive(m)
    BY HandleMotionFrame, ColorAssumption DEF Motion
  <1>2. CASE BlockAt(m)
    BY <1>1, <1>2, NothingTaken DEF BlockAt, stateVars, IndInv, TypeOK
  <1>3. ASSUME NEW j \in jumps, Color[j.piece] # Color[m.piece], MidAirCapture(m, j)
        PROVE  ScoreAccounts'
    <2>1. Color[j.piece] \in Colors
      BY ColorAssumption DEF IndInv, TypeOK, Jump
    <2> QED BY <1>1, <1>3, <2>1, OneTaken DEF MidAirCapture, IndInv, TypeOK
  <1>4. \A p \in Pieces : p # m.piece => Promote(m.piece, m.dest)[p] = kind[p]
    BY <1>1 DEF Promote, IndInv, TypeOK
  <1>5. CASE /\ PieceAtDest(m) # NoPiece
             /\ Color[PieceAtDest(m)] # Color[m.piece]
             /\ Capture(m, PieceAtDest(m))
    <2> DEFINE v == PieceAtDest(m)
    <2>1. v = board[m.dest] /\ v \in Pieces /\ v # m.piece
      BY <1>1, <1>5 DEF PieceAtDest, IndInv, TypeOK
    <2>2. pstate[v] # "CAPTURED"
      BY <1>1, <2>1, PieceAssumption DEF IndInv, BoardConsistent
    <2>3. /\ score' = [score EXCEPT ![Color[m.piece]] = @ + get_piece_value(kind[v])]
          /\ pstate' = [pstate EXCEPT ![v] = "CAPTURED", ![m.piece] = "IDLE"]
          /\ kind' = Promote(m.piece, m.dest)
          /\ Color[v] # Color[m.piece]
      BY <1>5 DEF Capture
    <2> HIDE DEF v
    <2>4. \A p \in Pieces : pstate'[p] = "CAPTURED" <=> pstate[p] = "CAPTURED" \/ p = v
      BY <1>1, <2>1, <2>3 DEF IndInv, TypeOK
    <2>5. \A p \in Pieces : pstate'[p] = "CAPTURED" => kind'[p] = kind[p]
      BY <1>1, <1>4, <2>1, <2>3, <2>4
    <2> QED BY <1>1, <2>1, <2>2, <2>3, <2>4, <2>5, OneTaken
  <1>6. CASE Land(m)
    <2>1. /\ UNCHANGED score
          /\ pstate' = [pstate EXCEPT ![m.piece] = "IDLE"]
          /\ kind' = Promote(m.piece, m.dest)
      BY <1>6 DEF Land, stateVars
    <2>2. \A p \in Pieces : pstate'[p] = "CAPTURED" <=> pstate[p] = "CAPTURED"
      BY <1>1, <2>1 DEF IndInv, TypeOK
    <2> QED BY <1>1, <1>4, <2>1, <2>2, NothingTaken
  <1> QED BY <1>1, <1>2, <1>3, <1>5, <1>6 DEF Arrive, Interceptors

(* The other steps neither take, score nor promote.                        *)
LEMMA ScoreStep == IndInv /\ ScoreAccounts /\ [Next]_vars => ScoreAccounts'
  <1> SUFFICES ASSUME IndInv, ScoreAccounts, [Next]_vars PROVE ScoreAccounts'
    OBVIOUS
  <1>1. ASSUME NEW m \in motions, HandleMotion(m) PROVE ScoreAccounts'
    BY <1>1, HandleMotionScore
  <1>2. CASE ~\E m \in motions : HandleMotion(m)
    <2>1. UNCHANGED << score, kind >>
      BY <1>2 DEF Next, Update, RequestMove, RequestJump, BeginUpdate, HandleJump, EndUpdate,
                  vars, boardVars, stateVars
    <2>2. \A p \in Pieces : pstate[p] = "CAPTURED" => pstate'[p] = "CAPTURED"
      BY StepKeepsCaptured
    <2>3. ASSUME NEW p \in Pieces, pstate[p] # "CAPTURED" PROVE pstate'[p] # "CAPTURED"
      BY <1>2, <2>3 DEF Next, Update, RequestMove, start_motion, RequestJump, BeginUpdate,
                        HandleJump, EndUpdate, vars, boardVars, IndInv, TypeOK
    <2> QED BY <2>1, <2>2, <2>3, NothingTaken
  <1> QED BY <1>1, <1>2

(* The score of a side is the worth of what it has taken: no capture, in   *)
(* mid-air or on the board, is missed or counted twice, and a promotion    *)
(* never changes the worth of a piece that is already gone.                *)
THEOREM ScoreIsMaterial == Spec => []ScoreAccounts
  <1>1. ASSUME Init PROVE ScoreAccounts
    <2>1. \A c \in Colors : TakenBy(c) = {} /\ score[c] = 0
      BY <1>1 DEF Init, TakenBy
    <2> QED BY <2>1, TotalEmpty DEF ScoreAccounts
  <1> QED BY <1>1, ScoreStep, EngineInvariant, PTL DEF Spec

=============================================================================
