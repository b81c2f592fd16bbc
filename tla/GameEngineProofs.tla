-------------------------- MODULE GameEngineProofs --------------------------
(***************************************************************************)
(* Proofs about GameEngine for boards of any size, any set of pieces and   *)
(* any times with JumpTime <= RestTime, and, at the end, about the path    *)
(* walk of ChessRules.                                                     *)
(***************************************************************************)
EXTENDS GameEngine, TLAPS

(* The events an update has resolved are events that fell due in it.       *)
HandledAreDue ==
    /\ \A m \in handled_motions : m.remaining <= ms
    /\ \A j \in handled_jumps : j.remaining <= ms

(* No jump in the air lasts longer than a fresh one.                       *)
JumpsAreBounded == \A j \in jumps : j.remaining <= JumpTime

(* A piece that stands on a cell over which another piece's jump has not   *)
(* ended was sent back there by a block, and rests at least until that     *)
(* jump ends.                                                              *)
SquattersRest ==
    \A j \in jumps :
        \/ board[j.pos] \in {NoPiece, j.piece}
        \/ j.remaining <= ms
        \/ \E cd \in cooldowns : /\ cd.piece = board[j.pos]
                                 /\ cd.remaining >= j.remaining - ms

IndInv ==
    /\ TypeOK
    /\ BoardConsistent
    /\ InFlightOffBoard
    /\ RestingNotInFlight
    /\ HandledAreDue
    /\ JumpsAreBounded
    /\ SquattersRest
    /\ OneJumperPerCell

-----------------------------------------------------------------------------
(* Two different cells are at least one step apart.                        *)
LEMMA DistPositive ==
    ASSUME NEW src \in Cell, NEW dst \in Cell, src # dst
    PROVE  Dist(src, dst) \in Nat \ {0}
  BY SizeAssumption DEF Dist, Larger, Abs, DRow, DCol, Cell

(* A motion of at least one cell takes a positive time.                    *)
LEMMA ProductPositive ==
    ASSUME NEW a \in Nat \ {0}, NEW b \in Nat \ {0}
    PROVE  a * b \in Nat \ {0}
  BY SMTT(30)

(* A legal move leaves its cell: a piece never captures itself.            *)
LEMMA LegalMoveLeaves ==
    ASSUME NEW src \in Cell, NEW dst \in Cell, validate_move(board, kind, src, dst)
    PROVE  src # dst
  BY DEF validate_move

(* The motions that an update leaves in the air have time left.            *)
LEMMA AgedMotions ==
    ASSUME NEW S \in SUBSET Motion, NEW t \in Nat
    PROVE  Aged(S, t) \subseteq Motion
  <1> SUFFICES ASSUME NEW x \in Aged(S, t) PROVE x \in Motion
    BY Zenon
  <1>1. PICK e \in S : e.remaining > t /\ x = [e EXCEPT !.remaining = e.remaining - t]
    BY DEF Aged
  <1>2. e \in Motion
    OBVIOUS
  <1> QED BY <1>1, <1>2 DEF Motion

(* So do the jumps, and each is an old one with less time left.            *)
LEMMA AgedJumps ==
    ASSUME NEW S \in SUBSET Jump, NEW t \in Nat
    PROVE  /\ Aged(S, t) \subseteq Jump
           /\ \A x \in Aged(S, t) : \E e \in S :
                 /\ e.remaining > t
                 /\ x.piece = e.piece
                 /\ x.pos = e.pos
                 /\ x.remaining = e.remaining - t
  <1> SUFFICES ASSUME NEW x \in Aged(S, t)
               PROVE  /\ x \in Jump
                      /\ \E e \in S : /\ e.remaining > t
                                      /\ x.piece = e.piece
                                      /\ x.pos = e.pos
                                      /\ x.remaining = e.remaining - t
    BY Zenon
  <1>1. PICK e \in S : e.remaining > t /\ x = [e EXCEPT !.remaining = e.remaining - t]
    BY DEF Aged
  <1>2. e \in Jump
    OBVIOUS
  <1>3. /\ x \in Jump
        /\ x.piece = e.piece /\ x.pos = e.pos /\ x.remaining = e.remaining - t
    BY <1>1, <1>2 DEF Jump
  <1> QED BY <1>1, <1>3

(* Cooldowns belong to the pieces they did, and one that outlasts the      *)
(* frame survives with that much less time.                                *)
LEMMA AgedCooldowns ==
    ASSUME NEW S \in SUBSET Cooldown, NEW t \in Nat
    PROVE  /\ Aged(S, t) \subseteq Cooldown
           /\ \A x \in Aged(S, t) : \E e \in S : x.piece = e.piece
           /\ \A e \in S : e.remaining > t =>
                 \E x \in Aged(S, t) : x.piece = e.piece /\ x.remaining = e.remaining - t
  <1>1. ASSUME NEW x \in Aged(S, t)
        PROVE  x \in Cooldown /\ \E e \in S : x.piece = e.piece
    <2>1. PICK e \in S : e.remaining > t /\ x = [e EXCEPT !.remaining = e.remaining - t]
      BY DEF Aged
    <2>2. e \in Cooldown
      OBVIOUS
    <2> QED BY <2>1, <2>2 DEF Cooldown
  <1>2. ASSUME NEW e \in S, e.remaining > t
        PROVE  \E x \in Aged(S, t) : x.piece = e.piece /\ x.remaining = e.remaining - t
    <2> DEFINE x == [e EXCEPT !.remaining = e.remaining - t]
    <2>1. x \in Aged(S, t)
      BY <1>2 DEF Aged
    <2>2. e \in Cooldown
      OBVIOUS
    <2>3. x.piece = e.piece /\ x.remaining = e.remaining - t
      BY <2>2 DEF Cooldown
    <2> QED BY <2>1, <2>3
  <1> QED BY <1>1, <1>2

-----------------------------------------------------------------------------
(* A freshly built board: every piece is on the cell it knows.             *)
LEMMA InitInd == Init => IndInv
  <1> SUFFICES ASSUME Init PROVE IndInv
    OBVIOUS
  <1>1. cell \in [Pieces -> Cell] /\ \A p, q \in Pieces : cell[p] = cell[q] => p = q
    BY LayoutAssumption DEF Init, Placement
  <1>2. ASSUME NEW c \in Cell
        PROVE  /\ board[c] \in Pieces \cup {NoPiece}
               /\ board[c] # NoPiece => board[c] \in Pieces /\ cell[board[c]] = c
    <2>1. CASE \E p \in Pieces : cell[p] = c
      BY <2>1 DEF Init, BoardOf
    <2>2. CASE ~\E p \in Pieces : cell[p] = c
      BY <2>2 DEF Init, BoardOf
    <2> QED BY <2>1, <2>2
  <1>3. TypeOK
    BY <1>1, <1>2, KindAssumption, TimeAssumption
    DEF Init, TypeOK, BoardOf, States
  <1>4. BoardConsistent
    BY <1>2 DEF Init, BoardConsistent
  <1> QED
    BY <1>3, <1>4 DEF Init, IndInv, InFlightOffBoard, RestingNotInFlight, HandledAreDue,
                      JumpsAreBounded, SquattersRest, OneJumperPerCell, Unhandled

(* request_move.                                                           *)
LEMMA RequestMoveInd ==
    ASSUME IndInv, NEW src \in Cell, NEW dst \in Cell, RequestMove(src, dst)
    PROVE  IndInv'
  <1> DEFINE p == board[src]
             n == [piece |-> p, source |-> src, dest |-> dst,
                   remaining |-> Dist(src, dst) * MoveTime]
  <1> USE DEF IndInv
  <1>1. p \in Pieces /\ cell[p] = src /\ pstate[p] # "CAPTURED"
    BY DEF RequestMove, CanAct, TypeOK, BoardConsistent
  <1>2. Dist(src, dst) * MoveTime \in Nat \ {0}
    BY DistPositive, ProductPositive, LegalMoveLeaves, TimeAssumption DEF RequestMove
  <1>3. n \in Motion
    BY <1>1, <1>2 DEF Motion
  <1>4. /\ board' = [board EXCEPT ![src] = NoPiece]
        /\ pstate' = [pstate EXCEPT ![p] = "MOVING"]
        /\ motions' = motions \cup {n}
        /\ UNCHANGED << cell, kind, jumps, cooldowns, game_over, score,
                        ms, handled_motions, handled_jumps >>
        /\ ms = 0
    BY DEF RequestMove, start_motion, stateVars, loopVars
  <1>5. TypeOK'
    BY <1>1, <1>3, <1>4 DEF TypeOK, States
  <1>6. /\ \A m \in motions : m.piece # p
        /\ \A cd \in cooldowns : cd.piece # p
    BY DEF RequestMove, CanAct, is_piece_moving, is_piece_cooling_down
  <1>7. Unhandled' \subseteq Unhandled \cup {n}
    BY <1>4 DEF Unhandled
  <1>8. BoardConsistent'
    BY <1>1, <1>4, PieceAssumption DEF BoardConsistent, TypeOK
  <1>9. InFlightOffBoard'
    <2> SUFFICES ASSUME NEW m \in Unhandled'
                 PROVE  /\ \A c \in Cell : board'[c] # m.piece
                        /\ pstate'[m.piece] = "MOVING"
                        /\ \A o \in Unhandled' : o.piece = m.piece => o = m
      BY DEF InFlightOffBoard
    <2>1. n.piece = p
      OBVIOUS
    <2>2. CASE m = n
      <3>1. \A c \in Cell : board'[c] # p
        BY <1>1, <1>4, PieceAssumption DEF BoardConsistent, TypeOK
      <3>2. pstate'[p] = "MOVING"
        BY <1>1, <1>4 DEF TypeOK
      <3> QED BY <2>1, <2>2, <3>1, <3>2, <1>6, <1>7 DEF Unhandled
    <2>3. CASE m \in Unhandled
      <3>1. m \in motions /\ m.piece \in Pieces /\ m.piece # p
        BY <2>3, <1>6 DEF Unhandled, TypeOK, Motion
      <3>2. \A c \in Cell : board'[c] # m.piece
        BY <2>3, <3>1, <1>4, PieceAssumption DEF InFlightOffBoard, TypeOK
      <3>3. pstate'[m.piece] = "MOVING"
        BY <2>3, <3>1, <1>1, <1>4 DEF InFlightOffBoard, TypeOK
      <3> QED BY <2>1, <2>3, <3>1, <3>2, <3>3, <1>7 DEF InFlightOffBoard
    <2> QED BY <1>7, <2>2, <2>3
  <1>10. RestingNotInFlight'
    BY <1>4, <1>6, <1>7 DEF RestingNotInFlight
  <1>11. SquattersRest'
    BY <1>4 DEF SquattersRest, TypeOK, Jump
  <1> QED
    BY <1>4, <1>5, <1>8, <1>9, <1>10, <1>11
    DEF HandledAreDue, JumpsAreBounded, OneJumperPerCell

(* request_jump: the piece on a cell over which there is already a jump    *)
(* either made that jump itself or is still resting (SquattersRest).       *)
LEMMA RequestJumpInd ==
    ASSUME IndInv, NEW pos \in Cell, RequestJump(pos)
    PROVE  IndInv'
  <1> DEFINE p == board[pos]
             n == [piece |-> p, pos |-> pos, remaining |-> JumpTime]
  <1> USE DEF IndInv
  <1>1. p \in Pieces /\ p # NoPiece
    BY DEF RequestJump, CanAct, TypeOK
  <1>2. n \in Jump
    BY <1>1, TimeAssumption DEF Jump
  <1>3. /\ pstate' = [pstate EXCEPT ![p] = "MOVING"]
        /\ jumps' = jumps \cup {n}
        /\ UNCHANGED << board, cell, kind, motions, cooldowns, game_over, score,
                        ms, handled_motions, handled_jumps >>
        /\ ms = 0
    BY DEF RequestJump, stateVars, loopVars
  <1>4. TypeOK'
    BY <1>1, <1>2, <1>3 DEF TypeOK, States
  <1>5. /\ \A m \in motions : m.piece # p
        /\ \A cd \in cooldowns : cd.piece # p
    BY DEF RequestJump, CanAct, is_piece_moving, is_piece_cooling_down
  <1>6. BoardConsistent'
    BY <1>1, <1>3 DEF BoardConsistent, TypeOK
  <1>7. InFlightOffBoard'
    BY <1>1, <1>3, <1>5 DEF InFlightOffBoard, TypeOK, Unhandled, Motion
  <1>8. RestingNotInFlight'
    BY <1>3 DEF RestingNotInFlight, Unhandled
  <1>9. JumpsAreBounded'
    BY <1>3, TimeAssumption DEF JumpsAreBounded
  <1>10. SquattersRest'
    <2>1. ASSUME NEW j \in jumps
          PROVE  \/ board'[j.pos] \in {NoPiece, j.piece}
                 \/ j.remaining <= ms'
                 \/ \E cd \in cooldowns' : cd.piece = board'[j.pos] /\ cd.remaining >= j.remaining - ms'
      BY <1>3 DEF SquattersRest
    <2>2. board'[n.pos] = n.piece
      BY <1>3
    <2> QED BY <1>3, <2>1, <2>2 DEF SquattersRest
  <1>11. \A j \in jumps : j.pos = pos => j.piece = p
    BY <1>1, <1>3, <1>5 DEF SquattersRest, TypeOK, Jump
  <1>12. OneJumperPerCell'
    BY <1>3, <1>11 DEF OneJumperPerCell
  <1> QED
    BY <1>3, <1>4, <1>6, <1>7, <1>8, <1>9, <1>10, <1>12 DEF HandledAreDue

(* The start of update: cooldowns run, and a rest that ends no sooner than *)
(* a jump still does so relative to the time left of it.                   *)
LEMMA BeginUpdateInd ==
    ASSUME IndInv, NEW t \in Ticks, BeginUpdate(t)
    PROVE  IndInv'
  <1> USE DEF IndInv
  <1>1. t \in Nat \ {0}
    BY TimeAssumption
  <1>2. /\ cooldowns' = Aged(cooldowns, t)
        /\ ms' = t /\ ms = 0
        /\ handled_motions' = {} /\ handled_jumps' = {}
        /\ UNCHANGED << board, cell, pstate, kind, motions, jumps, game_over, score >>
    BY DEF BeginUpdate, boardVars, stateVars
  <1>3. cooldowns \in SUBSET Cooldown
    BY DEF TypeOK
  <1>4. TypeOK'
    BY <1>1, <1>2, <1>3, AgedCooldowns DEF TypeOK
  <1>5. \A x \in cooldowns' : \E e \in cooldowns : x.piece = e.piece
    BY <1>1, <1>2, <1>3, AgedCooldowns
  <1>6. Unhandled' = Unhandled
    <2>1. handled_motions = {}
      BY <1>2 DEF HandledAreDue, TypeOK, Motion
    <2> QED BY <1>2, <2>1 DEF Unhandled
  <1>7. RestingNotInFlight'
    BY <1>5, <1>6 DEF RestingNotInFlight
  <1>8. InFlightOffBoard' /\ BoardConsistent'
    BY <1>2, <1>6 DEF InFlightOffBoard, BoardConsistent
  <1>9. SquattersRest'
    <2> SUFFICES ASSUME NEW j \in jumps, board[j.pos] \notin {NoPiece, j.piece}, j.remaining > t
                 PROVE  \E cd \in cooldowns' : cd.piece = board[j.pos] /\ cd.remaining >= j.remaining - t
      BY <1>1, <1>2 DEF SquattersRest, TypeOK, Jump
    <2>1. j.remaining \in Nat \ {0}
      BY DEF TypeOK, Jump
    <2>2. PICK e \in cooldowns : e.piece = board[j.pos] /\ e.remaining >= j.remaining
      BY <1>2, <2>1 DEF SquattersRest
    <2>3. e.remaining \in Nat /\ e.remaining > t
      BY <1>1, <2>1, <2>2 DEF TypeOK, Cooldown
    <2>4. PICK x \in Aged(cooldowns, t) : x.piece = e.piece /\ x.remaining = e.remaining - t
      BY <1>1, <1>3, <2>3, AgedCooldowns
    <2> QED BY <1>1, <1>2, <2>1, <2>2, <2>3, <2>4
  <1> QED
    BY <1>2, <1>4, <1>7, <1>8, <1>9 DEF HandledAreDue, JumpsAreBounded, OneJumperPerCell

(* The end of a jump.  Only a piece that stands on its own cell is marked  *)
(* IDLE and put to rest, so none that is in flight or captured is.         *)
LEMMA HandleJumpInd ==
    ASSUME IndInv, NEW j \in jumps, HandleJump(j)
    PROVE  IndInv'
  <1> USE DEF IndInv
  <1>1. /\ handled_jumps' = handled_jumps \cup {j}
        /\ UNCHANGED << board, cell, kind, motions, jumps, game_over, score, ms, handled_motions >>
        /\ j.remaining <= ms
    BY DEF HandleJump, stateVars, DueJumps
  <1>2. j \in Jump /\ j.piece \in Pieces /\ j.pos \in Cell
    BY DEF TypeOK, Jump
  <1>3. Unhandled' = Unhandled
    BY <1>1 DEF Unhandled
  <1>4. CASE LandsAtHome(j)
    <2>1. /\ pstate' = [pstate EXCEPT ![j.piece] = "IDLE"]
          /\ cooldowns' = cooldowns \cup {[piece |-> j.piece, remaining |-> RestTime]}
          /\ board[j.pos] = j.piece
      BY <1>4 DEF HandleJump, LandsAtHome, Rest
    <2>2. TypeOK'
      BY <1>1, <1>2, <2>1, TimeAssumption DEF TypeOK, States, Cooldown
    <2>3. BoardConsistent'
      BY <1>1, <1>2, <2>1 DEF BoardConsistent, TypeOK
    <2>4. \A m \in Unhandled : m.piece # j.piece
      BY <1>2, <2>1 DEF InFlightOffBoard
    <2>5. InFlightOffBoard'
      BY <1>1, <1>2, <1>3, <2>1, <2>4 DEF InFlightOffBoard, TypeOK, Motion, Unhandled
    <2>6. RestingNotInFlight'
      BY <1>3, <2>1, <2>4 DEF RestingNotInFlight
    <2>7. SquattersRest'
      BY <1>1, <2>1 DEF SquattersRest
    <2> QED
      BY <1>1, <2>2, <2>3, <2>5, <2>6, <2>7
      DEF HandledAreDue, JumpsAreBounded, OneJumperPerCell
  <1>5. CASE ~LandsAtHome(j)
    <2>1. UNCHANGED << pstate, cooldowns >>
      BY <1>5 DEF HandleJump
    <2> QED
      BY <1>1, <1>3, <2>1
      DEF TypeOK, BoardConsistent, InFlightOffBoard, RestingNotInFlight, HandledAreDue,
          JumpsAreBounded, SquattersRest, OneJumperPerCell
  <1> QED BY <1>4, <1>5

(* The motion resolved next is the only one of its piece, whose piece is   *)
(* in the air: every branch of advance_time starts from this.              *)
LEMMA HandleMotionFrame ==
    ASSUME IndInv, NEW m \in motions, HandleMotion(m)
    PROVE  /\ m \in Motion /\ m \in Unhandled
           /\ Unhandled' = Unhandled \ {m}
           /\ \A c \in Cell : board[c] # m.piece
           /\ pstate[m.piece] = "MOVING"
           /\ \A o \in Unhandled' : o.piece # m.piece
           /\ handled_motions' = handled_motions \cup {m}
           /\ m.remaining <= ms
           /\ UNCHANGED << motions, jumps, ms, handled_jumps >>
           /\ Arrive(m)
  <1>1. m \in Unhandled /\ m.remaining <= ms /\ handled_motions' = handled_motions \cup {m}
    BY DEF HandleMotion, DueMotions
  <1>2. UNCHANGED << motions, jumps, ms, handled_jumps >>
    BY DEF HandleMotion
  <1>3. /\ \A c \in Cell : board[c] # m.piece
        /\ pstate[m.piece] = "MOVING"
        /\ \A o \in Unhandled : o.piece = m.piece => o = m
    BY <1>1 DEF IndInv, InFlightOffBoard
  <1>4. Unhandled' = Unhandled \ {m}
    BY <1>1, <1>2 DEF Unhandled
  <1>5. Arrive(m)
    BY <1>3 DEF HandleMotion
  <1> QED BY <1>1, <1>2, <1>3, <1>4, <1>5 DEF IndInv, TypeOK

(* The parts of the invariant a branch of Arrive cannot disturb.           *)
LEMMA HandleMotionRest ==
    ASSUME IndInv, NEW m \in motions, HandleMotion(m)
    PROVE  HandledAreDue' /\ JumpsAreBounded' /\ OneJumperPerCell'
  BY HandleMotionFrame DEF IndInv, HandledAreDue, JumpsAreBounded, OneJumperPerCell

(* Friendly block, whether or not add_piece accepts the piece back.        *)
LEMMA BlockInd ==
    ASSUME IndInv, NEW m \in motions, HandleMotion(m), BlockAt(m)
    PROVE  IndInv'
  <1> DEFINE p == m.piece
             s == m.source
             cd == [piece |-> p, remaining |-> RestTime]
  <1> USE DEF IndInv
  <1>1. p \in Pieces /\ s \in Cell /\ p # NoPiece
    BY HandleMotionFrame, PieceAssumption DEF Motion
  <1>2. /\ cell' = [cell EXCEPT ![p] = s]
        /\ pstate' = [pstate EXCEPT ![p] = "IDLE"]
        /\ cooldowns' = cooldowns \cup {cd}
        /\ UNCHANGED << kind, game_over, score >>
    BY DEF BlockAt, Rest, stateVars
  <1>3. /\ board' \in [Cell -> Pieces \cup {NoPiece}]
        /\ \A c \in Cell : c # s => board'[c] = board[c]
        /\ board'[s] \in {p, board[s]}
    BY <1>1 DEF BlockAt, add_piece, TypeOK
  <1>4. \A c \in Cell : board[c] # p
    BY HandleMotionFrame
  <1>5. TypeOK'
    BY <1>1, <1>2, <1>3, HandleMotionFrame, TimeAssumption DEF TypeOK, States, Cooldown
  <1>6. BoardConsistent'
    BY <1>1, <1>2, <1>3, <1>4 DEF BoardConsistent, TypeOK
  <1>7. InFlightOffBoard'
    <2> SUFFICES ASSUME NEW o \in Unhandled'
                 PROVE  /\ \A c \in Cell : board'[c] # o.piece
                        /\ pstate'[o.piece] = "MOVING"
                        /\ \A q \in Unhandled' : q.piece = o.piece => q = o
      BY DEF InFlightOffBoard
    <2>1. o \in Unhandled /\ o.piece # p /\ o.piece \in Pieces
      BY HandleMotionFrame DEF TypeOK, Motion, Unhandled
    <2>2. \A c \in Cell : board'[c] # o.piece
      BY <1>1, <1>3, <2>1 DEF InFlightOffBoard
    <2>3. pstate'[o.piece] = "MOVING"
      BY <1>1, <1>2, <2>1 DEF InFlightOffBoard, TypeOK
    <2> QED BY <2>1, <2>2, <2>3, HandleMotionFrame DEF InFlightOffBoard
  <1>8. RestingNotInFlight'
    BY <1>2, HandleMotionFrame DEF RestingNotInFlight
  <1>9. SquattersRest'
    <2> SUFFICES ASSUME NEW j \in jumps
                 PROVE  \/ board'[j.pos] \in {NoPiece, j.piece}
                        \/ j.remaining <= ms
                        \/ \E x \in cooldowns' : x.piece = board'[j.pos] /\ x.remaining >= j.remaining - ms
      BY HandleMotionFrame DEF SquattersRest
    <2>1. j.pos \in Cell /\ j.remaining \in Nat \ {0} /\ j.remaining <= JumpTime
      BY DEF TypeOK, Jump, JumpsAreBounded
    <2>2. ms \in Nat
      BY TimeAssumption DEF TypeOK
    <2>3. CASE board'[j.pos] = board[j.pos]
      BY <1>2, <2>3 DEF SquattersRest
    <2>4. CASE board'[j.pos] = p
      <3>1. cd.remaining >= j.remaining - ms
        BY <2>1, <2>2, TimeAssumption
      <3> QED BY <1>2, <2>4, <3>1
    <2> QED BY <1>3, <2>1, <2>3, <2>4
  <1> QED
    BY <1>5, <1>6, <1>7, <1>8, <1>9, HandleMotionRest

(* Mid-air capture: the piece leaves the game without touching the board.  *)
LEMMA MidAirCaptureInd ==
    ASSUME IndInv, NEW m \in motions, HandleMotion(m), NEW j \in jumps, MidAirCapture(m, j)
    PROVE  IndInv'
  <1> DEFINE p == m.piece
  <1> USE DEF IndInv
  <1>1. p \in Pieces /\ kind[p] \in Kinds /\ Color[j.piece] \in Colors
    BY HandleMotionFrame, ColorAssumption DEF Motion, TypeOK, Jump
  <1>2. get_piece_value(kind[p]) \in Nat
    BY <1>1 DEF get_piece_value, Kinds
  <1>3. /\ pstate' = [pstate EXCEPT ![p] = "CAPTURED"]
        /\ score' = [score EXCEPT ![Color[j.piece]] = @ + get_piece_value(kind[p])]
        /\ UNCHANGED << board, cell, kind, cooldowns, game_over >>
    BY DEF MidAirCapture
  <1>4. score' \in [Colors -> Nat]
    BY <1>1, <1>2, <1>3 DEF TypeOK
  <1>5. TypeOK'
    BY <1>1, <1>3, <1>4, HandleMotionFrame DEF TypeOK, States
  <1>6. BoardConsistent'
    BY <1>3, HandleMotionFrame DEF BoardConsistent, TypeOK
  <1>7. InFlightOffBoard'
    BY <1>1, <1>3, HandleMotionFrame DEF InFlightOffBoard, TypeOK, Motion, Unhandled
  <1>8. RestingNotInFlight'
    BY <1>3, HandleMotionFrame DEF RestingNotInFlight
  <1>9. SquattersRest'
    BY <1>3, HandleMotionFrame DEF SquattersRest
  <1> QED
    BY <1>5, <1>6, <1>7, <1>8, <1>9, HandleMotionRest

(* Promotion changes the kind of the arriving piece at most.               *)
LEMMA PromoteType ==
    ASSUME IndInv, NEW p \in Pieces, NEW c \in Cell
    PROVE  Promote(p, c) \in [Pieces -> Kinds]
  BY DEF IndInv, TypeOK, Promote, Kinds

(* When nothing is jumping over the destination, whoever ends up there is  *)
(* not squatting under a jump that outlasts this update.                   *)
LEMMA ArrivalSquatters ==
    ASSUME IndInv, NEW m \in motions, HandleMotion(m), Interceptors(m) = {},
           cooldowns \subseteq cooldowns',
           \A c \in Cell : c # m.dest => board'[c] = board[c]
    PROVE  SquattersRest'
  <1> SUFFICES ASSUME NEW j \in jumps
               PROVE  \/ board'[j.pos] \in {NoPiece, j.piece}
                      \/ j.remaining <= ms
                      \/ \E x \in cooldowns' : x.piece = board'[j.pos] /\ x.remaining >= j.remaining - ms
    BY HandleMotionFrame DEF SquattersRest
  <1>1. CASE j.pos = m.dest
    BY <1>1 DEF Interceptors
  <1>2. CASE j.pos # m.dest
    <2>1. board'[j.pos] = board[j.pos]
      BY <1>2 DEF IndInv, TypeOK, Jump
    <2> QED BY <2>1 DEF IndInv, SquattersRest
  <1> QED BY <1>1, <1>2

(* Landing on a free cell.                                                 *)
LEMMA LandInd ==
    ASSUME IndInv, NEW m \in motions, HandleMotion(m), Interceptors(m) = {}, Land(m)
    PROVE  IndInv'
  <1> DEFINE p == m.piece
             d == m.dest
  <1> USE DEF IndInv
  <1>1. p \in Pieces /\ d \in Cell /\ p # NoPiece
    BY HandleMotionFrame, PieceAssumption DEF Motion
  <1>2. /\ cell' = [cell EXCEPT ![p] = d]
        /\ pstate' = [pstate EXCEPT ![p] = "IDLE"]
        /\ cooldowns' = cooldowns \cup {[piece |-> p, remaining |-> RestTime]}
        /\ kind' \in [Pieces -> Kinds]
        /\ UNCHANGED << game_over, score >>
    BY <1>1, PromoteType DEF Land, Rest, stateVars
  <1>3. /\ board' \in [Cell -> Pieces \cup {NoPiece}]
        /\ \A c \in Cell : c # d => board'[c] = board[c]
        /\ board'[d] \in {p, board[d]}
    BY <1>1 DEF Land, add_piece, TypeOK
  <1>4. \A c \in Cell : board[c] # p
    BY HandleMotionFrame
  <1>5. TypeOK'
    BY <1>1, <1>2, <1>3, HandleMotionFrame, TimeAssumption DEF TypeOK, States, Cooldown
  <1>6. BoardConsistent'
    BY <1>1, <1>2, <1>3, <1>4 DEF BoardConsistent, TypeOK
  <1>7. InFlightOffBoard'
    <2> SUFFICES ASSUME NEW o \in Unhandled'
                 PROVE  /\ \A c \in Cell : board'[c] # o.piece
                        /\ pstate'[o.piece] = "MOVING"
                        /\ \A q \in Unhandled' : q.piece = o.piece => q = o
      BY DEF InFlightOffBoard
    <2>1. o \in Unhandled /\ o.piece # p /\ o.piece \in Pieces
      BY HandleMotionFrame DEF TypeOK, Motion, Unhandled
    <2>2. \A c \in Cell : board'[c] # o.piece
      BY <1>1, <1>3, <2>1 DEF InFlightOffBoard
    <2>3. pstate'[o.piece] = "MOVING"
      BY <1>1, <1>2, <2>1 DEF InFlightOffBoard, TypeOK
    <2> QED BY <2>1, <2>2, <2>3, HandleMotionFrame DEF InFlightOffBoard
  <1>8. RestingNotInFlight'
    BY <1>2, HandleMotionFrame DEF RestingNotInFlight
  <1>9. SquattersRest'
    BY <1>2, <1>3, ArrivalSquatters
  <1> QED
    BY <1>5, <1>6, <1>7, <1>8, <1>9, HandleMotionRest

(* Capture of the enemy piece on the destination.                          *)
LEMMA CaptureInd ==
    ASSUME IndInv, NEW m \in motions, HandleMotion(m), Interceptors(m) = {},
           PieceAtDest(m) # NoPiece, Capture(m, PieceAtDest(m))
    PROVE  IndInv'
  <1> DEFINE p == m.piece
             d == m.dest
             v == PieceAtDest(m)
  <1> USE DEF IndInv
  <1>1. p \in Pieces /\ d \in Cell /\ p # NoPiece
    BY HandleMotionFrame, PieceAssumption DEF Motion
  <1>2. v = board[d] /\ v \in Pieces /\ v # p
    BY <1>1, HandleMotionFrame DEF PieceAtDest, TypeOK
  <1>3. /\ cell' = [cell EXCEPT ![p] = d]
        /\ pstate' = [pstate EXCEPT ![v] = "CAPTURED", ![p] = "IDLE"]
        /\ cooldowns' = cooldowns \cup {[piece |-> p, remaining |-> RestTime]}
        /\ kind' \in [Pieces -> Kinds]
        /\ board' = [board EXCEPT ![d] = p]
    BY <1>1, PromoteType DEF Capture, Rest
  <1>4. game_over' \in BOOLEAN
    BY DEF Capture, TypeOK
  <1>5. score' \in [Colors -> Nat]
    <2>1. kind[v] \in Kinds /\ Color[p] \in Colors
      BY <1>1, <1>2, ColorAssumption DEF TypeOK
    <2>2. get_piece_value(kind[v]) \in Nat
      BY <2>1 DEF get_piece_value, Kinds
    <2> QED BY <2>1, <2>2 DEF Capture, TypeOK
  <1>6. TypeOK'
    BY <1>1, <1>2, <1>3, <1>4, <1>5, HandleMotionFrame, TimeAssumption
    DEF TypeOK, States, Cooldown
  <1>7. BoardConsistent'
    <2> SUFFICES ASSUME NEW c \in Cell, board'[c] # NoPiece
                 PROVE  cell'[board'[c]] = c /\ pstate'[board'[c]] # "CAPTURED"
      BY DEF BoardConsistent
    <2>1. CASE c = d
      BY <1>1, <1>3, <2>1 DEF TypeOK
    <2>2. CASE c # d
      <3>1. board'[c] = board[c] /\ board[c] \in Pieces /\ board[c] # p
        BY <1>1, <1>3, <2>2, HandleMotionFrame DEF TypeOK
      <3>2. board[c] # v
        BY <1>2, <1>1, <2>2, <3>1 DEF BoardConsistent
      <3> QED BY <1>1, <1>2, <1>3, <3>1, <3>2 DEF BoardConsistent, TypeOK
    <2> QED BY <2>1, <2>2
  <1>8. InFlightOffBoard'
    <2> SUFFICES ASSUME NEW o \in Unhandled'
                 PROVE  /\ \A c \in Cell : board'[c] # o.piece
                        /\ pstate'[o.piece] = "MOVING"
                        /\ \A q \in Unhandled' : q.piece = o.piece => q = o
      BY DEF InFlightOffBoard
    <2>1. o \in Unhandled /\ o.piece # p /\ o.piece \in Pieces
      BY HandleMotionFrame DEF TypeOK, Motion, Unhandled
    <2>2. o.piece # v
      BY <1>1, <1>2, <2>1 DEF InFlightOffBoard
    <2>3. \A c \in Cell : board'[c] # o.piece
      BY <1>1, <1>3, <2>1 DEF InFlightOffBoard, TypeOK
    <2>4. pstate'[o.piece] = "MOVING"
      BY <1>1, <1>2, <1>3, <2>1, <2>2 DEF InFlightOffBoard, TypeOK
    <2> QED BY <2>1, <2>3, <2>4, HandleMotionFrame DEF InFlightOffBoard
  <1>9. RestingNotInFlight'
    BY <1>3, HandleMotionFrame DEF RestingNotInFlight
  <1>10. SquattersRest'
    <2>1. \A c \in Cell : c # d => board'[c] = board[c]
      BY <1>3 DEF TypeOK
    <2> QED BY <1>3, <2>1, ArrivalSquatters
  <1> QED
    BY <1>6, <1>7, <1>8, <1>9, <1>10, HandleMotionRest

(* All outcomes of a motion.                                               *)
LEMMA HandleMotionInd ==
    ASSUME IndInv, NEW m \in motions, HandleMotion(m)
    PROVE  IndInv'
  <1>1. Arrive(m)
    BY HandleMotionFrame
  <1>2. CASE BlockAt(m)
    BY <1>2, BlockInd
  <1>3. ASSUME NEW j \in Interceptors(m), MidAirCapture(m, j)
        PROVE  IndInv'
    BY <1>3, MidAirCaptureInd DEF Interceptors
  <1>4. CASE Interceptors(m) = {} /\ PieceAtDest(m) # NoPiece /\ Capture(m, PieceAtDest(m))
    BY <1>4, CaptureInd
  <1>5. CASE Interceptors(m) = {} /\ Land(m)
    BY <1>5, LandInd
  <1> QED BY <1>1, <1>2, <1>3, <1>4, <1>5 DEF Arrive

(* The end of update: what is still in the air was not resolved.           *)
LEMMA EndUpdateInd ==
    ASSUME IndInv, EndUpdate
    PROVE  IndInv'
  <1> USE DEF IndInv
  <1>1. /\ motions' = Aged(motions, ms)
        /\ jumps' = Aged(jumps, ms)
        /\ ms' = 0 /\ handled_motions' = {} /\ handled_jumps' = {}
        /\ UNCHANGED << board, cell, pstate, kind, cooldowns, score >>
        /\ ms \in Nat
    BY TimeAssumption DEF EndUpdate, boardVars, TypeOK
  <1>2. motions \in SUBSET Motion /\ jumps \in SUBSET Jump
    BY DEF TypeOK
  <1>3. game_over' \in BOOLEAN
    BY DEF EndUpdate, check_game_status
  <1>4. TypeOK'
    BY <1>1, <1>2, <1>3, AgedMotions, AgedJumps DEF TypeOK
  <1>5. ASSUME NEW x \in Unhandled'
        PROVE  \E e \in Unhandled : /\ x = [e EXCEPT !.remaining = e.remaining - ms]
                                    /\ x.piece = e.piece
    <2>1. x \in Aged(motions, ms)
      BY <1>1 DEF Unhandled
    <2>2. PICK e \in motions : e.remaining > ms /\ x = [e EXCEPT !.remaining = e.remaining - ms]
      BY <2>1 DEF Aged
    <2>3. x.piece = e.piece
      BY <1>2, <2>2 DEF Motion
    <2>4. e \notin handled_motions
      BY <1>1, <1>2, <2>2 DEF HandledAreDue, Motion
    <2> QED BY <2>2, <2>3, <2>4 DEF Unhandled
  <1>6. BoardConsistent'
    BY <1>1 DEF BoardConsistent
  <1>7. InFlightOffBoard'
    BY <1>1, <1>5 DEF InFlightOffBoard
  <1>8. RestingNotInFlight'
    BY <1>1, <1>5 DEF RestingNotInFlight
  <1>9. ASSUME NEW k \in jumps'
        PROVE  \E e \in jumps : /\ e.remaining > ms /\ e.remaining \in Nat
                                /\ k.piece = e.piece /\ k.pos = e.pos
                                /\ k.remaining = e.remaining - ms
    BY <1>1, <1>2, AgedJumps DEF Jump
  <1>10. JumpsAreBounded'
    BY <1>1, <1>9, TimeAssumption DEF JumpsAreBounded
  <1>11. OneJumperPerCell'
    BY <1>9 DEF OneJumperPerCell
  <1>12. SquattersRest'
    <2> SUFFICES ASSUME NEW k \in jumps', board[k.pos] \notin {NoPiece, k.piece}
                 PROVE  \E cd \in cooldowns : cd.piece = board[k.pos] /\ cd.remaining >= k.remaining - 0
      BY <1>1 DEF SquattersRest
    <2>1. PICK e \in jumps : /\ e.remaining > ms /\ e.remaining \in Nat
                             /\ k.piece = e.piece /\ k.pos = e.pos
                             /\ k.remaining = e.remaining - ms
      BY <1>9
    <2> QED BY <1>1, <2>1 DEF SquattersRest
  <1> QED
    BY <1>1, <1>4, <1>6, <1>7, <1>8, <1>10, <1>11, <1>12 DEF HandledAreDue

(* A step that changes no variable keeps the invariant.                    *)
LEMMA StutterInd ==
    ASSUME IndInv, UNCHANGED vars
    PROVE  IndInv'
  BY DEF vars, boardVars, timeVars, loopVars, stateVars, IndInv, TypeOK, BoardConsistent,
         InFlightOffBoard, RestingNotInFlight, HandledAreDue, JumpsAreBounded, SquattersRest,
         OneJumperPerCell, Unhandled

(* Every request, every part of update and every stutter keeps IndInv.     *)
LEMMA NextInd == IndInv /\ [Next]_vars => IndInv'
  <1> SUFFICES ASSUME IndInv, [Next]_vars PROVE IndInv'
    OBVIOUS
  <1>1. ASSUME NEW src \in Cell, NEW dst \in Cell, RequestMove(src, dst) PROVE IndInv'
    BY <1>1, RequestMoveInd
  <1>2. ASSUME NEW pos \in Cell, RequestJump(pos) PROVE IndInv'
    BY <1>2, RequestJumpInd
  <1>3. ASSUME NEW t \in Ticks, BeginUpdate(t) PROVE IndInv'
    BY <1>3, BeginUpdateInd
  <1>4. ASSUME NEW j \in jumps, HandleJump(j) PROVE IndInv'
    BY <1>4, HandleJumpInd
  <1>5. ASSUME NEW m \in motions, HandleMotion(m) PROVE IndInv'
    BY <1>5, HandleMotionInd
  <1>6. CASE EndUpdate
    BY <1>6, EndUpdateInd
  <1>7. CASE UNCHANGED vars
    BY <1>7, StutterInd
  <1> QED BY <1>1, <1>2, <1>3, <1>4, <1>5, <1>6, <1>7 DEF Next, Update

(* Between updates nothing counts as handled.                              *)
LEMMA NothingHandled ==
    ASSUME IndInv, ms = 0
    PROVE  handled_motions = {} /\ handled_jumps = {}
  BY DEF IndInv, HandledAreDue, TypeOK, Motion, Jump

(* IndInv holds in every state of every game.                              *)
THEOREM EngineInvariant == Spec => []IndInv
  BY InitInd, NextInd, PTL DEF Spec

(* The state of the engine is well typed, timers included.                 *)
THEOREM TypeCorrect == Spec => []TypeOK
  <1>1. IndInv => TypeOK
    BY DEF IndInv
  <1> QED BY <1>1, EngineInvariant, PTL

(* The grid and the pieces never disagree.                                 *)
THEOREM BoardStaysConsistent == Spec => []BoardConsistent
  <1>1. IndInv => BoardConsistent
    BY DEF IndInv
  <1> QED BY <1>1, EngineInvariant, PTL

(* A piece in flight is nowhere on the board and has one motion.           *)
THEOREM FlightsLeaveTheBoard == Spec => []InFlightOffBoard
  <1>1. IndInv => InFlightOffBoard
    BY DEF IndInv
  <1> QED BY <1>1, EngineInvariant, PTL

(* A resting piece is never in flight.                                     *)
THEOREM RestKeepsOnTheGround == Spec => []RestingNotInFlight
  <1>1. IndInv => RestingNotInFlight
    BY DEF IndInv
  <1> QED BY <1>1, EngineInvariant, PTL

(* The jump that a search of active_jumps meets first is the only          *)
(* candidate, provided a rest lasts at least as long as a jump.            *)
THEOREM JumpersAreUnique == Spec => []OneJumperPerCell
  <1>1. IndInv => OneJumperPerCell
    BY DEF IndInv
  <1> QED BY <1>1, EngineInvariant, PTL

-----------------------------------------------------------------------------
(* Captures are final, although jumps and motions of a captured piece may  *)
(* still be pending: a step that revives a piece would have to find it on  *)
(* the board (a landing jump) or in the air (an arriving motion).          *)
LEMMA StepKeepsCaptured ==
    ASSUME IndInv, [Next]_vars, NEW p \in Pieces, pstate[p] = "CAPTURED"
    PROVE  pstate'[p] = "CAPTURED" /\ \A c \in Cell : board'[c] # p
  <1> USE DEF IndInv
  <1>1. \A c \in Cell : board[c] # p
    BY PieceAssumption DEF BoardConsistent
  <1>2. ASSUME NEW src \in Cell, NEW dst \in Cell, RequestMove(src, dst)
        PROVE  pstate'[p] = "CAPTURED" /\ \A c \in Cell : board'[c] # p
    BY <1>1, <1>2, PieceAssumption DEF RequestMove, start_motion, CanAct, TypeOK
  <1>3. ASSUME NEW pos \in Cell, RequestJump(pos)
        PROVE  pstate'[p] = "CAPTURED" /\ \A c \in Cell : board'[c] # p
    BY <1>1, <1>3 DEF RequestJump, CanAct, TypeOK
  <1>4. ASSUME NEW t \in Ticks, BeginUpdate(t)
        PROVE  pstate'[p] = "CAPTURED" /\ \A c \in Cell : board'[c] # p
    BY <1>1, <1>4 DEF BeginUpdate, boardVars
  <1>5. ASSUME NEW j \in jumps, HandleJump(j)
        PROVE  pstate'[p] = "CAPTURED" /\ \A c \in Cell : board'[c] # p
    <2>1. j.pos \in Cell /\ j.piece \in Pieces
      BY DEF TypeOK, Jump
    <2>2. CASE LandsAtHome(j)
      BY <1>1, <1>5, <2>1, <2>2 DEF HandleJump, LandsAtHome, TypeOK
    <2>3. CASE ~LandsAtHome(j)
      BY <1>1, <1>5, <2>3 DEF HandleJump
    <2> QED BY <2>2, <2>3
  <1>6. ASSUME NEW m \in motions, HandleMotion(m)
        PROVE  pstate'[p] = "CAPTURED" /\ \A c \in Cell : board'[c] # p
    <2>1. /\ m.piece \in Pieces /\ m.piece # p /\ m.dest \in Cell /\ m.source \in Cell
          /\ Arrive(m)
      BY <1>6, HandleMotionFrame DEF Motion
    <2>2. CASE BlockAt(m)
      BY <1>1, <2>1, <2>2 DEF BlockAt, add_piece, TypeOK
    <2>3. CASE \E j \in jumps : MidAirCapture(m, j)
      BY <1>1, <2>1, <2>3 DEF MidAirCapture, TypeOK
    <2>4. CASE PieceAtDest(m) # NoPiece /\ Capture(m, PieceAtDest(m))
      <3>1. PieceAtDest(m) \in Pieces
        BY <2>1, <2>4 DEF PieceAtDest, TypeOK
      <3> QED BY <1>1, <2>1, <2>4, <3>1 DEF Capture, TypeOK
    <2>5. CASE Land(m)
      BY <1>1, <2>1, <2>5 DEF Land, add_piece, TypeOK
    <2> QED BY <2>1, <2>2, <2>3, <2>4, <2>5 DEF Arrive, Interceptors
  <1>7. CASE EndUpdate
    BY <1>1, <1>7 DEF EndUpdate, boardVars
  <1>8. CASE UNCHANGED vars
    BY <1>1, <1>8 DEF vars, boardVars
  <1> QED BY <1>2, <1>3, <1>4, <1>5, <1>6, <1>7, <1>8 DEF Next, Update

(* No step of the engine brings a captured piece back into the game.      *)
THEOREM CapturesAreFinal == Spec => CaptureIsFinal
  <1>1. IndInv /\ [Next]_vars => [\A p \in Pieces : StaysCaptured(p)]_vars
    BY StepKeepsCaptured DEF StaysCaptured
  <1> QED BY <1>1, EngineInvariant, PTL DEF Spec, CaptureIsFinal

(* Whoever arrives under a jump that has not ended finds the jumper in its *)
(* Interceptors: it is blocked or captured, and the jumper stays.          *)
LEMMA StepShieldsJumper ==
    ASSUME IndInv, Next,
           NEW m \in handled_motions' \ handled_motions, NEW j \in jumps
    PROVE  Shielded(m, j)
  <1> USE DEF IndInv
  <1> SUFFICES ASSUME j.pos = m.dest, board[j.pos] = j.piece, j.remaining >= m.remaining
               PROVE  board'[j.pos] = j.piece /\ pstate'[j.piece] # "CAPTURED"
    BY DEF Shielded
  <1>1. PICK n \in motions : HandleMotion(n) /\ handled_motions' = handled_motions \cup {n}
    BY DEF Next, Update, RequestMove, RequestJump, BeginUpdate, HandleJump, HandleMotion,
           EndUpdate, loopVars
  <1>2. m = n /\ m \in motions /\ HandleMotion(m)
    BY <1>1
  <1>3. /\ m.piece \in Pieces /\ m.source \in Cell /\ m.remaining \in Nat
        /\ \A c \in Cell : board[c] # m.piece
        /\ Arrive(m)
    BY <1>2, HandleMotionFrame DEF Motion
  <1>4. j.piece \in Pieces /\ j.pos \in Cell /\ j.remaining \in Nat /\ j.piece # NoPiece
    BY PieceAssumption DEF TypeOK, Jump
  <1>5. j \in Interceptors(m)
    BY <1>3, <1>4 DEF Interceptors
  <1>6. pstate[j.piece] # "CAPTURED" /\ j.piece # m.piece
    BY <1>3, <1>4 DEF BoardConsistent
  <1>7. CASE BlockAt(m)
    BY <1>3, <1>4, <1>6, <1>7 DEF BlockAt, add_piece, TypeOK
  <1>8. CASE \E k \in jumps : MidAirCapture(m, k)
    BY <1>3, <1>4, <1>6, <1>8 DEF MidAirCapture, TypeOK
  <1> QED BY <1>3, <1>5, <1>7, <1>8 DEF Arrive, Interceptors

(* A jump protects the piece that makes it for as long as it lasts.        *)
THEOREM JumpsProtect == Spec => JumperIsShielded
  <1>1. IndInv /\ [Next]_vars =>
          [\A m \in handled_motions' \ handled_motions, j \in jumps : Shielded(m, j)]_vars
    BY StepShieldsJumper
  <1> QED BY <1>1, EngineInvariant, PTL DEF Spec, JumperIsShielded

-----------------------------------------------------------------------------
(* The loop of PieceRules::is_path_clear compares its cell with dest and   *)
(* has no other exit on an empty path.  RuleEngine::validate_move calls it *)
(* only after is_valid_geometry, and that is what makes it stop.           *)

(* A move that is_valid_geometry admits, other than a knight's, runs along *)
(* a row, a column or a diagonal.                                          *)
OnALine(src, dst) ==
    \/ DRow(src, dst) = 0
    \/ DCol(src, dst) = 0
    \/ Abs(DRow(src, dst)) = Abs(DCol(src, dst))

(* Every kind but the knight keeps to a line: for the king and the pawn    *)
(* this follows from the bounds on their two coordinates.                  *)
LEMMA GeometryIsALine ==
    ASSUME NEW src \in Cell, NEW dst \in Cell, NEW knd \in Kinds \ {"KNIGHT"},
           NEW color \in Colors, NEW capturing \in BOOLEAN, src # dst,
           is_valid_geometry(knd, color, src, dst, capturing)
    PROVE  OnALine(src, dst)
  BY SizeAssumption DEF OnALine, is_valid_geometry, PawnGeometry, forward_dir, start_row,
                        DRow, DCol, Abs, Cell, Kinds, Colors

(* The walk of is_path_clear meets the destination after exactly Dist      *)
(* steps: it does not run past it, and every cell it looks at before that  *)
(* is a cell of the board other than the two ends.                         *)
THEOREM PathWalkEnds ==
    ASSUME NEW src \in Cell, NEW dst \in Cell, NEW knd \in Kinds \ {"KNIGHT"},
           NEW color \in Colors, NEW capturing \in BOOLEAN, src # dst,
           is_valid_geometry(knd, color, src, dst, capturing)
    PROVE  /\ StepCell(src, dst, Dist(src, dst)) = dst
           /\ \A k \in 1 .. Dist(src, dst) - 1 :
                 StepCell(src, dst, k) \in Cell \ {src, dst}
  <1>1. OnALine(src, dst)
    BY GeometryIsALine
  <1>2. PICK r1 \in 0 .. Height - 1, c1 \in 0 .. Width - 1 : src = << r1, c1 >>
    BY DEF Cell
  <1>3. PICK r2 \in 0 .. Height - 1, c2 \in 0 .. Width - 1 : dst = << r2, c2 >>
    BY DEF Cell
  <1>4. StepCell(src, dst, Dist(src, dst)) = dst
    BY <1>1, <1>2, <1>3, SizeAssumption DEF OnALine, StepCell, Dist, DRow, DCol, Abs, Sign, Larger
  <1>5. ASSUME NEW k \in 1 .. Dist(src, dst) - 1
        PROVE  StepCell(src, dst, k) \in Cell \ {src, dst}
    BY <1>1, <1>2, <1>3, SizeAssumption
       DEF OnALine, StepCell, Dist, DRow, DCol, Abs, Sign, Larger, Cell
  <1>6. QED
    BY <1>4, <1>5

=============================================================================
