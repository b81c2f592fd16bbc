------------------------ MODULE GameRefinementProofs ------------------------
(***************************************************************************)
(* GameEngine implements the clockless game of GameSpec, for boards of any *)
(* size, any pieces and any times.  The invariant of the engine is needed  *)
(* for every end of a flight: the piece has one motion, is off the board,  *)
(* and has not been captured.                                              *)
(***************************************************************************)
EXTENDS GameRefinement, GameEngineProofs

(* What the flight of a motion is on the abstract level.                   *)
FlightOf(m) == [piece |-> m.piece, source |-> m.source, dest |-> m.dest]

(* The rules are the same on both levels.                                  *)
LEMMA SameRules ==
    ASSUME NEW b, NEW k, NEW src, NEW dst
    PROVE  Abstract!validate_move(b, k, src, dst) = validate_move(b, k, src, dst)
  BY DEF Abstract!validate_move, validate_move, Abstract!is_valid_geometry, is_valid_geometry,
         Abstract!is_path_clear, is_path_clear, Abstract!PawnGeometry, PawnGeometry,
         Abstract!StepCell, StepCell, Abstract!Dist, Dist, Abstract!DRow, DRow,
         Abstract!DCol, DCol, Abstract!Abs, Abs, Abstract!Sign, Sign, Abstract!Larger, Larger,
         Abstract!forward_dir, forward_dir, Abstract!start_row, start_row

(* A new game is a new game.                                               *)
LEMMA InitRefines == Init => Abstract!GameInit
  <1> SUFFICES ASSUME Init PROVE Abstract!GameInit
    OBVIOUS
  <1>1. Flying = {} /\ Captured = {}
    BY DEF Init, Flying, Captured, Unhandled
  <1> QED BY <1>1 DEF Init, Abstract!GameInit, Abstract!Colors, Colors

(* request_move is a departure.                                            *)
LEMMA RequestMoveRefines ==
    ASSUME IndInv, NEW src \in Cell, NEW dst \in Cell, RequestMove(src, dst)
    PROVE  Abstract!Depart(src, dst)
  <1> DEFINE n == [piece |-> board[src], source |-> src, dest |-> dst,
                   remaining |-> Dist(src, dst) * MoveTime]
  <1>1. /\ board' = [board EXCEPT ![src] = NoPiece]
        /\ pstate' = [pstate EXCEPT ![board[src]] = "MOVING"]
        /\ motions' = motions \cup {n}
        /\ UNCHANGED << kind, game_over, score, handled_motions >>
        /\ board[src] # NoPiece /\ ~game_over
        /\ validate_move(board, kind, src, dst)
    BY DEF RequestMove, start_motion, stateVars, loopVars, CanAct
  <1>2. n \notin handled_motions
    BY DEF RequestMove, CanAct, is_piece_moving, IndInv, TypeOK
  <1>3. Unhandled' = Unhandled \cup {n}
    BY <1>1, <1>2 DEF Unhandled
  <1>4. Flying' = Flying \cup {FlightOf(n)}
    BY <1>3 DEF Flying, FlightOf
  <1>5. Captured' = Captured
    BY <1>1 DEF Captured, IndInv, TypeOK, BoardConsistent
  <1>6. FlightOf(n) = [piece |-> board[src], source |-> src, dest |-> dst]
    BY DEF FlightOf
  <1> QED BY <1>1, <1>4, <1>5, <1>6, SameRules DEF Abstract!Depart

(* Jumps are invisible.                                                    *)
LEMMA RequestJumpStutters ==
    ASSUME IndInv, NEW pos \in Cell, RequestJump(pos)
    PROVE  UNCHANGED Abstract!gameVars
  <1>1. /\ pstate' = [pstate EXCEPT ![board[pos]] = "MOVING"]
        /\ UNCHANGED << board, kind, motions, game_over, score, handled_motions >>
        /\ board[pos] # NoPiece
    BY DEF RequestJump, stateVars, loopVars, CanAct
  <1>2. Captured' = Captured
    BY <1>1 DEF Captured, IndInv, TypeOK, BoardConsistent
  <1> QED BY <1>1, <1>2 DEF Abstract!gameVars, Flying, Unhandled

(* So is the start of an update.                                           *)
LEMMA BeginUpdateStutters ==
    ASSUME IndInv, NEW t \in Ticks, BeginUpdate(t)
    PROVE  UNCHANGED Abstract!gameVars
  <1>1. /\ UNCHANGED << board, pstate, kind, motions, game_over, score >>
        /\ handled_motions' = {} /\ ms = 0
    BY DEF BeginUpdate, boardVars, stateVars
  <1>2. handled_motions = {}
    BY <1>1 DEF IndInv, HandledAreDue, TypeOK, Motion
  <1> QED BY <1>1, <1>2 DEF Abstract!gameVars, Flying, Unhandled, Captured

(* So is the end of a jump: only a piece on the board is marked IDLE.      *)
LEMMA HandleJumpStutters ==
    ASSUME IndInv, NEW j \in jumps, HandleJump(j)
    PROVE  UNCHANGED Abstract!gameVars
  <1>1. UNCHANGED << board, kind, motions, game_over, score, handled_motions >>
    BY DEF HandleJump, stateVars
  <1>2. j.piece \in Pieces /\ j.pos \in Cell
    BY DEF IndInv, TypeOK, Jump
  <1>3. Captured' = Captured
    <2>1. CASE LandsAtHome(j)
      <3>1. pstate' = [pstate EXCEPT ![j.piece] = "IDLE"] /\ pstate[j.piece] # "CAPTURED"
        BY <1>2, <2>1, PieceAssumption DEF HandleJump, LandsAtHome, IndInv, BoardConsistent
      <3> QED BY <3>1 DEF Captured, IndInv, TypeOK
    <2>2. CASE ~LandsAtHome(j)
      BY <2>2 DEF HandleJump, Captured
    <2> QED BY <2>1, <2>2
  <1> QED BY <1>1, <1>3 DEF Abstract!gameVars, Flying, Unhandled

-----------------------------------------------------------------------------
(* A resolved motion is one flight less in the air.                        *)
LEMMA FlightEnds ==
    ASSUME IndInv, NEW m \in motions, HandleMotion(m)
    PROVE  /\ FlightOf(m) \in Flying
           /\ Flying' = Flying \ {FlightOf(m)}
           /\ m.piece \in Pieces /\ m.source \in Cell /\ m.dest \in Cell
           /\ FlightOf(m).piece = m.piece
           /\ FlightOf(m).source = m.source
           /\ FlightOf(m).dest = m.dest
  <1>1. /\ m \in Unhandled /\ m \in Motion
        /\ Unhandled' = Unhandled \ {m}
        /\ \A o \in Unhandled' : o.piece # m.piece
    BY HandleMotionFrame
  <1>2. FlightOf(m) \in Flying
    BY <1>1 DEF Flying, FlightOf
  <1>3. Flying = {FlightOf(o) : o \in Unhandled} /\ Flying' = {FlightOf(o) : o \in Unhandled'}
    BY DEF Flying, FlightOf
  <1>4. \A o \in Unhandled' : FlightOf(o) # FlightOf(m)
    BY <1>1 DEF FlightOf
  <1>5. Flying' = Flying \ {FlightOf(m)}
    BY <1>1, <1>3, <1>4
  <1> QED BY <1>1, <1>2, <1>5 DEF FlightOf, Motion

(* The two levels promote and score alike.                                 *)
LEMMA SamePromotion ==
    ASSUME NEW p, NEW c
    PROVE  Abstract!Crowned(p, c) = Promote(p, c)
  BY DEF Abstract!Crowned, Abstract!GoalRow, Promote, LastRow

LEMMA SameValue ==
    ASSUME NEW k
    PROVE  Abstract!Value(k) = get_piece_value(k)
  BY DEF Abstract!Value, get_piece_value

(* A block sends the piece back, or out of the game.                       *)
LEMMA BlockRefines ==
    ASSUME IndInv, NEW m \in motions, HandleMotion(m), BlockAt(m)
    PROVE  Abstract!Return(FlightOf(m)) \/ Abstract!Vanish(FlightOf(m))
  <1>1. /\ board' = add_piece(board, m.piece, m.source)
        /\ pstate' = [pstate EXCEPT ![m.piece] = "IDLE"]
        /\ UNCHANGED << kind, game_over, score >>
    BY DEF BlockAt, stateVars
  <1>2. Captured' = Captured
    BY <1>1, FlightEnds, HandleMotionFrame DEF Captured, IndInv, TypeOK
  <1>3. CASE board[m.source] = NoPiece
    BY <1>1, <1>2, <1>3, FlightEnds DEF Abstract!Return, add_piece
  <1>4. CASE board[m.source] # NoPiece
    BY <1>1, <1>2, <1>4, FlightEnds DEF Abstract!Vanish, add_piece
  <1> QED BY <1>3, <1>4

LEMMA MidAirCaptureRefines ==
    ASSUME IndInv, NEW m \in motions, HandleMotion(m), NEW j \in jumps,
           Color[j.piece] # Color[m.piece], MidAirCapture(m, j)
    PROVE  j.piece \in Pieces /\ Abstract!TakenInFlight(FlightOf(m), j.piece)
  <1>1. /\ pstate' = [pstate EXCEPT ![m.piece] = "CAPTURED"]
        /\ score' = [score EXCEPT ![Color[j.piece]] = @ + get_piece_value(kind[m.piece])]
        /\ UNCHANGED << board, kind, game_over >>
    BY DEF MidAirCapture
  <1>2. Captured' = Captured \cup {m.piece}
    BY <1>1, FlightEnds DEF Captured, IndInv, TypeOK
  <1>3. j.piece \in Pieces
    BY DEF IndInv, TypeOK, Jump
  <1> QED BY <1>1, <1>2, <1>3, FlightEnds, SameValue DEF Abstract!TakenInFlight

LEMMA CaptureRefines ==
    ASSUME IndInv, NEW m \in motions, HandleMotion(m), PieceAtDest(m) # NoPiece,
           Color[PieceAtDest(m)] # Color[m.piece], Capture(m, PieceAtDest(m))
    PROVE  Abstract!Take(FlightOf(m))
  <1> DEFINE v == board[m.dest]
  <1>1. PieceAtDest(m) = v /\ v # NoPiece
    BY DEF PieceAtDest
  <1>2. v \in Pieces /\ v # m.piece
    BY <1>1, FlightEnds, HandleMotionFrame DEF IndInv, TypeOK
  <1>3. /\ board' = [board EXCEPT ![m.dest] = m.piece]
        /\ pstate' = [pstate EXCEPT ![v] = "CAPTURED", ![m.piece] = "IDLE"]
        /\ kind' = Promote(m.piece, m.dest)
        /\ game_over' = (game_over \/ kind[v] = "KING")
        /\ score' = [score EXCEPT ![Color[m.piece]] = @ + get_piece_value(kind[v])]
    BY <1>1 DEF Capture
  <1>4. Captured' = Captured \cup {v}
    BY <1>2, <1>3, FlightEnds, HandleMotionFrame DEF Captured, IndInv, TypeOK
  <1> QED BY <1>1, <1>3, <1>4, FlightEnds, SameValue, SamePromotion DEF Abstract!Take

LEMMA LandRefines ==
    ASSUME IndInv, NEW m \in motions, HandleMotion(m), PieceAtDest(m) = NoPiece, Land(m)
    PROVE  Abstract!Alight(FlightOf(m))
  <1>1. board[m.dest] = NoPiece
    BY FlightEnds DEF PieceAtDest, IndInv, TypeOK, InFlightOffBoard
  <1>2. /\ board' = [board EXCEPT ![m.dest] = m.piece]
        /\ pstate' = [pstate EXCEPT ![m.piece] = "IDLE"]
        /\ kind' = Promote(m.piece, m.dest)
        /\ UNCHANGED << game_over, score >>
    BY <1>1 DEF Land, add_piece, stateVars
  <1>3. Captured' = Captured
    BY <1>2, FlightEnds, HandleMotionFrame DEF Captured, IndInv, TypeOK
  <1> QED BY <1>1, <1>2, <1>3, FlightEnds, SamePromotion DEF Abstract!Alight

(* The end of an update leaves the flights that it did not resolve, and    *)
(* decides the game when a side has no king left.                          *)
LEMMA EndUpdateRefines ==
    ASSUME IndInv, EndUpdate
    PROVE  [Abstract!Decide]_(Abstract!gameVars)
  <1>1. /\ motions' = Aged(motions, ms) /\ handled_motions' = {}
        /\ UNCHANGED << board, pstate, kind, score >>
        /\ DueMotions = {}
        /\ ms \in Nat /\ motions \subseteq Motion
    BY TimeAssumption DEF EndUpdate, boardVars, IndInv, TypeOK
  <1>2. Flying = {FlightOf(o) : o \in Unhandled} /\ Flying' = {FlightOf(o) : o \in Aged(motions, ms)}
    BY <1>1 DEF Flying, FlightOf, Unhandled
  <1>3. ASSUME NEW e \in Unhandled PROVE FlightOf(e) \in Flying'
    <2> DEFINE x == [e EXCEPT !.remaining = e.remaining - ms]
    <2>1. e \in Motion /\ e.remaining > ms
      BY <1>1 DEF DueMotions, Unhandled, Motion
    <2>2. x \in Aged(motions, ms)
      BY <2>1 DEF Aged, Unhandled
    <2>3. FlightOf(x) = FlightOf(e)
      BY <2>1 DEF FlightOf, Motion
    <2> QED BY <1>2, <2>2, <2>3
  <1>4. ASSUME NEW x \in Aged(motions, ms) PROVE FlightOf(x) \in Flying
    <2>1. PICK e \in motions : e.remaining > ms /\ x = [e EXCEPT !.remaining = e.remaining - ms]
      BY DEF Aged
    <2>2. e \in Unhandled
      BY <1>1, <2>1 DEF Unhandled, IndInv, HandledAreDue, Motion
    <2>3. FlightOf(x) = FlightOf(e)
      BY <1>1, <2>1 DEF FlightOf, Motion
    <2> QED BY <1>2, <2>2, <2>3
  <1>5. Flying' = Flying
    BY <1>2, <1>3, <1>4
  <1>6. Captured' = Captured
    BY <1>1 DEF Captured
  <1>7. CASE game_over' = game_over
    BY <1>1, <1>5, <1>6, <1>7 DEF Abstract!gameVars
  <1>8. CASE game_over' # game_over
    <2>1. PICK color \in Colors : /\ InitialKings(color) # {}
                                  /\ KingsLeft(color, board, motions', jumps') = {}
      BY <1>8 DEF EndUpdate, check_game_status, IndInv, TypeOK
    <2>2. game_over' = TRUE
      BY <2>1, <1>8 DEF EndUpdate, check_game_status
    <2>3. \E p \in Pieces : StartKind[p] = "KING" /\ Color[p] = color
      BY <2>1 DEF InitialKings
    <2>4. ASSUME NEW p \in Pieces, kind[p] = "KING", Color[p] = color
          PROVE  /\ \A c \in Cell : board[c] # p
                 /\ \A f \in Flying : f.piece # p
      <3>1. \A c \in Cell : board[c] # p
        BY <2>1, <2>4 DEF KingsLeft
      <3>2. ASSUME NEW x \in Aged(motions, ms) PROVE x.piece # p
        <4>1. PICK e \in motions : e.remaining > ms /\ x = [e EXCEPT !.remaining = e.remaining - ms]
          BY DEF Aged
        <4>2. e \in Unhandled
          BY <1>1, <4>1 DEF Unhandled, IndInv, HandledAreDue, Motion
        <4>3. x.piece = e.piece /\ pstate[e.piece] = "MOVING"
          BY <1>1, <4>1, <4>2 DEF Motion, IndInv, InFlightOffBoard
        <4>4. x \in motions'
          BY <1>1
        <4> QED BY <2>1, <2>4, <4>3, <4>4 DEF KingsLeft
      <3>3. \A f \in Flying : \E x \in Aged(motions, ms) : f = FlightOf(x)
        BY <1>2, <1>5
      <3> QED BY <3>1, <3>2, <3>3 DEF FlightOf
    <2>5. Abstract!Kingless(color)
      BY <2>3, <2>4 DEF Abstract!Kingless, Abstract!Cell, Cell
    <2> QED BY <1>1, <1>5, <1>6, <2>2, <2>5 DEF Abstract!Decide, Abstract!Colors, Colors
  <1> QED BY <1>7, <1>8

(* Every step of the engine is a step of the game or invisible in it.      *)
LEMMA StepRefines ==
    ASSUME IndInv, [Next]_vars
    PROVE  [Abstract!GameNext]_(Abstract!gameVars)
  <1>1. ASSUME NEW src \in Cell, NEW dst \in Cell, RequestMove(src, dst)
        PROVE  Abstract!GameNext
    BY <1>1, RequestMoveRefines DEF Abstract!GameNext, Abstract!Cell, Cell
  <1>2. ASSUME NEW pos \in Cell, RequestJump(pos)
        PROVE  UNCHANGED Abstract!gameVars
    BY <1>2, RequestJumpStutters
  <1>3. ASSUME NEW t \in Ticks, BeginUpdate(t)
        PROVE  UNCHANGED Abstract!gameVars
    BY <1>3, BeginUpdateStutters
  <1>4. ASSUME NEW j \in jumps, HandleJump(j)
        PROVE  UNCHANGED Abstract!gameVars
    BY <1>4, HandleJumpStutters
  <1>5. ASSUME NEW m \in motions, HandleMotion(m)
        PROVE  Abstract!GameNext
    <2>1. Arrive(m) /\ FlightOf(m) \in Flying
      BY <1>5, HandleMotionFrame, FlightEnds
    <2>2. CASE BlockAt(m)
      BY <1>5, <2>1, <2>2, BlockRefines DEF Abstract!GameNext
    <2>3. ASSUME NEW j \in Interceptors(m), Color[j.piece] # Color[m.piece], MidAirCapture(m, j)
          PROVE  Abstract!GameNext
      <3>1. j \in jumps
        BY DEF Interceptors
      <3> QED BY <1>5, <2>1, <2>3, <3>1, MidAirCaptureRefines DEF Abstract!GameNext
    <2>4. CASE PieceAtDest(m) # NoPiece /\ Color[PieceAtDest(m)] # Color[m.piece]
               /\ Capture(m, PieceAtDest(m))
      BY <1>5, <2>1, <2>4, CaptureRefines DEF Abstract!GameNext
    <2>5. CASE PieceAtDest(m) = NoPiece /\ Land(m)
      BY <1>5, <2>1, <2>5, LandRefines DEF Abstract!GameNext
    <2> QED BY <2>1, <2>2, <2>3, <2>4, <2>5 DEF Arrive
  <1>6. CASE EndUpdate
    BY <1>6, EndUpdateRefines DEF Abstract!GameNext
  <1>7. CASE UNCHANGED vars
    BY <1>7 DEF vars, boardVars, timeVars, loopVars, stateVars, Abstract!gameVars,
                Flying, Captured, Unhandled
  <1> QED BY <1>1, <1>2, <1>3, <1>4, <1>5, <1>6, <1>7 DEF Next, Update

(* The engine implements the clockless game: whatever the clocks do, the   *)
(* board, the flights, the captures, the scores and the end of the game    *)
(* are those of a play of GameSpec.                                        *)
THEOREM EngineImplementsGame == Spec => ImplementsGame
  <1>1. IndInv /\ [Next]_vars => [Abstract!GameNext]_(Abstract!gameVars)
    BY StepRefines
  <1> QED BY <1>1, InitRefines, EngineInvariant, PTL DEF Spec, ImplementsGame, Abstract!Game

=============================================================================
