-------------------------- MODULE LocalInputProofs --------------------------
(***************************************************************************)
(* What the front ends remember stays meaningful, for every board and both *)
(* front ends: proofs about LocalInput on top of the engine's invariant.   *)
(***************************************************************************)
EXTENDS LocalInput, GameEngineProofs

(* Types of what the front end keeps; the text controller drags nothing.   *)
InputTypeOK ==
    /\ selected_cell \in Cell \cup {NoCell}
    /\ dragged_piece \in Pieces \cup {NoPiece}
    /\ front \in Fronts
    /\ front = "text" => dragged_piece = NoPiece

LocalInv ==
    /\ IndInv
    /\ InputTypeOK
    /\ SelectionIsOccupied
    /\ DragIsGrounded

-----------------------------------------------------------------------------
(* Only a requested move empties a cell: whatever an update resolves, a    *)
(* cell that was occupied stays so.                                        *)
LEMMA UpdateKeepsOccupied ==
    ASSUME IndInv, Update, NEW c \in Cell, board[c] # NoPiece
    PROVE  board'[c] # NoPiece
  <1> USE DEF IndInv
  <1>1. ASSUME NEW t \in Ticks, BeginUpdate(t) PROVE board'[c] # NoPiece
    BY <1>1 DEF BeginUpdate, boardVars
  <1>2. ASSUME NEW j \in jumps, HandleJump(j) PROVE board'[c] # NoPiece
    BY <1>2 DEF HandleJump
  <1>3. ASSUME NEW m \in motions, HandleMotion(m) PROVE board'[c] # NoPiece
    <2>1. /\ m.piece \in Pieces /\ m.dest \in Cell /\ m.source \in Cell
          /\ m.piece # NoPiece
          /\ Arrive(m)
      BY <1>3, HandleMotionFrame, PieceAssumption DEF Motion
    <2>2. CASE BlockAt(m)
      BY <2>1, <2>2 DEF BlockAt, add_piece, TypeOK
    <2>3. CASE \E j \in jumps : MidAirCapture(m, j)
      BY <2>3 DEF MidAirCapture
    <2>4. CASE Capture(m, PieceAtDest(m))
      BY <2>1, <2>4 DEF Capture, TypeOK
    <2>5. CASE Land(m)
      BY <2>1, <2>5 DEF Land, add_piece, TypeOK
    <2> QED BY <2>1, <2>2, <2>3, <2>4, <2>5 DEF Arrive, Interceptors
  <1>4. CASE EndUpdate
    BY <1>4 DEF EndUpdate, boardVars
  <1> QED BY <1>1, <1>2, <1>3, <1>4 DEF Update

(* A piece that stands on its cell is, after a step of an update, still    *)
(* there or captured; a captured one stays captured.  Neither forgets the  *)
(* cell it was on.                                                         *)
LEMMA UpdateKeepsGrounded ==
    ASSUME IndInv, Update, NEW p \in Pieces,
           board[cell[p]] = p \/ pstate[p] = "CAPTURED"
    PROVE  /\ cell'[p] = cell[p]
           /\ board'[cell[p]] = p \/ pstate'[p] = "CAPTURED"
  <1> USE DEF IndInv
  <1>1. cell[p] \in Cell
    BY DEF TypeOK
  <1>2. CASE pstate[p] = "CAPTURED"
    <2>1. pstate'[p] = "CAPTURED"
      BY <1>2, StepKeepsCaptured DEF Next
    <2>2. cell'[p] = cell[p]
      <3>1. ASSUME NEW m \in motions, HandleMotion(m) PROVE cell'[p] = cell[p]
        <4>1. m.piece \in Pieces /\ m.piece # p /\ Arrive(m)
          BY <1>2, <3>1, HandleMotionFrame DEF Motion
        <4> QED
          BY <4>1 DEF Arrive, BlockAt, MidAirCapture, Capture, Land, TypeOK
      <3> QED
        BY <3>1 DEF Update, BeginUpdate, HandleJump, EndUpdate, boardVars
    <2> QED BY <2>1, <2>2
  <1>3. CASE board[cell[p]] = p
    <2>1. ASSUME NEW m \in motions, HandleMotion(m)
          PROVE  /\ cell'[p] = cell[p]
                 /\ board'[cell[p]] = p \/ pstate'[p] = "CAPTURED"
      <3>1. /\ m.piece \in Pieces /\ m.piece # p /\ m.dest \in Cell /\ m.source \in Cell
            /\ p # NoPiece
            /\ Arrive(m)
        BY <1>1, <1>3, <2>1, HandleMotionFrame, PieceAssumption DEF Motion
      <3>2. CASE BlockAt(m)
        BY <1>1, <1>3, <3>1, <3>2 DEF BlockAt, add_piece, TypeOK
      <3>3. CASE \E j \in jumps : MidAirCapture(m, j)
        BY <1>3, <3>3 DEF MidAirCapture
      <3>4. CASE PieceAtDest(m) # NoPiece /\ Capture(m, PieceAtDest(m))
        <4>1. PieceAtDest(m) = board[m.dest]
          BY <3>4 DEF PieceAtDest
        <4> QED BY <1>1, <1>3, <3>1, <3>4, <4>1 DEF Capture, TypeOK
      <3>5. CASE Land(m)
        BY <1>1, <1>3, <3>1, <3>5 DEF Land, add_piece, TypeOK
      <3> QED BY <3>1, <3>2, <3>3, <3>4, <3>5 DEF Arrive, Interceptors
    <2> QED
      BY <1>3, <2>1 DEF Update, BeginUpdate, HandleJump, EndUpdate, boardVars
  <1> QED BY <1>2, <1>3

-----------------------------------------------------------------------------
(* A request, granted or refused, keeps the engine's invariant.            *)
LEMMA RequestsKeepIndInv ==
    ASSUME IndInv, NEW src \in Cell, NEW dst \in Cell,
           request_move(src, dst) \/ request_jump(src) \/ UNCHANGED vars
    PROVE  IndInv'
  BY RequestMoveInd, RequestJumpInd, StutterInd DEF request_move, request_jump

(* A fresh game has nothing selected.                                      *)
LEMMA LocalInitInv == LocalInit => LocalInv
  BY InitInd DEF LocalInit, LocalInv, InputTypeOK, SelectionIsOccupied, DragIsGrounded

(* Every event of either front end, and every step of an update, keeps     *)
(* LocalInv: an event that requests a move also ends selection and drag.   *)
LEMMA LocalNextInv == LocalInv /\ [LocalNext]_localVars => LocalInv'
  <1> SUFFICES ASSUME LocalInv, [LocalNext]_localVars PROVE LocalInv'
    OBVIOUS
  <1> USE NoCellAssumption, PieceAssumption DEF LocalInv
  <1>0. board \in [Cell -> Pieces \cup {NoPiece}] /\ cell \in [Pieces -> Cell]
    BY DEF IndInv, TypeOK
  <1>1. CASE ClickNowhere
    BY <1>1, StutterInd DEF ClickNowhere, Listening, InputTypeOK, SelectionIsOccupied,
       DragIsGrounded, vars, boardVars
  <1>2. ASSUME NEW c \in Cell, ClickToSelect(c) PROVE LocalInv'
    BY <1>2, StutterInd DEF ClickToSelect, Listening, InputTypeOK, SelectionIsOccupied,
       DragIsGrounded, vars, boardVars
  <1>3. ASSUME NEW c \in Cell, ClickWithSelection(c) PROVE LocalInv'
    <2>1. selected_cell \in Cell /\ dragged_piece = NoPiece /\ dragged_piece' = NoPiece
      BY <1>3 DEF ClickWithSelection, Listening, InputTypeOK
    <2>2. CASE board[c] # NoPiece /\ SameColor(c, selected_cell)
      BY <1>3, <2>1, <2>2, StutterInd DEF ClickWithSelection, InputTypeOK,
         SelectionIsOccupied, DragIsGrounded, vars, boardVars
    <2>3. CASE ~(board[c] # NoPiece /\ SameColor(c, selected_cell))
      BY <1>3, <2>1, <2>3, RequestsKeepIndInv DEF ClickWithSelection, InputTypeOK,
         SelectionIsOccupied, DragIsGrounded
    <2> QED BY <2>2, <2>3
  <1>4. CASE StartGame
    BY <1>4, StutterInd DEF StartGame, InputTypeOK, SelectionIsOccupied, DragIsGrounded,
       vars, boardVars
  <1>5. ASSUME NEW c \in Cell, handle_left_click_down(c) PROVE LocalInv'
    <2>1. CASE PicksUp(c) /\ selected_cell' = c /\ dragged_piece' = board[c] /\ UNCHANGED vars
      <3>1. board[c] \in Pieces /\ cell[board[c]] = c
        BY <1>0, <2>1 DEF PicksUp, IndInv, BoardConsistent
      <3> QED
        BY <1>5, <2>1, <3>1, StutterInd DEF handle_left_click_down, Listening, InputTypeOK,
           SelectionIsOccupied, DragIsGrounded, vars, boardVars
    <2>2. CASE /\ selected_cell # NoCell /\ request_move(selected_cell, c)
               /\ selected_cell' = NoCell /\ dragged_piece' = NoPiece
      BY <1>5, <2>2, RequestsKeepIndInv DEF handle_left_click_down, InputTypeOK,
         SelectionIsOccupied, DragIsGrounded
    <2> QED BY <1>5, <2>1, <2>2 DEF handle_left_click_down
  <1>6. ASSUME NEW c \in Cell, handle_left_click_up(c) PROVE LocalInv'
    <2>1. cell[dragged_piece] \in Cell
      BY <1>0, <1>6 DEF handle_left_click_up, InputTypeOK
    <2>2. CASE cell[dragged_piece] # c
      BY <1>6, <2>1, <2>2, RequestsKeepIndInv DEF handle_left_click_up, InputTypeOK,
         SelectionIsOccupied, DragIsGrounded
    <2>3. CASE cell[dragged_piece] = c
      BY <1>6, <2>3, StutterInd DEF handle_left_click_up, InputTypeOK,
         SelectionIsOccupied, DragIsGrounded, vars, boardVars
    <2> QED BY <2>2, <2>3
  <1>7. ASSUME NEW c \in Cell, handle_right_click_down(c) PROVE LocalInv'
    BY <1>7, RequestsKeepIndInv DEF handle_right_click_down, InputTypeOK,
       SelectionIsOccupied, DragIsGrounded
  <1>8. CASE PressOutside
    BY <1>8, StutterInd DEF PressOutside, InputTypeOK, SelectionIsOccupied, DragIsGrounded
  <1>9. CASE UpdateLocal
    <2>1. Update /\ UNCHANGED << front, in_opening_screen, selected_cell, dragged_piece >>
      BY <1>9 DEF UpdateLocal, inputVars
    <2>2. IndInv'
      BY <2>1, NextInd DEF Next
    <2>3. SelectionIsOccupied'
      BY <2>1, UpdateKeepsOccupied DEF SelectionIsOccupied, InputTypeOK
    <2>4. DragIsGrounded'
      BY <2>1, UpdateKeepsGrounded DEF DragIsGrounded, InputTypeOK
    <2> QED BY <2>1, <2>2, <2>3, <2>4 DEF InputTypeOK
  <1>10. CASE UNCHANGED localVars
    BY <1>10, StutterInd DEF localVars, inputVars, InputTypeOK, SelectionIsOccupied,
       DragIsGrounded, vars, boardVars
  <1> QED
    BY <1>1, <1>2, <1>3, <1>4, <1>5, <1>6, <1>7, <1>8, <1>9, <1>10 DEF LocalNext

(* LocalInv holds in every local game.                                     *)
THEOREM LocalInvariant == LocalSpec => []LocalInv
  BY LocalInitInv, LocalNextInv, PTL DEF LocalSpec

(* Controller::click never reads the color of a piece that is not there.   *)
THEOREM SelectionsStayOccupied == LocalSpec => []SelectionIsOccupied
  <1>1. LocalInv => SelectionIsOccupied
    BY DEF LocalInv
  <1> QED BY <1>1, LocalInvariant, PTL

(* A drop moves the piece in the hand, or that piece has been captured.    *)
THEOREM DragsStayGrounded == LocalSpec => []DragIsGrounded
  <1>1. LocalInv => DragIsGrounded
    BY DEF LocalInv
  <1> QED BY <1>1, LocalInvariant, PTL

=============================================================================
