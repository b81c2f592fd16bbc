----------------------------- MODULE LocalInput -----------------------------
(***************************************************************************)
(* A game played on one machine: a front end over the GameEngine, in one   *)
(* thread.  The front end is either the text controller (input::Controller *)
(* with clicks) or the local mode of main.cpp with input::GuiController    *)
(* (clicks, drags, right clicks, an opening screen).  The loop updates the *)
(* engine; input comes between two updates.                                *)
(*                                                                         *)
(* Both front ends remember a cell, the GUI a piece as well, from one      *)
(* event to the next while the game goes on underneath: the piece may be   *)
(* captured in the meantime.  Controller::click dereferences the piece on  *)
(* the remembered cell without looking whether there is one.               *)
(***************************************************************************)
EXTENDS GameEngine

CONSTANTS
    NoCell,     \* std::nullopt
    Fronts      \* the front ends to consider

ASSUME NoCellAssumption == NoCell \notin Cell
ASSUME FrontAssumption  == Fronts \subseteq {"text", "gui"}

VARIABLES
    front,              \* which front end drives the game
    in_opening_screen,  \* GuiState::in_opening_screen
    selected_cell,      \* Controller::selected_cell, GuiState::selected_cell
    dragged_piece       \* GuiState::dragged_piece

inputVars == << front, in_opening_screen, selected_cell, dragged_piece >>
localVars == << vars, inputVars >>

LocalInit ==
    /\ Init
    /\ front \in Fronts
    /\ in_opening_screen = (front = "gui")
    /\ selected_cell = NoCell
    /\ dragged_piece = NoPiece

-----------------------------------------------------------------------------
(* Requests may be refused, and the front end is not told.                 *)

request_move(src, dst) ==
    \/ RequestMove(src, dst)
    \/ /\ game_over \/ ~CanAct(board[src]) \/ ~validate_move(board, kind, src, dst)
       /\ UNCHANGED vars

request_jump(pos) ==
    \/ RequestJump(pos)
    \/ /\ game_over \/ ~CanAct(board[pos])
       /\ UNCHANGED vars

Listening(f) == front = f /\ ms = 0 /\ ~in_opening_screen

SameColor(c, d) == Color[board[c]] = Color[board[d]]

-----------------------------------------------------------------------------
(* Controller::click: on no cell, with nothing selected, and with a piece  *)
(* selected.                                                               *)

ClickNowhere ==
    /\ Listening("text")
    /\ selected_cell' = NoCell
    /\ UNCHANGED << vars, front, in_opening_screen, dragged_piece >>

ClickToSelect(c) ==
    /\ Listening("text")
    /\ selected_cell = NoCell
    /\ board[c] # NoPiece
    /\ selected_cell' = c
    /\ UNCHANGED << vars, front, in_opening_screen, dragged_piece >>

ClickWithSelection_KeepsSelection(c) ==
    /\ Listening("text")
    /\ selected_cell # NoCell
    /\ IF board[c] # NoPiece /\ SameColor(c, selected_cell)
       THEN selected_cell' = c /\ UNCHANGED vars
       ELSE selected_cell' = selected_cell /\ request_move(selected_cell, c)
    /\ UNCHANGED << front, in_opening_screen, dragged_piece >>

ClickWithSelection(c) ==
    /\ Listening("text")
    /\ selected_cell # NoCell
    /\ IF board[c] # NoPiece /\ SameColor(c, selected_cell)
       THEN selected_cell' = c /\ UNCHANGED vars
       ELSE selected_cell' = NoCell /\ request_move(selected_cell, c)
    /\ UNCHANGED << front, in_opening_screen, dragged_piece >>

-----------------------------------------------------------------------------
(* GuiController: the mouse handlers of the local game.                    *)

(* The button, or a key, of the opening screen.                            *)
StartGame ==
    /\ in_opening_screen /\ ms = 0
    /\ in_opening_screen' = FALSE
    /\ UNCHANGED << vars, front, selected_cell, dragged_piece >>

(* Whether a left click picks the piece up rather than sending it off.     *)
PicksUp(c) ==
    /\ board[c] # NoPiece
    /\ (selected_cell # NoCell /\ board[selected_cell] # NoPiece) => SameColor(c, selected_cell)

handle_left_click_down_KeepsDrag(c) ==
    /\ Listening("gui")
    /\ \/ /\ PicksUp(c) /\ ~is_piece_cooling_down(board[c])
          /\ selected_cell' = c /\ dragged_piece' = board[c]
          /\ UNCHANGED vars
       \/ /\ ~PicksUp(c) /\ selected_cell # NoCell
          /\ request_move(selected_cell, c)
          /\ selected_cell' = NoCell /\ dragged_piece' = dragged_piece
    /\ UNCHANGED << front, in_opening_screen >>

handle_left_click_down(c) ==
    /\ Listening("gui")
    /\ \/ /\ PicksUp(c) /\ ~is_piece_cooling_down(board[c])
          /\ selected_cell' = c /\ dragged_piece' = board[c]
          /\ UNCHANGED vars
       \/ /\ ~PicksUp(c) /\ selected_cell # NoCell
          /\ request_move(selected_cell, c)
          /\ selected_cell' = NoCell /\ dragged_piece' = NoPiece
    /\ UNCHANGED << front, in_opening_screen >>

(* A drop on the piece's own cell leaves it selected.                      *)
handle_left_click_up(c) ==
    /\ Listening("gui")
    /\ dragged_piece # NoPiece
    /\ IF cell[dragged_piece] # c
       THEN request_move(cell[dragged_piece], c) /\ selected_cell' = NoCell
       ELSE UNCHANGED << vars, selected_cell >>
    /\ dragged_piece' = NoPiece
    /\ UNCHANGED << front, in_opening_screen >>

handle_right_click_down(c) ==
    /\ Listening("gui")
    /\ board[c] # NoPiece
    /\ request_jump(c)
    /\ selected_cell' = NoCell /\ dragged_piece' = NoPiece
    /\ UNCHANGED << front, in_opening_screen >>

(* on_mouse off the board: a press forgets everything, a release nothing.  *)
PressOutside ==
    /\ Listening("gui")
    /\ selected_cell' = NoCell /\ dragged_piece' = NoPiece
    /\ UNCHANGED << vars, front, in_opening_screen >>

-----------------------------------------------------------------------------
UpdateLocal == Update /\ UNCHANGED inputVars

LocalNext ==
    \/ ClickNowhere
    \/ StartGame
    \/ PressOutside
    \/ UpdateLocal
    \/ \E c \in Cell : \/ ClickToSelect(c)
                       \/ ClickWithSelection(c)
                       \/ handle_left_click_down(c)
                       \/ handle_left_click_up(c)
                       \/ handle_right_click_down(c)

LocalSpec == LocalInit /\ [][LocalNext]_localVars

(* The loop updates the engine every frame; the player need not do         *)
(* anything, not even leave the opening screen.                            *)
LocalFairSpec == LocalSpec /\ WF_localVars(UpdateLocal)

-----------------------------------------------------------------------------
(* A selected cell is occupied, whoever stands there by now: the engine    *)
(* only empties a cell when a move is requested from it, and every request *)
(* of a front end ends its selection.  Controller::click relies on this    *)
(* when it reads the color of the selected piece.                          *)
SelectionIsOccupied == selected_cell # NoCell => board[selected_cell] # NoPiece

(* The two things the GUI remembers about a drag agree: the piece belongs  *)
(* to the selected cell and, unless it has been captured while it was      *)
(* held, still stands there, so that a drop moves the piece in the hand.   *)
DragIsGrounded ==
    dragged_piece # NoPiece =>
        /\ selected_cell = cell[dragged_piece]
        /\ board[selected_cell] = dragged_piece \/ pstate[dragged_piece] = "CAPTURED"

=============================================================================
