------------------------------- MODULE KxoPlay -------------------------------
(***************************************************************************)
(* What the engine promises about the boards alone (README.md,             *)
(* Introduction): on every board O and X mark empty cells in turn, O       *)
(* first, and a board is cleared only when its game is over.               *)
(***************************************************************************)
EXTENDS KxoBoard

CONSTANT N_GAMES

VARIABLE board

Marks(table, cell) == {c \in Cells : table[c] = cell}

(* O moves when the marks are balanced.                                    *)
ToMove(table) ==
  IF Cardinality(Marks(table, CELL_O)) = Cardinality(Marks(table, CELL_X))
  THEN CELL_O ELSE CELL_X

Move(g) ==
  \E c \in for_each_empty_grid(board[g]) :
    board' = [board EXCEPT ![g] = VAL_SET_CELL(@, c, ToMove(@))]

Restart(g) ==
  /\ check_win(board[g]) # CELL_EMPTY
  /\ board' = [board EXCEPT ![g] = EmptyTable]

PlayInit == board = [g \in 0 .. N_GAMES - 1 |-> EmptyTable]
PlayNext == \E g \in 0 .. N_GAMES - 1 : Move(g) \/ Restart(g)
PlaySpec == PlayInit /\ [][PlayNext]_board
=============================================================================
