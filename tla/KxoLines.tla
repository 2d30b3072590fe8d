------------------------------- MODULE KxoLines -------------------------------
(***************************************************************************)
(* The winning lines of the board (src/game.c, fill_win_patterns) and the  *)
(* score of a board (include/util.h), for every size of board and goal.    *)
(* A board is a function from cell numbers to marks, as in KxoBoard.       *)
(***************************************************************************)
EXTENDS Integers, Sequences, FiniteSets, Folds

CONSTANTS
  BOARD_SIZE, GOAL        (* 4 and 3 in the program                        *)

ASSUME LinesAssumption == GOAL \in Nat \ {0} /\ BOARD_SIZE \in Nat /\ BOARD_SIZE >= GOAL

CELL_EMPTY == 0
CELL_O == 1
CELL_X == 2
CELL_D == 3
N_GRIDS == BOARD_SIZE * BOARD_SIZE
Cells == 0 .. N_GRIDS - 1
Other(p) == CELL_O + CELL_X - p

GET_INDEX(i, j) == i * BOARD_SIZE + j

(* The directions, and the cells a line in each of them may start at.      *)
line_t(di, dj, ilo, jlo, iup, jup) ==
  [i_shift |-> di, j_shift |-> dj, i_lower_bound |-> ilo, j_lower_bound |-> jlo,
   i_upper_bound |-> iup, j_upper_bound |-> jup]

Free == BOARD_SIZE - GOAL + 1
linesLow ==                               \* MUTANT: the last one starts too early
  <<line_t(0, 1, 0, 0, BOARD_SIZE, Free), line_t(1, 0, 0, 0, Free, BOARD_SIZE),
    line_t(1, 1, 0, 0, Free, Free), line_t(1, -1, 0, GOAL - 2, Free, BOARD_SIZE - 1)>>
lines ==
  <<line_t(0, 1, 0, 0, BOARD_SIZE, Free),               \* ROW
    line_t(1, 0, 0, 0, Free, BOARD_SIZE),               \* COL
    line_t(1, 1, 0, 0, Free, Free),                     \* PRIMARY
    line_t(1, -1, 0, GOAL - 1, Free, BOARD_SIZE)>>      \* SECONDARY

(* The cells of the lines of one direction, row by row of the first cells. *)
SegmentsOf(l) ==
  LET cols == l.j_upper_bound - l.j_lower_bound
      rows == l.i_upper_bound - l.i_lower_bound
  IN  [w \in 1 .. rows * cols |->
         {GET_INDEX(l.i_lower_bound + ((w - 1) \div cols) + k * l.i_shift,
                    l.j_lower_bound + ((w - 1) % cols) + k * l.j_shift) : k \in 0 .. GOAL - 1}]

xo_segment_lines ==
  SegmentsOf(lines[1]) \o SegmentsOf(lines[2]) \o SegmentsOf(lines[3]) \o SegmentsOf(lines[4])

Fills(table, cell) ==
  \E w \in DOMAIN xo_segment_lines : \A c \in xo_segment_lines[w] : table[c] = cell
for_each_empty_grid(table) == {c \in Cells : table[c] = CELL_EMPTY}

-----------------------------------------------------------------------------
(* The score of one line: nothing when both players have marks on it, else *)
(* one for one mark and ten times more for each further one.               *)
Worth(n) == IF n = 0 THEN 0 ELSE 10 ^ (n - 1)

eval_line_segment_score(table, player, line) ==
  LET own == Cardinality({c \in line : table[c] = player})
      other == Cardinality({c \in line : table[c] \notin {player, 0}})
  IN  IF own > 0 /\ other > 0 THEN 0 ELSE Worth(own) - Worth(other)

get_score(table, player) ==
  MapThenFoldSet(+, 0, LAMBDA w : eval_line_segment_score(table, player, xo_segment_lines[w]),
                 LAMBDA W : CHOOSE w \in W : TRUE, DOMAIN xo_segment_lines)

-----------------------------------------------------------------------------
(* For the properties: all straight runs of GOAL cells, in four directions. *)
Run(i, j, d) == {GET_INDEX(i + k * d[1], j + k * d[2]) : k \in 0 .. GOAL - 1}
Directions == {<<0, 1>>, <<1, 0>>, <<1, 1>>, <<1, -1>>}
Side == 0 .. BOARD_SIZE - 1
Starts ==
  {r \in Side \X Side \X Directions :
     /\ r[1] + (GOAL - 1) * r[3][1] \in Side
     /\ r[2] + (GOAL - 1) * r[3][2] \in Side}
Runs == {Run(r[1], r[2], r[3]) : r \in Starts}
=============================================================================
