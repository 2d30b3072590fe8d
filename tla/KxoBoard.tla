------------------------------ MODULE KxoBoard ------------------------------
(***************************************************************************)
(* The packed board of kxo (include/game.h, src/game.c): cells, the win    *)
(* test, and the bit fields of the attribute word that the rest of the     *)
(* module reads.  A board (uint32_t table, two bits per cell) is a         *)
(* function from cell numbers to cell values; the win patterns that        *)
(* fill_win_patterns precomputes are the sequence Lines of sets of cells,  *)
(* in the order in which check_win tries them.                             *)
(***************************************************************************)
EXTENDS Integers, Sequences, FiniteSets

CONSTANTS
  N_GRIDS,   (* number of cells of a board (16 in the program)            *)
  Lines      (* the winning lines, a sequence of sets of cells            *)

Cells == 0 .. N_GRIDS - 1

ASSUME BoardAssumption ==
  /\ N_GRIDS \in Nat \ {0}
  /\ Lines \in Seq((SUBSET Cells) \ {{}})

CELL_EMPTY == 0
CELL_O == 1
CELL_X == 2
CELL_D == 3

Table == [Cells -> {CELL_EMPTY, CELL_O, CELL_X}]
EmptyTable == [c \in Cells |-> CELL_EMPTY]

VAL_SET_CELL(table, pos, cell) == [table EXCEPT ![pos] = cell]

AllGrids(table) == Cells                  \* MUTANT: marked cells are not skipped
for_each_empty_grid(table) == {c \in Cells : table[c] = CELL_EMPTY}

(* (table & patt) == patt, with patt shifted to the bits of `cell'.        *)
Fills(table, line, cell) == \A c \in line : table[c] = cell

(* The patterns are tried in order, O before X on each of them; a board    *)
(* without a line is a draw exactly when it has no empty cell left.        *)
check_win(table) ==
  LET won == {i \in 1 .. Len(Lines) :
                \E cell \in {CELL_O, CELL_X} : Fills(table, Lines[i], cell)}
  IN  IF \E i \in won : TRUE
      THEN LET first == CHOOSE i \in won : \A j \in won : i <= j
           IN  IF Fills(table, Lines[first], CELL_O) THEN CELL_O ELSE CELL_X
      ELSE IF for_each_empty_grid(table) # {} THEN CELL_EMPTY ELSE CELL_D

-----------------------------------------------------------------------------
(* enum of the agents, and the four-bit AI_ALG field of the attribute word *)
(* that names the two agents of a game.                                    *)
XO_AI_MCTS == 0
XO_AI_NEGAMAX == 1
XO_AI_RL == 2
XO_AI_TOT == 3
Agent == {XO_AI_MCTS, XO_AI_NEGAMAX, XO_AI_RL}

XO_SET_ATTR_AI_ALG(ai1, ai2) == ai1 + 4 * ai2

(* How the handlers decode the field: the agent of O is the remainder of   *)
(* the whole field, not its low two bits.                                  *)
AgentO(alg) == alg % XO_AI_TOT
AgentX(alg) == (alg \div 4) % XO_AI_TOT

AllAlgs == {XO_SET_ATTR_AI_ALG(a, b) : a \in Agent, b \in Agent}

(* The fields that let the given pairs of agents play O and X.             *)
Pairings(pairs) == {alg \in AllAlgs : <<AgentO(alg), AgentX(alg)>> \in pairs}

=============================================================================
