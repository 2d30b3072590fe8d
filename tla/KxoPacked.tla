------------------------------ MODULE KxoPacked ------------------------------
(***************************************************************************)
(* A game in the words the module keeps it in (include/game.h,             *)
(* src/game.c): table, two bits per cell; attr, with the game's number in  *)
(* bits 0-3, its steps in 4-8 and its agents in 9-12; moves, four bits per *)
(* step.  A word is the set of its bits that are set.  The words implement *)
(* KxoPlay's board and turn.                                               *)
(***************************************************************************)
EXTENDS KxoLines, FiniteSetsExt

CONSTANTS Id, Algs                        (* the game's number, its agents *)

PackedAssumption == Id \in 0 .. 15 /\ Algs \subseteq 0 .. 15

VARIABLES table, attr, moves, turn, alg   (* alg: as it was last set, history *)
packedVars == <<table, attr, moves, turn, alg>>

-----------------------------------------------------------------------------
(* Bit fields of so many bits, from bit n up; set_bits does not mask the   *)
(* value, whose bits may lie in the next field.                            *)
get_bits(x, bits, n) == MapThenSumSet(LAMBDA i : 2 ^ (i - n), x \cap (n .. n + bits - 1))

Word(value) == {i \in 0 .. value : (value \div 2 ^ i) % 2 = 1}
set_bits(x, value, bits, n) ==
  (x \ (n .. n + bits - 1)) \cup {i + n : i \in Word(value)}

VAL_SET_CELL(t, pos, cell) == set_bits(t, cell, 2, pos * 2)
TABLE_GET_CELL(t, pos) == get_bits(t, 2, pos * 2)
SET_RECORD_CELL(m, step, n) == set_bits(m, step, 4, n * 4)
GET_RECORD_CELL(m, id) == get_bits(m, 4, id * 4)
XO_ATTR_ID(a) == get_bits(a, 4, 0)
XO_ATTR_STEPS(a) == get_bits(a, 5, 4)
XO_ATTR_AI_ALG(a) == get_bits(a, 4, 9)
XO_SET_ATTR_STEPS(a, steps) == set_bits(a, steps, 5, 4)

(* check_win tests a line's pattern, which has O's bit in each of its      *)
(* cells, and the pattern one bit higher, for X; the first line counts.    *)
Has(t, line, cell) == {c * 2 + cell - CELL_O : c \in line} \subseteq t
detect_empty_cell(t) == \E c \in Cells : t \cap {c * 2, c * 2 + 1} = {}

HeldBy(t, cell) == {w \in DOMAIN xo_segment_lines : Has(t, xo_segment_lines[w], cell)}
check_win(t) ==
  LET o == HeldBy(t, CELL_O)  x == HeldBy(t, CELL_X)
  IN  IF \E i \in o : \A j \in x : i <= j THEN CELL_O
      ELSE IF x # {} THEN CELL_X
      ELSE IF detect_empty_cell(t) THEN CELL_EMPTY ELSE CELL_D

AllMoves(t) == Cells           \* MUTANT: marked cells too
available_moves(t) == {c \in Cells : TABLE_GET_CELL(t, c) = CELL_EMPTY}

-----------------------------------------------------------------------------
(* What the work functions write for a move, on a board that is finished   *)
(* too, and finish_game for a new game.                                    *)
Play(move) ==
  /\ move \in available_moves(table)
  /\ LET steps == XO_ATTR_STEPS(attr)
     IN  /\ table' = VAL_SET_CELL(table, move, turn)
         /\ moves' = SET_RECORD_CELL(moves, move, steps)
         /\ attr' = XO_SET_ATTR_STEPS(attr, steps + 1)
  /\ turn' = Other(turn) /\ UNCHANGED alg

NewGame(a) ==
  /\ table' = {} /\ moves' = {} /\ turn' = CELL_O
  /\ attr' = set_bits(Word(Id), a, 4, 9) /\ alg' = a

PackedInit ==
  /\ table = {} /\ moves = {} /\ turn = CELL_O
  /\ alg \in Algs /\ attr = set_bits(Word(Id), alg, 4, 9)

PackedNext ==
  \/ \E move \in Cells : Play(move)
  \/ check_win(table) # CELL_EMPTY /\ \E a \in Algs : NewGame(a)

PackedSpec == PackedInit /\ [][PackedNext]_packedVars

-----------------------------------------------------------------------------
Unpacked == [c \in Cells |-> TABLE_GET_CELL(table, c)]

Board == INSTANCE KxoPlay WITH
  N_GRIDS <- N_GRIDS, Lines <- xo_segment_lines, N_GAMES <- 1, board <- [g \in {0} |-> Unpacked]

(* check_win names a player who fills a straight run of GOAL cells, in     *)
(* whatever direction and from whatever cell (one of the two, on a board   *)
(* that was played on), and a draw when nobody can move.                   *)
WinTrue ==
  LET Filled(cell) == \E run \in Runs : \A c \in run : Unpacked[c] = cell
      winners == {cell \in {CELL_O, CELL_X} : Filled(cell)}
  IN  IF winners # {} THEN check_win(table) \in winners
      ELSE check_win(table) =
             IF \E c \in DOMAIN Unpacked : Unpacked[c] = CELL_EMPTY
             THEN CELL_EMPTY ELSE CELL_D

(* The moves of a record, replayed from an empty board, are its table: the *)
(* viewer shows both.                                                      *)
Replays ==
  LET steps == XO_ATTR_STEPS(attr)
      Played(player) == {GET_RECORD_CELL(moves, s) :
                           s \in {n \in 0 .. steps - 1 : n % 2 = player - CELL_O}}
  IN  \A player \in {CELL_O, CELL_X} : {c \in Cells : Unpacked[c] = player} = Played(player)

(* Counting steps and choosing agents leave the other fields of attr alone. *)
FieldsKept == XO_ATTR_ID(attr) = Id /\ XO_ATTR_AI_ALG(attr) = alg

(* What is good for O is as bad for X: negamax relies on it.               *)
ScoreZeroSum == get_score(Unpacked, CELL_O) = -get_score(Unpacked, CELL_X)

(* KxoPlay: marks go on empty cells in turn, and only a finished game is   *)
(* cleared.                                                                *)
PlaysOn == Board!PlaySpec
=============================================================================
