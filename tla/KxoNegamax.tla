----------------------------- MODULE KxoNegamax ------------------------------
(***************************************************************************)
(* The negamax agent (src/negamax.c) with its Zobrist table                   *)
(* (src/zobrist.c).  Its memory outlives a move and is shared by all games *)
(* (negamax_lock lets one search at a time): hash_value, the hash table       *)
(* and the history of the squares.  A search is an operator from the       *)
(* memory to the result and the memory it leaves; negamax_predict is a     *)
(* sequence of searches, deeper each time.                                 *)
(* A hash key is the set of marks put on the board since the root, which   *)
(* it stands for unless two keys of 64 random bits collide; a bucket's     *)
(* entries are tried newest first, so that put overwrites.                 *)
(***************************************************************************)
EXTENDS KxoLines, TLC

CONSTANTS
  Positions,        (* the boards searched, with an empty cell and no line *)
  Depths,           (* of the searches for a move (<<2, 4, 6>>)            *)
  TieOrders         (* orders that sort may give squares of equal history  *)

ASSUME NegamaxAssumption ==
  /\ Positions \subseteq [Cells -> {CELL_EMPTY, CELL_O, CELL_X}]
  /\ \A d \in DOMAIN Depths : Depths[d] \in Nat \ {0}
  /\ TieOrders \subseteq [Cells -> Nat]

VARIABLES
  step,             (* idle, or the number of the next search              *)
  position, player, (* negamax_predict's arguments                         *)
  hash_value, hash_table, history,
  result, tie

negamaxVars == <<step, position, player, hash_value, hash_table, history, result, tie>>

-----------------------------------------------------------------------------
Over(t) == Fills(t, CELL_O) \/ Fills(t, CELL_X) \/ for_each_empty_grid(t) = {}
Toggle(h, mark) == IF mark \in h THEN h \ {mark} ELSE h \cup {mark}

(* The history of a square, as cmp_moves compares it: C's division.        *)
Quotient(a, b) == IF a < 0 THEN -((-a) \div b) ELSE a \div b
Average(past) == IF past.count = 0 THEN 0 ELSE Quotient(past.sum, past.count)

(* sort, the best average first.                                           *)
Sorted(t, past) ==
  LET Before(a, b) ==
        LET x == Average(past[a])  y == Average(past[b])
        IN  x > y \/ (x = y /\ tie[a] < tie[b])
      moves == for_each_empty_grid(t)
      Rank(a) == 1 + Cardinality({b \in moves : Before(b, a)})
  IN  [i \in 1 .. Cardinality(moves) |-> CHOOSE a \in moves : Rank(a) = i]

(* Memory in a search.                                                     *)
Get(m) == m.hash \in DOMAIN m.tt
Hit(m) == [score |-> m.tt[m.hash].score, move |-> m.tt[m.hash].move, m |-> m]
Put(m, score, move) ==
  [m EXCEPT !.tt = (m.hash :> [score |-> score, move |-> move]) @@ m.tt]
Note(m, move, score) ==
  [m EXCEPT !.past[move].count = @ + 1, !.past[move].sum = @ + score]

RECURSIVE negamax(_, _, _, _, _, _)
RECURSIVE Tried(_, _, _, _, _, _, _, _, _)

(* A move's score: with the full window for the first one, else with none, *)
(* and again when it lies inside the window.                               *)
Child(t, depth, p, lo, hi, m) ==
  LET r == negamax(t, depth - 1, Other(p), lo, hi, m) IN [score |-> -r.score, m |-> r.m]

Try(t, depth, p, alpha, beta, first, m) ==
  IF first THEN Child(t, depth, p, -beta, -alpha, m)
  ELSE LET scout == Child(t, depth, p, -alpha - 1, -alpha, m)
       IN  IF alpha < scout.score /\ scout.score < beta
           THEN Child(t, depth, p, -beta, -scout.score, scout.m)
           ELSE scout

(* The moves from the i-th on.  The board and hash_value are put back      *)
(* before the cut.                                                         *)
CutBeforeRestore(m, mark, cut) ==         \* MUTANT: the cut comes first
  IF cut THEN m ELSE [m EXCEPT !.hash = Toggle(@, mark)]
Restore(m, mark, cut) == [m EXCEPT !.hash = Toggle(@, mark)]

Tried(t, depth, p, alpha, beta, moves, i, best, m) ==
  IF i > Len(moves) THEN [best |-> best, m |-> m]
  ELSE LET move == moves[i]
           mark == <<move, p>>
           s == Try([t EXCEPT ![move] = p], depth, p, alpha, beta, i = 1,
                    [m EXCEPT !.hash = Toggle(@, mark)])
           better == IF s.score > best.score THEN [score |-> s.score, move |-> move] ELSE best
           raised == IF s.score > alpha THEN s.score ELSE alpha
           after == Restore(Note(s.m, move, s.score), mark, raised >= beta)
       IN  IF raised >= beta THEN [best |-> better, m |-> after]
           ELSE Tried(t, depth, p, raised, beta, moves, i + 1, better, after)

negamax(t, depth, p, alpha, beta, m) ==
  IF Over(t) \/ depth = 0 THEN [score |-> get_score(t, p), move |-> -1, m |-> m]
  ELSE IF Get(m) THEN Hit(m)
  ELSE LET r == Tried(t, depth, p, alpha, beta, Sorted(t, m.past), 1,
                      [score |-> -10000, move |-> -1], m)
       IN  [score |-> r.best.score, move |-> r.best.move,
            m |-> Put(r.m, r.best.score, r.best.move)]

-----------------------------------------------------------------------------
NoHistory == [c \in Cells |-> [sum |-> 0, count |-> 0]]

(* negamax_predict, under negamax_lock: its start, and one search of its   *)
(* loop with the zobrist_clear that follows.                               *)
Predict(t) ==
  /\ step = 0 /\ step' = 1
  /\ position' = t
  /\ player' = IF Cardinality({c \in Cells : t[c] = CELL_O}) =
                  Cardinality({c \in Cells : t[c] = CELL_X}) THEN CELL_O ELSE CELL_X
  /\ history' = NoHistory
  /\ UNCHANGED <<hash_value, hash_table, result, tie>>

zobrist_clear(tt) == hash_table' = <<>>

Search ==
  /\ step > 0
  /\ LET r == negamax(position, Depths[step], player, -100000, 100000,
                      [hash |-> hash_value, tt |-> hash_table, past |-> history])
     IN  /\ result' = [score |-> r.score, move |-> r.move, depth |-> Depths[step]]
         /\ hash_value' = r.m.hash /\ history' = r.m.past
         /\ zobrist_clear(r.m.tt)
  /\ step' = IF step = Len(Depths) THEN 0 ELSE step + 1
  /\ UNCHANGED <<position, player, tie>>

NegamaxInit ==
  /\ step = 0 /\ position = [c \in Cells |-> CELL_EMPTY] /\ player = CELL_O
  /\ hash_value = {} /\ hash_table = <<>> /\ history = NoHistory
  /\ result = [score |-> 0, move |-> -1, depth |-> 0] /\ tie \in TieOrders

NegamaxNext == (\E t \in Positions : Predict(t)) \/ Search
NegamaxSpec == NegamaxInit /\ [][NegamaxNext]_negamaxVars

-----------------------------------------------------------------------------
(* The value of a board by the definition of negamax.                      *)
RECURSIVE Value(_, _, _)
Value(t, depth, p) ==
  IF Over(t) \/ depth = 0 THEN get_score(t, p)
  ELSE LET scores == {-Value([t EXCEPT ![c] = p], depth - 1, Other(p)) : c \in for_each_empty_grid(t)}
       IN  CHOOSE s \in scores : \A o \in scores : o <= s

Searched == result.depth > 0 /\ (step = 0 \/ step > 1)

(* A search answers with an empty cell, whatever the searches before it    *)
(* left in the history.                                                    *)
MoveLegal == Searched => result.move \in for_each_empty_grid(position)

(* hash_value is back at the root's after a search, in spite of the cuts:  *)
(* the next search, for whatever game, starts from it.                     *)
HashRestored == hash_value = {}

(* The first search of a move, two moves deep, has the negamax value: the  *)
(* windows and the table cost nothing there.                               *)
ShallowExact == Searched /\ result.depth <= 2 => result.score = Value(position, result.depth, player)
=============================================================================
