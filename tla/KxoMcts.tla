------------------------------- MODULE KxoMcts -------------------------------
(***************************************************************************)
(* The MCTS agent (src/mcts.c): one move's search, from the call of mcts   *)
(* to its answer.  A step is one iteration.  mcts_lock lets one search run *)
(* at a time; what reaches it from outside is kxo_stop_work, read before   *)
(* each iteration, memory that kzalloc refuses, and the random numbers,    *)
(* which make a rollout end in any result that some moves lead to.         *)
(* A node is a number, 1 is the root; tree gives its fields and children   *)
(* the numbers of the filled places of its children array.                 *)
(***************************************************************************)
EXTENDS KxoLines, KxoFixed, SequencesExt

CONSTANTS
  ITERATIONS,       (* 100000 in the program                               *)
  Boards,           (* the boards searched, with an empty cell and no line *)
  MaxRefusals       (* bound: allocations that fail, one search            *)

ASSUME MctsAssumption ==
  Boards \subseteq [Cells -> {CELL_EMPTY, CELL_O, CELL_X}] /\ {ITERATIONS, MaxRefusals} \subseteq Nat

VARIABLES
  stage,            (* idle, searching, answered                           *)
  table,            (* mcts's argument                                     *)
  tree, nr_active_nodes, iterations, answer, refusals,
  kxo_stop_work     (* set once, when the module is unloaded               *)

mctsVars == <<stage, table, tree, nr_active_nodes, iterations, answer, refusals, kxo_stop_work>>

-----------------------------------------------------------------------------
check_win(t) ==
  IF Fills(t, CELL_O) THEN CELL_O
  ELSE IF Fills(t, CELL_X) THEN CELL_X
  ELSE IF for_each_empty_grid(t) = {} THEN CELL_D ELSE CELL_EMPTY
calculate_win_value(win, p) ==
  IF win = p THEN ONE ELSE IF win = Other(p) THEN 0 ELSE ONE \div 2

new_node(move, p, parent) ==
  [move |-> move, player |-> p, n_visits |-> 0, score |-> 0, parent |-> parent, children |-> <<>>]

(* What a rollout from t with p to move may end in.                        *)
RECURSIVE Outcomes(_, _)
Outcomes(t, p) ==
  LET win == check_win(t)
  IN  IF win # CELL_EMPTY THEN {win}
      ELSE UNION {Outcomes([t EXCEPT ![c] = p], Other(p)) : c \in for_each_empty_grid(t)}

(* The first child with the best score, if one is above 0.                 *)
ScoreIn(tr, node, child) == uct_score(tr[node].n_visits, tr[child].n_visits, tr[child].score)
select_move(tr, node) ==
  LET scores == {<<ScoreIn(tr, node, c), c>> : c \in Range(tr[node].children)}
      best == CHOOSE b \in scores :
                \A s \in scores : s[1] < b[1] \/ (s[1] = b[1] /\ s[2] >= b[2])
  IN  IF \A s \in scores : s[1] = 0 THEN 0 ELSE best[2]

(* node and its ancestors, and what each of them is given.                 *)
RECURSIVE Ancestry(_, _)
Ancestry(tr, node) == IF node = 0 THEN <<>> ELSE <<node>> \o Ancestry(tr, tr[node].parent)
GivenSame(score, k) == score            \* MUTANT: one side's score for all
Given(score, k) == IF k % 2 = 1 THEN score ELSE ONE - score
backpropagate(tr, node, score) ==
  LET path == Ancestry(tr, node)
  IN  [n \in DOMAIN tr |->
         IF n \notin Range(path) THEN tr[n]
         ELSE LET k == CHOOSE i \in DOMAIN path : path[i] = n
              IN  [tr[n] EXCEPT !.n_visits = @ + 1, !.score = @ + Given(score, k)]]

(* The children that expand makes, of which only the first made may be.    *)
expand(tr, node, t, made) ==
  LET moves == SetToSortSeq(for_each_empty_grid(t), <)
      first == Len(tr)
      p == Other(tr[node].player)
  IN  [tr EXCEPT ![node].children = [i \in 1 .. made |-> first + i]]
        \o [i \in 1 .. made |-> new_node(moves[i], p, node)]

(* Down from node to where the iteration gives a score or expands: the     *)
(* node and the board there.                                               *)
Scored(tr, node, t) == check_win(t) # CELL_EMPTY \/ tr[node].n_visits = 0
Below(tr, node, t) == [t EXCEPT ![tr[node].move] = Other(tr[node].player)]
RECURSIVE Descent(_, _, _)
Descent(tr, node, t) ==
  IF node = 0 \/ Scored(tr, node, t) \/ tr[node].children = <<>>
  THEN [node |-> node, table |-> t]
  ELSE LET next == select_move(tr, node)
       IN  Descent(tr, next, IF next = 0 THEN t ELSE Below(tr, next, t))

-----------------------------------------------------------------------------
(* The end of an iteration at a node: a game that is over has its score,   *)
(* another one is played on at random (simulate).                          *)
Finish(tr, at) ==
  /\ iterations' = iterations + 1
  /\ LET win == check_win(at.table)
         player == tr[at.node].player
     IN  IF win # CELL_EMPTY
         THEN tree' = backpropagate(tr, at.node, calculate_win_value(win, Other(player)))
         ELSE \E w \in Outcomes(at.table, player) :
                tree' = backpropagate(tr, at.node, calculate_win_value(w, player))
  /\ UNCHANGED <<stage, table, answer>>

GiveUp ==
  /\ stage' = "answered" /\ answer' = -1 /\ tree' = <<>>
  /\ UNCHANGED <<table, iterations>>

(* mcts: the allocation of the root, and its iterations.                   *)
Root(refused) ==
  /\ stage = "idle" /\ ~kxo_stop_work /\ refusals' = refusals + refused
  /\ \E t \in Boards :
       /\ table' = t
       /\ IF refused = 1
          THEN stage' = "answered" /\ answer' = -1 /\ UNCHANGED <<tree, nr_active_nodes>>
          ELSE /\ stage' = "searching" /\ UNCHANGED answer
               /\ tree' = <<new_node(-1, IF Cardinality({c \in Cells : t[c] = CELL_O}) =
                                            Cardinality({c \in Cells : t[c] = CELL_X})
                                         THEN CELL_O ELSE CELL_X, 0)>>
               /\ nr_active_nodes' = 1
  /\ UNCHANGED <<iterations, kxo_stop_work>>

Iterate ==
  /\ stage = "searching" /\ iterations < ITERATIONS /\ ~kxo_stop_work /\ UNCHANGED kxo_stop_work
  /\ LET at == Descent(tree, 1, table)
         lost == at.node = 0
         n_moves == IF lost THEN 0 ELSE Cardinality(for_each_empty_grid(at.table))
     IN  \/ /\ ~lost /\ Scored(tree, at.node, at.table) /\ Finish(tree, at)
            /\ UNCHANGED <<nr_active_nodes, refusals>>
         \/ /\ lost \/ ~Scored(tree, at.node, at.table)
            /\ \E made \in 0 .. n_moves :
                 LET grown == IF lost THEN tree ELSE expand(tree, at.node, at.table, made)
                     first == IF lost THEN 0 ELSE select_move(grown, at.node)
                 IN  /\ made < n_moves => refusals < MaxRefusals
                     /\ refusals' = refusals + (IF made < n_moves THEN 1 ELSE 0)
                     /\ nr_active_nodes' = nr_active_nodes + made
                     /\ IF first = 0 THEN GiveUp
                        ELSE Finish(grown, [node |-> first, table |-> Below(grown, first, at.table)])

(* The loop ends by itself or at a request to stop; the child of the root  *)
(* with the most visits is the answer, and the tree is freed.              *)
Answer ==
  /\ stage = "searching" /\ (iterations = ITERATIONS \/ kxo_stop_work)
  /\ LET most == {c \in Range(tree[1].children) :
                    \A d \in Range(tree[1].children) :
                      tree[d].n_visits < tree[c].n_visits
                      \/ (tree[d].n_visits = tree[c].n_visits /\ d >= c)}
     IN  answer' = tree[IF most = {} THEN 1 ELSE CHOOSE c \in most : TRUE].move
  /\ stage' = "answered" /\ tree' = <<>>
  /\ UNCHANGED <<table, nr_active_nodes, iterations, refusals, kxo_stop_work>>

Again ==
  /\ stage = "answered" /\ stage' = "idle" /\ answer' = -1 /\ iterations' = 0 /\ refusals' = 0
  /\ UNCHANGED <<table, tree, nr_active_nodes, kxo_stop_work>>

StopWork ==
  /\ ~kxo_stop_work /\ kxo_stop_work' = TRUE
  /\ UNCHANGED <<stage, table, tree, nr_active_nodes, iterations, answer, refusals>>

MctsInit ==
  /\ stage = "idle" /\ table = [c \in Cells |-> CELL_EMPTY] /\ tree = <<>>
  /\ nr_active_nodes = 0 /\ iterations = 0 /\ answer = -1 /\ refusals = 0
  /\ kxo_stop_work = FALSE

MctsNext == (\E refused \in 0 .. (IF MaxRefusals > 0 THEN 1 ELSE 0) : Root(refused))
        \/ Iterate \/ Answer \/ Again \/ StopWork
MctsSpec == MctsInit /\ [][MctsNext]_mctsVars

-----------------------------------------------------------------------------
Searching == stage = "searching"
Children(n) == Range(tree[n].children)
Mover(n) == Other(tree[n].player)

(* The board of a node, by the moves that lead to it.                      *)
BoardAt(n) ==
  LET path == Ancestry(tree, n)
  IN  [c \in Cells |->
         IF \E m \in Range(path) : tree[m].move = c
         THEN Mover(CHOOSE m \in Range(path) : tree[m].move = c) ELSE table[c]]
IsOver(n) == check_win(BoardAt(n)) # CELL_EMPTY

(* Every iteration visits the root once, and a node once by itself (each   *)
(* time, if the game is over there) and else through one of its children.  *)
VisitsAddUp ==
  Searching =>
    /\ tree[1].n_visits = iterations
    /\ \A n \in DOMAIN tree :
         LET below == SumFunction([i \in DOMAIN tree[n].children |-> tree[tree[n].children[i]].n_visits])
         IN  IF IsOver(n) THEN below = 0
             ELSE tree[n].n_visits = below + (IF tree[n].n_visits > 0 THEN 1 ELSE 0)

(* What a node scored is what its children did not, and one rollout; a     *)
(* finished game scores for the player who made its last move.             *)
ScoresAddUp ==
  Searching =>
    \A n \in DOMAIN tree : tree[n].n_visits > 0 =>
      LET below == SumFunction([i \in DOMAIN tree[n].children |->
                          LET c == tree[tree[n].children[i]] IN c.n_visits * ONE - c.score])
          value == calculate_win_value(check_win(BoardAt(n)), Mover(n))
      IN  IF IsOver(n) THEN tree[n].score = tree[n].n_visits * value
          ELSE tree[n].score - below \in {0, ONE \div 2, ONE}

(* The tree is one of games: a child is a legal move of the player whose   *)
(* turn it is, no game goes on after its end, and without a shortage of    *)
(* memory every move is there.  nr_active_nodes counts its nodes.          *)
TreeLegal ==
  Searching =>
    /\ nr_active_nodes = Len(tree)
    /\ \A n \in DOMAIN tree :
       LET moves == {tree[c].move : c \in Children(n)}
       IN  /\ moves \subseteq for_each_empty_grid(BoardAt(n))
           /\ Cardinality(moves) = Len(tree[n].children)
           /\ \A c \in Children(n) : tree[c].parent = n /\ Mover(c) = tree[n].player
           /\ moves # {} => ~IsOver(n)
           /\ moves # {} /\ refusals = 0 => moves = for_each_empty_grid(BoardAt(n))

(* There is an answer, an empty cell, unless the search was stopped before *)
(* the root had children or memory was short.                              *)
AnswerMade ==
  stage = "answered" =>
    IF answer = -1 THEN (kxo_stop_work /\ iterations <= 1) \/ refusals > 0 ELSE answer \in for_each_empty_grid(table)
=============================================================================
