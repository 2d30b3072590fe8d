-------------------------------- MODULE KxoUct --------------------------------
(***************************************************************************)
(* What uct_score says of one child while the search goes on: each         *)
(* iteration through the parent visits the child or one of its siblings,   *)
(* until the search ends.                                                  *)
(***************************************************************************)
EXTENDS KxoFixed

CONSTANT ITERATIONS               (* 100000 in the program                 *)

-----------------------------------------------------------------------------
VARIABLES
  total, visits,          (* of a node and of one of its children          *)
  mean,                   (* of the results that went through the child    *)
  seen                    (* its score, as select_move computes it next    *)

uctVars == <<total, visits, mean, seen>>

(* A node has been visited once when it gets its children.                 *)
UctInit == total = 1 /\ visits = 0 /\ mean \in {0, ONE \div 2, ONE} /\ seen = FIXED_MAX

Visit(more) ==
  /\ total < ITERATIONS
  /\ total' = total + 1 /\ visits' = visits + more /\ UNCHANGED mean
  /\ seen' = uct_score(total + 1, visits + more, (visits + more) * mean)
VisitChild == Visit(1)
VisitSibling == Visit(0)

UctNext == VisitChild \/ VisitSibling
UctSpec == UctInit /\ [][UctNext]_uctVars

-----------------------------------------------------------------------------
(* UCT (README.md): visits of its siblings never make a child look worse,  *)
(* so that its turn comes again, and of two children with the same mean    *)
(* the one visited less never looks worse (mcts.c, uct_score).             *)
VisitsBalance ==
  /\ uct_score(total + 1, visits, visits * mean) >= seen
  /\ uct_score(total, visits + 1, (visits + 1) * mean) <= seen
=============================================================================
