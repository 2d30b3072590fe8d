---------------------------- MODULE MCEnginePlay ----------------------------
(* One game on a board of four cells, where O can win, X can win and the   *)
(* game can be drawn.                                                      *)
EXTENDS KxoEngineInv

MCLines == <<{0, 1}, {0, 2}, {2, 3}>>
MCAlgs == Pairings({<<XO_AI_MCTS, XO_AI_RL>>, <<XO_AI_RL, XO_AI_NEGAMAX>>})
MCSettings == {}
=============================================================================
