----------------------------- MODULE MCEngineLive -----------------------------
(* One game on a board of two cells and one file, under fairness, while    *)
(* sysfs stops the games and lets them go on.                              *)
EXTENDS KxoEngineInv

MCLines == <<{0}>>
MCAlgs == Pairings({<<XO_AI_RL, XO_AI_NEGAMAX>>})
MCSettings == {<<"1", "1">>, <<"1", "0">>}
=============================================================================
