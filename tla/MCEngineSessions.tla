--------------------------- MODULE MCEngineSessions ---------------------------
(* One game on a board of two cells and two files that open and close at   *)
(* any time, while sysfs pauses and resumes the display and the games.     *)
EXTENDS KxoEngineInv, TLC

Perms == Permutations(Users)
MCLines == <<{0}>>
MCAlgs == Pairings({<<XO_AI_RL, XO_AI_NEGAMAX>>})
MCStop == {<<"1", "1">>}
MCSettings == {<<"1", "0">>, <<"0", "0">>, <<"1", "1">>}
=============================================================================
