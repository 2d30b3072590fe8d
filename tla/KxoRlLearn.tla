------------------------------ MODULE KxoRlLearn ------------------------------
(***************************************************************************)
(* What the RL agent learns (src/rl.c, update_state_value): the values of  *)
(* positions for one player, in fixed point, after any number of episodes  *)
(* that this player won.  A position stands for all positions of its kind: *)
(* the game goes on in it, or is won.  KxoRlStore decides which positions  *)
(* are stored; here any one may be evicted and start again at any time.    *)
(***************************************************************************)
EXTENDS Integers, Sequences

CONSTANTS
  RL_FIXED_1,             (* one, 1 << RL_FIXED_SCALE_BITS: 2^16           *)
  LEARNING_RATE, GAMMA,   (* 0x51e and 0xfd70 in the program               *)
  InitialValues,          (* of a position that is stored anew             *)
  OnWay,                  (* positions where the game goes on, by step     *)
  Won                     (* the position it ends in                       *)

HALF == RL_FIXED_1 \div 2
InRange == -HALF .. RL_FIXED_1
Position == OnWay \cup {Won}

(* At the lower end of the range an odd rate would be rounded against the  *)
(* values at both products.                                                *)
LearnAssumption ==
  /\ RL_FIXED_1 \in Nat \ {0} /\ RL_FIXED_1 % 2 = 0
  /\ {LEARNING_RATE, GAMMA} \subseteq 0 .. RL_FIXED_1 /\ LEARNING_RATE % 2 = 0
  /\ InitialValues \subseteq InRange
  /\ OnWay \subseteq Nat /\ Won \in Nat /\ \A p \in OnWay : p < Won

VARIABLES
  scores,                 (* of the player, by position                    *)
  episode,                (* what update_state_value has yet to go through *)
  next                    (* the value it gave to the move after           *)

learnVars == <<scores, episode, next>>

fixed_mul(a, b) == (a * b) \div RL_FIXED_1      (* an arithmetic shift     *)

(* The reward of a move as the AI handlers record it: REWARD_TRADEOFF = 1  *)
(* leaves get_score no weight, and calculate_win_value gives a half to a   *)
(* board without a winner.                                                 *)
RewardOnlyWins(p) == IF p = Won THEN 0 ELSE HALF   \* MUTANT: the other player's
Reward(p) == IF p = Won THEN RL_FIXED_1 ELSE HALF

NewScoreFull(old, curr) ==                \* MUTANT: the old value keeps its weight
  old + fixed_mul(LEARNING_RATE, curr)
NewScore(old, curr) ==
  fixed_mul(RL_FIXED_1 - LEARNING_RATE, old) + fixed_mul(LEARNING_RATE, curr)

(* The moves the agent recorded, in the order of the game, of which each   *)
(* one is a later step: a step of the opponent is 0 in episode_moves and   *)
(* skipped, unless it plays RL too.                                        *)
WonEpisodes ==
  {e \o <<Won>> : e \in UNION {[1 .. n -> OnWay] : n \in 0 .. Won}}
Ordered(e) == \A i \in 1 .. Len(e) - 1 : e[i] < e[i + 1]

(* rl_lock is held while an episode is gone through.                       *)
LearnEpisode ==
  /\ episode = <<>> /\ next' = 0
  /\ \E e \in WonEpisodes : Ordered(e) /\ episode' = e
  /\ UNCHANGED scores

(* The last of what is left of the episode.                                *)
step_update_state_value ==
  /\ episode # <<>> /\ episode' = SubSeq(episode, 1, Len(episode) - 1)
  /\ LET p == episode[Len(episode)]
     IN  /\ next' = NewScore(scores[p], Reward(p) - fixed_mul(GAMMA, next))
         /\ scores' = [scores EXCEPT ![p] = next']

(* find_rl_state makes room for another position.                          *)
Evict(p) ==
  /\ \E v \in InitialValues : scores' = [scores EXCEPT ![p] = v]
  /\ UNCHANGED <<episode, next>>

LearnInit == scores \in [Position -> InitialValues] /\ episode = <<>> /\ next = 0
LearnNext == LearnEpisode \/ step_update_state_value \/ \E p \in Position : Evict(p)
LearnSpec == LearnInit /\ [][LearnNext]_learnVars

-----------------------------------------------------------------------------
(* No number of episodes drives a value out of the range of the rewards,   *)
(* below minus a half or above one: the products, computed in 64 bits, fit *)
(* into the 32 of an rl_fxp.                                               *)
ValuesBounded == \A p \in Position : scores[p] \in InRange

(* An episode never lowers the value of the move that won, whatever the    *)
(* rounding.                                                               *)
WinNeverLowered ==
  [][step_update_state_value => scores'[Won] >= scores[Won]]_learnVars
=============================================================================
