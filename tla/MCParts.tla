------------------------------- MODULE MCParts -------------------------------
(***************************************************************************)
(* The parts of the program that have their state to themselves.  In the   *)
(* module: load, open, close and unload, a game in packed words, the       *)
(* negamax and MCTS searches, the values the RL agent learns.  In user     *)
(* space: what a viewer leaves on the screen, what viewers do with keys,   *)
(* records and kxo_state, the output buffer and the coroutines.  They      *)
(* share no state here, so a behaviour is that of one of them, while the   *)
(* others rest in an initial state.                                        *)
(***************************************************************************)
EXTENDS KxoLifecycle, KxoNegamax, KxoMcts, KxoRlLearn,
        KxoScreen, KxoViewer, KxoOutbuf, KxoCoro

VARIABLES
  moving,                                   (* whose behaviour this is     *)
  ptable, attr, moves, turn, alg            (* KxoPacked                   *)

packedVars == <<ptable, attr, moves, turn, alg>>
agentVars == <<negamaxVars, mctsVars, learnVars>>
kernelParts == <<lifecycleVars, packedVars, agentVars>>
userVars == <<screenVars, loopVars, outbufVars, coroVars>>
vars == <<moving, kernelParts, userVars>>

-----------------------------------------------------------------------------
(* Boards of the program's size, late in a game: the upper half is played, *)
(* and some cells of the lower one are empty.                              *)
Decided(t) == Fills(t, CELL_O) \/ Fills(t, CELL_X)
Count(t, cell) == Cardinality({c \in Cells : t[c] = cell})

UpperHalf == <<1, 2, 1, 2, 1, 2, 1, 2>>
LowerHalves(empties) ==
  {h \in [8 .. 15 -> {0, 1, 2}] : Cardinality({c \in 8 .. 15 : h[c] = 0}) = empties}
Endings(empties) ==
  {t \in {[c \in Cells |-> IF c < 8 THEN UpperHalf[c + 1] ELSE h[c]] : h \in LowerHalves(empties)} :
     Count(t, 1) - Count(t, 2) \in {0, 1} /\ ~Decided(t)}
(* Bound: of them, those with a mark of O on the last square but one, and  *)
(* for negamax one of X on the ninth.                                      *)
WithO(boards) == {t \in boards : t[14] = CELL_O}
FiveOrFourLeft == {t \in WithO(Endings(5) \cup Endings(4)) : t[8] = CELL_X}
ThreeOrTwoLeft == WithO(Endings(3) \cup Endings(2))

(* Equal squares are sorted upwards or downwards.                          *)
BothOrders == {[c \in Cells |-> c], [c \in Cells |-> 16 - c]}
ToFour == <<2, 4>>

(* In packed words, a game of the program's size with a number of two bits. *)
Packed == INSTANCE KxoPacked WITH Id <- 5, Algs <- {9}, table <- ptable

(* Bound: the first eight moves are one of three openings (a half of the   *)
(* board, or every other square, where both win), and then the marks of    *)
(* either player go up the board.                                          *)
Openings == {[s \in 0 .. 7 |-> s], [s \in 0 .. 7 |-> 15 - s], [s \in 0 .. 7 |-> 2 * s]}
OpeningsOnly ==
  LET steps == Packed!XO_ATTR_STEPS(attr')
      Square(s) == Packed!GET_RECORD_CELL(moves', s)
  IN  /\ \E o \in Openings : \A s \in 0 .. steps - 1 : s < 8 => Square(s) = o[s]
      /\ \A s \in 10 .. steps - 1 : Square(s - 2) < Square(s)

(* Three files, so that an open and a close may overlap a third's.         *)
ThreeFiles == {"f1", "f2", "f3"}

-----------------------------------------------------------------------------
(* Two games move: every pair of neighbours, next to each other or one     *)
(* above the other, whose boards share a frame.                            *)
Neighbours ==
  {{g, g + 1} : g \in {0, 1, 3, 4, 6, 7}} \cup {{g, g + 3} : g \in 0 .. 5}
FirstAndLast == {1, 16}

(* Two viewers, so that one may take the record that the other was told    *)
(* of.  Bound: one of them only pauses the games.                          *)
TwoViewers == {"v1", "v2"}
StateKeys == {"ctrl_p", "ctrl_q"}
SecondPauses == key'["v2"] # "ctrl_q"

(* A buffer of five bytes that is flushed from three on: a text may fit    *)
(* without its terminator, fill the buffer or be longer than it.           *)

(* The round of user/xo-user.c: task_print_now, task_io, task_tab.         *)
MainRound == << <<>>, <<"send">>, <<"recv">> >>
(* One sender and one receiver of the same number of messages, in either   *)
(* order, with and without yields, so that both sides of the channel block. *)
Senders == {<<"send", "send", "send">>, <<"send", "yield", "send", "send">>}
Receivers == {<<"recv", "recv", "recv">>, <<"yield", "recv", "recv", "yield", "recv">>}
AllRounds == {<<s, r>> : s \in Senders, r \in Receivers} \cup
             {<<r, s>> : s \in Senders, r \in Receivers} \cup {MainRound}

(* Where stacks may fail, main's round is repeated.                        *)
MainAgain == running /\ ~running' => starting' = MainRound
(* Elsewhere every stack can be had.                                       *)
EveryStack == ~missed'

ASSUME PartsAssumption ==
  /\ LifecycleAssumption /\ LearnAssumption /\ Packed!PackedAssumption
  /\ ViewerAssumption /\ OutbufAssumption /\ CoroAssumption /\ PairedRounds

-----------------------------------------------------------------------------
KernelParts == {"lifecycle", "packed", "negamax", "mcts", "learn"}
UserParts == {"screen", "viewers", "outbuf", "main", "rounds"}

KernelInit ==
  /\ LifecycleInit /\ Packed!PackedInit /\ NegamaxInit /\ MctsInit /\ LearnInit
  /\ moving # "negamax" => tie[0] = 0
  /\ moving # "learn" => \A p \in DOMAIN scores : scores[p] = 0

UserInit ==
  /\ ScreenInit /\ LoopInit /\ OutbufInit
  /\ CoroInit /\ (moving # "rounds" => starting = MainRound)
  /\ moving # "screen" => live = {0, 1}
  /\ moving \notin {"main", "rounds"} => data = "m1" /\ buf[0] = "m1"

PartsInit == moving \in KernelParts \cup UserParts /\ KernelInit /\ UserInit

AgentsNext ==
  \/ moving = "negamax" /\ NegamaxNext /\ UNCHANGED <<mctsVars, learnVars>>
  \/ moving = "mcts" /\ MctsNext /\ UNCHANGED <<negamaxVars, learnVars>>
  \/ moving = "learn" /\ LearnNext /\ UNCHANGED <<negamaxVars, mctsVars>>

KernelNext ==
  \/ moving = "lifecycle" /\ LifecycleNext /\ UNCHANGED <<packedVars, agentVars>>
  \/ moving = "packed" /\ Packed!PackedNext /\ OpeningsOnly /\ UNCHANGED <<lifecycleVars, agentVars>>
  \/ AgentsNext /\ UNCHANGED <<lifecycleVars, packedVars>>

UserNext ==
  \/ moving = "screen" /\ ScreenNext /\ UNCHANGED <<loopVars, outbufVars, coroVars>>
  \/ /\ moving = "viewers" /\ LoopNext /\ SecondPauses
     /\ UNCHANGED <<screenVars, outbufVars, coroVars>>
  \/ moving = "outbuf" /\ OutbufNext /\ UNCHANGED <<screenVars, loopVars, coroVars>>
  \/ /\ CoroNext
     /\ \/ moving = "main" /\ MainAgain
        \/ moving = "rounds" /\ EveryStack
     /\ UNCHANGED <<screenVars, loopVars, outbufVars>>

(* A search need not be followed by another, a game meets its bound, a     *)
(* module whose device stayed behind is not loaded again, and a main that  *)
(* has left or has crashed does nothing more.                              *)
Ended ==
  \/ moving \in {"mcts", "packed"} \/ pc = "done"
  \/ phase = "unloaded" /\ have # {}
  \/ where = "exit" \/ crashed

PartsNext ==
  /\ UNCHANGED moving
  /\ \/ KernelNext /\ UNCHANGED userVars
     \/ UserNext /\ UNCHANGED kernelParts
     \/ Ended /\ UNCHANGED <<kernelParts, userVars>>

Spec == PartsInit /\ [][PartsNext]_vars
FairSpec == Spec /\ LoopFairness

-----------------------------------------------------------------------------
(* A game in packed words (game.c, game.h): wins are found, and no field   *)
(* of a record disturbs another.                                           *)
GameTrue ==
  moving = "packed" =>
    Packed!WinTrue /\ Packed!Replays /\ Packed!FieldsKept /\ Packed!ScoreZeroSum

(* The packed words implement KxoPlay: what PlaysOn says, of the steps of  *)
(* the game.                                                               *)
GamePlaysOn ==
  Packed!Board!PlayInit /\ [][moving = "packed" => Packed!Board!PlayNext]_packedVars

(* A negamax search (negamax.c) leaves nothing behind and is exact where   *)
(* it should be.                                                           *)
NegamaxTrue == MoveLegal /\ HashRestored /\ ShallowExact

(* The tree of an MCTS search (mcts.c) is one of games, its counts and     *)
(* scores add up along it, and it yields an answer.                        *)
MctsTrue == TreeLegal /\ VisitsAddUp /\ ScoresAddUp /\ AnswerMade

(* What is painted (tui.c) stays what it should be, in whatever order the  *)
(* parts of the screen are drawn.                                          *)
ScreenTrue == BoardsTrue /\ StopTrue /\ TabTrue /\ LinesTrue
=============================================================================
