------------------------- MODULE KxoEngineOwnership -------------------------
(***************************************************************************)
(* Type correctness of the game engine, and one owner per game, for every  *)
(* number of games, cells, lines, files and sysfs writes; the second when  *)
(* an open never overlaps the last close and the timer handler never       *)
(* overlaps the tasklet.                                                   *)
(*                                                                         *)
(* OwnershipInv is inductive.  Ownership itself needs SoftirqSerial and    *)
(* CheckedReady at the timer's unlocked write of GAME_DONE, and            *)
(* ReleaseStops where the last close turns GAME_DONE back to GAME_READY.   *)
(***************************************************************************)
EXTENDS KxoEngineInv, TLAPS

(* The two agents that the AI_ALG field of a game names exist.             *)
LEMMA AgentsOfField ==
  ASSUME NEW alg \in AllAlgs, NEW k \in AiKind
  PROVE  AgentOf(k, alg) \in Agent
BY SMT DEF AllAlgs, Agent, AiKind, AgentOf, AgentO, AgentX, XO_AI_TOT,
       XO_SET_ATTR_AI_ALG, XO_AI_MCTS, XO_AI_NEGAMAX, XO_AI_RL

(* check_win answers nothing but a winner, a draw or "not over".           *)
LEMMA CheckWinType ==
  ASSUME NEW table \in Table
  PROVE  check_win(table) \in Winner
BY DEF check_win, Winner

(* Marking a cell leaves a board.                                          *)
LEMMA SetCellType ==
  ASSUME NEW table \in Table, NEW pos \in Cells, NEW cell \in {CELL_O, CELL_X}
  PROVE  VAL_SET_CELL(table, pos, cell) \in Table
BY DEF Table, VAL_SET_CELL

(* An agent answers a cell of the board or gives up.                       *)
LEMMA AnswersType ==
  ASSUME NEW who \in Agent, NEW table \in Table
  PROVE  Answers(who, table) \subseteq Cells \cup {NoMove}
BY DEF Agent, Answers, for_each_empty_grid, XO_AI_MCTS, XO_AI_NEGAMAX, XO_AI_RL

(* A cleared game is a record.                                             *)
LEMMA NewGameType ==
  ASSUME NEW a \in AllAlgs
  PROVE  NewGame(a) \in XoTable
BY BoardAssumption DEF NewGame, XoTable, EmptyTable, EmptyMoves, Table, Cells,
     CELL_EMPTY

(* kxo_init leaves every variable in its type.                             *)
LEMMA TypeInit == Init => TypeOK
<1> SUFFICES ASSUME Init PROVE TypeOK
  OBVIOUS
<1>1. xo \in [Games -> XoTable]
  BY NewGameType, EngineAssumption DEF Init
<1>2. snap \in [AiWork -> Snapshot]
  BY DEF Init, Snapshot, NoSnapshot, Table, EmptyTable, CELL_EMPTY, AllAlgs,
         XO_SET_ATTR_AI_ALG, Agent, XO_AI_MCTS
<1>3. ti \in 0 .. N_GAMES /\ rgi \in [Users -> 0 .. N_GAMES]
  BY EngineAssumption DEF Init
<1>4. pc \in [Work -> Stage] /\ \A w \in Work : pc[w] \in {"idle"} \cup StageOf(w[1])
  BY DEF Init, Stage
<1>5. fw \in [Games -> Winner] /\ fin \in [Games -> FinishLocal]
  BY DEF Init, Winner, CELL_EMPTY, FinishLocal, NoFinish, AttrChar
<1>6. turn \in [Games -> {"O", "X"}] /\ state \in [Games -> {GAME_BUSY, GAME_READY, GAME_DONE}]
  BY DEF Init
<1>7. upc \in [Users -> UserStage] /\ flush \in [Users -> SUBSET (Work \X {"queued", "running"})]
  BY DEF Init, UserStage, ReleaseStage
<1>8. display \in AttrChar /\ end \in AttrChar
  BY DEF Init, AttrChar
<1>9. episode \in [Games -> SUBSET Nat]
  BY DEF Init
<1> QED
  BY <1>1, <1>2, <1>3, <1>4, <1>5, <1>6, <1>7, <1>8, <1>9 DEF Init, TypeOK,
     GamesType, WorkType, SoftirqType, ControlType

(* Which work items there are, and which stages each kind goes through.    *)
LEMMA WorkStages ==
  /\ \A g \in Games : \A k \in AiKind :
       <<k, g>> \in Work /\ <<k, g>> \in AiWork /\ StageOf(<<k, g>>[1]) = AiStage
  /\ \A g \in Games :
       /\ <<"draw", g>> \in Work /\ StageOf(<<"draw", g>>[1]) = DrawStage
       /\ <<"finish", g>> \in Work /\ StageOf(<<"finish", g>>[1]) = FinishStage
BY DEF Work, AiWork, AiKind, StageOf

(* A work item that moves to a stage of its own handler keeps pc typed.    *)
LEMMA PcStep ==
  ASSUME WorkType, NEW w \in Work, NEW stage \in {"idle"} \cup StageOf(w[1]),
         pc' = [pc EXCEPT ![w] = stage]
  PROVE  /\ pc' \in [Work -> Stage]
         /\ \A v \in Work : pc'[v] \in {"idle"} \cup StageOf(v[1])
<1>1. stage \in Stage
  BY DEF Work, StageOf, Stage, AiKind
<1> QED
  BY <1>1 DEF WorkType

(* A step that changes no game keeps the types of the games.               *)
LEMMA GamesSame == GamesType /\ UNCHANGED gameVars => GamesType'
BY DEF GamesType, gameVars

(* A step that changes no work item keeps the types of the workqueue.      *)
LEMMA WorkSame == WorkType /\ UNCHANGED workVars => WorkType'
BY DEF WorkType, workVars

(* A step of neither timer nor tasklet keeps their types.                  *)
LEMMA SoftirqSame == SoftirqType /\ UNCHANGED <<timerVars, taskletVars>> => SoftirqType'
BY DEF SoftirqType, timerVars, taskletVars

(* A step that changes no sysfs value and no file keeps their types.       *)
LEMMA ControlSame == ControlType /\ UNCHANGED <<attrVars, userVars, flush>> => ControlType'
BY DEF ControlType, attrVars, userVars

(* Starting or ending a work item only takes it out of what flushes await. *)
LEMMA FlushStep ==
  ASSUME ControlType, NEW w \in Work, FlushStart(w) \/ FlushEnd(w) \/ FlushBoth(w)
  PROVE  flush' \in [Users -> SUBSET (Work \X {"queued", "running"})]
BY DEF ControlType, FlushStart, FlushEnd, FlushBoth, Queued, Running

(* The games are numbered from 0, and there is at least one.               *)
LEMMA GamesRange == N_GAMES \in Nat \ {0} /\ Games = 0 .. N_GAMES - 1
BY EngineAssumption DEF Games

(* The value of the locals of an AI handler that is not running is typed.  *)
LEMMA NoSnapshotType == NoSnapshot \in Snapshot
BY DEF Snapshot, NoSnapshot, Table, EmptyTable, CELL_EMPTY, AllAlgs,
       XO_SET_ATTR_AI_ALG, Agent, XO_AI_MCTS

(* Every step of the engine keeps every type.                              *)
LEMMA TypeStep == TypeOK /\ [Next]_vars => TypeOK'
<1> SUFFICES ASSUME TypeOK, [Next]_vars PROVE TypeOK'
  OBVIOUS
<1>1. ASSUME NEW k \in AiKind, NEW g \in Games, AiBail(k, g) PROVE TypeOK'
  <2>1. GamesType'
    BY <1>1 DEF AiBail, TypeOK, GamesType
  <2>2. WorkType'
    BY <1>1 DEF AiBail, TypeOK, WorkType
  <2>3. SoftirqType'
    BY <1>1, SoftirqSame DEF AiBail, TypeOK
  <2>4. ControlType'
    BY <1>1, FlushStep, WorkStages DEF AiBail, TypeOK, ControlType, attrVars, userVars
  <2> QED
    BY <2>1, <2>2, <2>3, <2>4 DEF TypeOK
<1>2. ASSUME NEW k \in AiKind, NEW g \in Games, AiBegin(k, g) PROVE TypeOK'
  <2>1. GamesType'
    BY <1>2, GamesSame DEF AiBegin, TypeOK
  <2>2. WorkType'
    <3>1. pc' = [pc EXCEPT ![<<k, g>>] = "lock"]
      BY <1>2 DEF AiBegin
    <3>2. pc' \in [Work -> Stage] /\ \A v \in Work : pc'[v] \in {"idle"} \cup StageOf(v[1])
      BY <1>2, <3>1, PcStep, WorkStages DEF TypeOK, AiStage
    <3>3. [table |-> xo[g].table, steps |-> xo[g].steps, alg |-> xo[g].alg, move |-> NoMove] \in Snapshot
      BY DEF TypeOK, GamesType, XoTable, Snapshot
    <3> QED
      BY <1>2, <3>2, <3>3 DEF AiBegin, TypeOK, WorkType
  <2>3. SoftirqType'
    BY <1>2, SoftirqSame DEF AiBegin, TypeOK
  <2>4. ControlType'
    BY <1>2, FlushStep, WorkStages DEF AiBegin, TypeOK, ControlType, attrVars, userVars
  <2> QED
    BY <2>1, <2>2, <2>3, <2>4 DEF TypeOK
<1>3. ASSUME NEW k \in AiKind, NEW g \in Games, AiLock(k, g) PROVE TypeOK'
  <2>1. GamesType'
    BY <1>3 DEF AiLock, TypeOK, GamesType
  <2>2. WorkType'
    <3>1. PICK stage \in AiStage : pc' = [pc EXCEPT ![<<k, g>>] = stage]
      BY <1>3 DEF AiLock, AiStage
    <3>2. pc' \in [Work -> Stage] /\ \A v \in Work : pc'[v] \in {"idle"} \cup StageOf(v[1])
      BY <1>3, <3>1, PcStep, WorkStages DEF TypeOK
    <3> QED
      BY <1>3, <3>2 DEF AiLock, TypeOK, WorkType
  <2>3. SoftirqType'
    BY <1>3, SoftirqSame DEF AiLock, TypeOK
  <2>4. ControlType'
    BY <1>3, ControlSame DEF AiLock, TypeOK
  <2> QED
    BY <2>1, <2>2, <2>3, <2>4 DEF TypeOK
<1>4. ASSUME NEW k \in AiKind, NEW g \in Games, AiAgentLock(k, g) PROVE TypeOK'
  <2>1. GamesType'
    BY <1>4, GamesSame DEF AiAgentLock, TypeOK
  <2>2. WorkType'
    <3>1. PICK stage \in AiStage : pc' = [pc EXCEPT ![<<k, g>>] = stage]
      BY <1>4 DEF AiAgentLock, AiStage
    <3>2. pc' \in [Work -> Stage] /\ \A v \in Work : pc'[v] \in {"idle"} \cup StageOf(v[1])
      BY <1>4, <3>1, PcStep, WorkStages DEF TypeOK
    <3>3. snap[<<k, g>>] \in Snapshot
      BY WorkStages DEF TypeOK, WorkType
    <3>4. AgentOf(k, snap[<<k, g>>].alg) \in Agent
      BY <3>3, AgentsOfField DEF Snapshot
    <3> QED
      BY <1>4, <3>2, <3>4 DEF AiAgentLock, TypeOK, WorkType
  <2>3. SoftirqType'
    BY <1>4, SoftirqSame DEF AiAgentLock, TypeOK
  <2>4. ControlType'
    BY <1>4, ControlSame DEF AiAgentLock, TypeOK
  <2> QED
    BY <2>1, <2>2, <2>3, <2>4 DEF TypeOK
<1>5. ASSUME NEW k \in AiKind, NEW g \in Games, AiSearch(k, g) PROVE TypeOK'
  <2>1. GamesType'
    BY <1>5, GamesSame DEF AiSearch, TypeOK
  <2>2. WorkType'
    <3>1. pc' = [pc EXCEPT ![<<k, g>>] = "write"]
      BY <1>5 DEF AiSearch
    <3>2. pc' \in [Work -> Stage] /\ \A v \in Work : pc'[v] \in {"idle"} \cup StageOf(v[1])
      BY <1>5, <3>1, PcStep, WorkStages DEF TypeOK, AiStage
    <3>3. snap[<<k, g>>] \in Snapshot
      BY WorkStages DEF TypeOK, WorkType
    <3>4. AgentOf(k, snap[<<k, g>>].alg) \in Agent
      BY <3>3, AgentsOfField DEF Snapshot
    <3>5. PICK move \in Answers(AgentOf(k, snap[<<k, g>>].alg), snap[<<k, g>>].table) :
                 snap' = [snap EXCEPT ![<<k, g>>].move = move]
      BY <1>5 DEF AiSearch
    <3>6. move \in Cells \cup {NoMove}
      BY <3>3, <3>4, AnswersType DEF Snapshot
    <3>7. [snap[<<k, g>>] EXCEPT !.move = move] \in Snapshot
      BY <3>3, <3>6 DEF Snapshot
    <3>8. snap' \in [AiWork -> Snapshot]
      BY <3>5, <3>7 DEF TypeOK, WorkType
    <3> QED
      BY <1>5, <3>2, <3>8 DEF AiSearch, TypeOK, WorkType
  <2>3. SoftirqType'
    BY <1>5, SoftirqSame DEF AiSearch, TypeOK
  <2>4. ControlType'
    BY <1>5, ControlSame DEF AiSearch, TypeOK
  <2> QED
    BY <2>1, <2>2, <2>3, <2>4 DEF TypeOK
<1>6. ASSUME NEW k \in AiKind, NEW g \in Games, AiWrite(k, g) PROVE TypeOK'
  <2>1. GamesType'
    <3> DEFINE s == snap[<<k, g>>]
    <3>1. CASE s.move = NoMove
      BY <1>6, <3>1 DEF AiWrite, Played, TypeOK, GamesType
    <3>2. CASE s.move # NoMove
      <4>1. s \in Snapshot /\ xo[g] \in XoTable
        BY WorkStages DEF TypeOK, WorkType, GamesType
      <4>2. s.move \in Cells /\ s.steps \in Nat
        BY <3>2, <4>1 DEF Snapshot
      <4>3. VAL_SET_CELL(s.table, s.move, CellOf(k)) \in Table
        BY <4>1, <4>2, SetCellType DEF Snapshot, CellOf
      <4>4. [xo[g].moves EXCEPT ![s.steps] = s.move] \in [Cells -> Cells]
        BY <4>1, <4>2 DEF XoTable
      <4>5. xo' \in [Games -> XoTable]
        BY <1>6, <3>2, <4>1, <4>3, <4>4 DEF AiWrite, TypeOK, GamesType, XoTable
      <4>6. episode' \in [Games -> SUBSET Nat]
        BY <1>6, <3>2, <4>2 DEF AiWrite, TypeOK, GamesType
      <4> QED
        BY <1>6, <4>5, <4>6 DEF AiWrite, TypeOK, GamesType
    <3> QED
      BY <3>1, <3>2
  <2>2. WorkType'
    <3>1. PICK stage \in AiStage : pc' = [pc EXCEPT ![<<k, g>>] = stage]
      BY <1>6 DEF AiWrite, AiStage
    <3>2. pc' \in [Work -> Stage] /\ \A v \in Work : pc'[v] \in {"idle"} \cup StageOf(v[1])
      BY <1>6, <3>1, PcStep, WorkStages DEF TypeOK
    <3> QED
      BY <1>6, <3>2 DEF AiWrite, TypeOK, WorkType
  <2>3. SoftirqType'
    BY <1>6, SoftirqSame DEF AiWrite, TypeOK
  <2>4. ControlType'
    BY <1>6, ControlSame DEF AiWrite, TypeOK
  <2> QED
    BY <2>1, <2>2, <2>3, <2>4 DEF TypeOK
<1>7. ASSUME NEW k \in AiKind, NEW g \in Games, AiAttr(k, g) PROVE TypeOK'
  <2>1. GamesType'
    <3>1. snap[<<k, g>>] \in Snapshot /\ xo[g] \in XoTable
      BY WorkStages DEF TypeOK, WorkType, GamesType
    <3>2. snap[<<k, g>>].steps + 1 \in Nat
      BY <3>1 DEF Snapshot
    <3>3. [xo[g] EXCEPT !.steps = snap[<<k, g>>].steps + 1, !.alg = snap[<<k, g>>].alg] \in XoTable
      BY <3>1, <3>2 DEF XoTable, Snapshot
    <3>4. xo' \in [Games -> XoTable]
      BY <1>7, <3>3 DEF AiAttr, TypeOK, GamesType
    <3> QED
      BY <1>7, <3>4 DEF AiAttr, TypeOK, GamesType, NextTurn
  <2>2. WorkType'
    <3>1. pc' = [pc EXCEPT ![<<k, g>>] = "ready"]
      BY <1>7 DEF AiAttr
    <3>2. pc' \in [Work -> Stage] /\ \A v \in Work : pc'[v] \in {"idle"} \cup StageOf(v[1])
      BY <1>7, <3>1, PcStep, WorkStages DEF TypeOK, AiStage
    <3> QED
      BY <1>7, <3>2 DEF AiAttr, TypeOK, WorkType
  <2>3. SoftirqType'
    BY <1>7, SoftirqSame DEF AiAttr, TypeOK
  <2>4. ControlType'
    BY <1>7, ControlSame DEF AiAttr, TypeOK
  <2> QED
    BY <2>1, <2>2, <2>3, <2>4 DEF TypeOK
<1>8. ASSUME NEW k \in AiKind, NEW g \in Games, AiReady(k, g) PROVE TypeOK'
  <2>1. GamesType'
    BY <1>8 DEF AiReady, TypeOK, GamesType
  <2>2. WorkType'
    <3>1. pc' = [pc EXCEPT ![<<k, g>>] = "unlock"]
      BY <1>8 DEF AiReady
    <3>2. pc' \in [Work -> Stage] /\ \A v \in Work : pc'[v] \in {"idle"} \cup StageOf(v[1])
      BY <1>8, <3>1, PcStep, WorkStages DEF TypeOK, AiStage
    <3> QED
      BY <1>8, <3>2 DEF AiReady, TypeOK, WorkType
  <2>3. SoftirqType'
    BY <1>8, SoftirqSame DEF AiReady, TypeOK
  <2>4. ControlType'
    BY <1>8, ControlSame DEF AiReady, TypeOK
  <2> QED
    BY <2>1, <2>2, <2>3, <2>4 DEF TypeOK
<1>9. ASSUME NEW k \in AiKind, NEW g \in Games, AiUnlock(k, g) PROVE TypeOK'
  <2>1. GamesType'
    BY <1>9 DEF AiUnlock, TypeOK, GamesType
  <2>2. WorkType'
    <3>1. pc' = [pc EXCEPT ![<<k, g>>] = "idle"]
      BY <1>9 DEF AiUnlock
    <3>2. pc' \in [Work -> Stage] /\ \A v \in Work : pc'[v] \in {"idle"} \cup StageOf(v[1])
      BY <1>9, <3>1, PcStep, WorkStages DEF TypeOK, AiStage
    <3>3. NoSnapshot \in Snapshot
      BY NoSnapshotType
    <3> QED
      BY <1>9, <3>2, <3>3 DEF AiUnlock, TypeOK, WorkType
  <2>3. SoftirqType'
    BY <1>9, SoftirqSame DEF AiUnlock, TypeOK
  <2>4. ControlType'
    BY <1>9, FlushStep, WorkStages DEF AiUnlock, TypeOK, ControlType, attrVars, userVars
  <2> QED
    BY <2>1, <2>2, <2>3, <2>4 DEF TypeOK
<1>10. ASSUME NEW g \in Games, DrawSkip(g) PROVE TypeOK'
  <2>1. GamesType'
    BY <1>10, GamesSame DEF DrawSkip, TypeOK
  <2>2. WorkType'
    BY <1>10 DEF DrawSkip, TypeOK, WorkType
  <2>3. SoftirqType'
    BY <1>10, SoftirqSame DEF DrawSkip, TypeOK
  <2>4. ControlType'
    BY <1>10, FlushStep, WorkStages DEF DrawSkip, TypeOK, ControlType, attrVars, userVars
  <2> QED
    BY <2>1, <2>2, <2>3, <2>4 DEF TypeOK
<1>11. ASSUME NEW g \in Games, DrawBegin(g) PROVE TypeOK'
  <2>1. GamesType'
    BY <1>11, GamesSame DEF DrawBegin, TypeOK
  <2>2. WorkType'
    <3>1. pc' = [pc EXCEPT ![<<"draw", g>>] = "lock"]
      BY <1>11 DEF DrawBegin
    <3>2. pc' \in [Work -> Stage] /\ \A v \in Work : pc'[v] \in {"idle"} \cup StageOf(v[1])
      BY <1>11, <3>1, PcStep, WorkStages DEF TypeOK, DrawStage
    <3> QED
      BY <1>11, <3>2 DEF DrawBegin, TypeOK, WorkType
  <2>3. SoftirqType'
    BY <1>11, SoftirqSame DEF DrawBegin, TypeOK
  <2>4. ControlType'
    BY <1>11, FlushStep, WorkStages DEF DrawBegin, TypeOK, ControlType, attrVars, userVars
  <2> QED
    BY <2>1, <2>2, <2>3, <2>4 DEF TypeOK
<1>12. ASSUME NEW g \in Games, DrawBusy(g) PROVE TypeOK'
  <2>1. GamesType'
    BY <1>12, GamesSame DEF DrawBusy, TypeOK
  <2>2. WorkType'
    <3>1. pc' = [pc EXCEPT ![<<"draw", g>>] = "idle"]
      BY <1>12 DEF DrawBusy
    <3>2. pc' \in [Work -> Stage] /\ \A v \in Work : pc'[v] \in {"idle"} \cup StageOf(v[1])
      BY <1>12, <3>1, PcStep, WorkStages DEF TypeOK, DrawStage
    <3> QED
      BY <1>12, <3>2 DEF DrawBusy, TypeOK, WorkType
  <2>3. SoftirqType'
    BY <1>12, SoftirqSame DEF DrawBusy, TypeOK
  <2>4. ControlType'
    BY <1>12, FlushStep, WorkStages DEF DrawBusy, TypeOK, ControlType, attrVars, userVars
  <2> QED
    BY <2>1, <2>2, <2>3, <2>4 DEF TypeOK
<1>13. ASSUME NEW g \in Games, DrawLock(g) PROVE TypeOK'
  <2>1. GamesType'
    BY <1>13 DEF DrawLock, TypeOK, GamesType
  <2>2. WorkType'
    <3>1. pc' = [pc EXCEPT ![<<"draw", g>>] = "fifo"]
      BY <1>13 DEF DrawLock
    <3>2. pc' \in [Work -> Stage] /\ \A v \in Work : pc'[v] \in {"idle"} \cup StageOf(v[1])
      BY <1>13, <3>1, PcStep, WorkStages DEF TypeOK, DrawStage
    <3> QED
      BY <1>13, <3>2 DEF DrawLock, TypeOK, WorkType
  <2>3. SoftirqType'
    BY <1>13, SoftirqSame DEF DrawLock, TypeOK
  <2>4. ControlType'
    BY <1>13, ControlSame DEF DrawLock, TypeOK
  <2> QED
    BY <2>1, <2>2, <2>3, <2>4 DEF TypeOK
<1>14. ASSUME NEW g \in Games, DrawFifo(g) PROVE TypeOK'
  <2>1. GamesType'
    BY <1>14 DEF DrawFifo, TypeOK, GamesType
  <2>2. WorkType'
    <3>1. pc' = [pc EXCEPT ![<<"draw", g>>] = "idle"]
      BY <1>14 DEF DrawFifo
    <3>2. pc' \in [Work -> Stage] /\ \A v \in Work : pc'[v] \in {"idle"} \cup StageOf(v[1])
      BY <1>14, <3>1, PcStep, WorkStages DEF TypeOK, DrawStage
    <3> QED
      BY <1>14, <3>2 DEF DrawFifo, TypeOK, WorkType
  <2>3. SoftirqType'
    BY <1>14, SoftirqSame DEF DrawFifo, TypeOK
  <2>4. ControlType'
    BY <1>14, FlushStep, WorkStages DEF DrawFifo, TypeOK, ControlType, attrVars, userVars
  <2> QED
    BY <2>1, <2>2, <2>3, <2>4 DEF TypeOK
<1>15. ASSUME NEW g \in Games, FinishBegin(g) PROVE TypeOK'
  <2>1. GamesType'
    BY <1>15, GamesSame DEF FinishBegin, TypeOK
  <2>2. WorkType'
    <3>1. pc' = [pc EXCEPT ![<<"finish", g>>] = "lock"]
      BY <1>15 DEF FinishBegin
    <3>2. pc' \in [Work -> Stage] /\ \A v \in Work : pc'[v] \in {"idle"} \cup StageOf(v[1])
      BY <1>15, <3>1, PcStep, WorkStages DEF TypeOK, FinishStage
    <3>3. [win |-> fw[g], display |-> display, end |-> end] \in FinishLocal
      BY DEF TypeOK, WorkType, ControlType, FinishLocal
    <3> QED
      BY <1>15, <3>2, <3>3 DEF FinishBegin, TypeOK, WorkType
  <2>3. SoftirqType'
    BY <1>15, SoftirqSame DEF FinishBegin, TypeOK
  <2>4. ControlType'
    BY <1>15, FlushStep, WorkStages DEF FinishBegin, TypeOK, ControlType, attrVars,
       userVars
  <2> QED
    BY <2>1, <2>2, <2>3, <2>4 DEF TypeOK
<1>16. ASSUME NEW g \in Games, FinishLock(g) PROVE TypeOK'
  <2>1. GamesType'
    BY <1>16 DEF FinishLock, TypeOK, GamesType
  <2>2. WorkType'
    <3>1. pc' = [pc EXCEPT ![<<"finish", g>>] = "reset"]
      BY <1>16 DEF FinishLock
    <3>2. pc' \in [Work -> Stage] /\ \A v \in Work : pc'[v] \in {"idle"} \cup StageOf(v[1])
      BY <1>16, <3>1, PcStep, WorkStages DEF TypeOK, FinishStage
    <3> QED
      BY <1>16, <3>2 DEF FinishLock, TypeOK, WorkType
  <2>3. SoftirqType'
    BY <1>16, SoftirqSame DEF FinishLock, TypeOK
  <2>4. ControlType'
    BY <1>16, ControlSame DEF FinishLock, TypeOK
  <2> QED
    BY <2>1, <2>2, <2>3, <2>4 DEF TypeOK
<1>17. ASSUME NEW g \in Games, FinishReset(g) PROVE TypeOK'
  <2>1. GamesType'
    <3>1. xo' \in [Games -> XoTable]
      BY <1>17, NewGameType, EngineAssumption DEF FinishReset, TypeOK, GamesType
    <3> QED
      BY <1>17, <3>1 DEF FinishReset, TypeOK, GamesType
  <2>2. WorkType'
    <3>1. PICK stage \in FinishStage : pc' = [pc EXCEPT ![<<"finish", g>>] = stage]
      BY <1>17 DEF FinishReset, FinishStage
    <3>2. pc' \in [Work -> Stage] /\ \A v \in Work : pc'[v] \in {"idle"} \cup StageOf(v[1])
      BY <1>17, <3>1, PcStep, WorkStages DEF TypeOK
    <3> QED
      BY <1>17, <3>2 DEF FinishReset, TypeOK, WorkType
  <2>3. SoftirqType'
    BY <1>17, SoftirqSame DEF FinishReset, TypeOK
  <2>4. ControlType'
    BY <1>17, ControlSame DEF FinishReset, TypeOK
  <2> QED
    BY <2>1, <2>2, <2>3, <2>4 DEF TypeOK
<1>18. ASSUME NEW g \in Games, FinishReady(g) PROVE TypeOK'
  <2>1. GamesType'
    BY <1>18 DEF FinishReady, TypeOK, GamesType
  <2>2. WorkType'
    <3>1. pc' = [pc EXCEPT ![<<"finish", g>>] = "learn"]
      BY <1>18 DEF FinishReady
    <3>2. pc' \in [Work -> Stage] /\ \A v \in Work : pc'[v] \in {"idle"} \cup StageOf(v[1])
      BY <1>18, <3>1, PcStep, WorkStages DEF TypeOK, FinishStage
    <3> QED
      BY <1>18, <3>2 DEF FinishReady, TypeOK, WorkType
  <2>3. SoftirqType'
    BY <1>18, SoftirqSame DEF FinishReady, TypeOK
  <2>4. ControlType'
    BY <1>18, ControlSame DEF FinishReady, TypeOK
  <2> QED
    BY <2>1, <2>2, <2>3, <2>4 DEF TypeOK
<1>19. ASSUME NEW g \in Games, FinishLearn(g) PROVE TypeOK'
  <2>1. GamesType'
    BY <1>19 DEF FinishLearn, TypeOK, GamesType
  <2>2. WorkType'
    <3>1. pc' = [pc EXCEPT ![<<"finish", g>>] = "unlock"]
      BY <1>19 DEF FinishLearn
    <3>2. pc' \in [Work -> Stage] /\ \A v \in Work : pc'[v] \in {"idle"} \cup StageOf(v[1])
      BY <1>19, <3>1, PcStep, WorkStages DEF TypeOK, FinishStage
    <3> QED
      BY <1>19, <3>2 DEF FinishLearn, TypeOK, WorkType
  <2>3. SoftirqType'
    BY <1>19, SoftirqSame DEF FinishLearn, TypeOK
  <2>4. ControlType'
    BY <1>19, ControlSame DEF FinishLearn, TypeOK
  <2> QED
    BY <2>1, <2>2, <2>3, <2>4 DEF TypeOK
<1>20. ASSUME NEW g \in Games, FinishUnlock(g) PROVE TypeOK'
  <2>1. GamesType'
    BY <1>20 DEF FinishUnlock, TypeOK, GamesType
  <2>2. WorkType'
    <3>1. pc' = [pc EXCEPT ![<<"finish", g>>] = "idle"]
      BY <1>20 DEF FinishUnlock
    <3>2. pc' \in [Work -> Stage] /\ \A v \in Work : pc'[v] \in {"idle"} \cup StageOf(v[1])
      BY <1>20, <3>1, PcStep, WorkStages DEF TypeOK, FinishStage
    <3>3. NoFinish \in FinishLocal
      BY DEF NoFinish, FinishLocal, Winner, CELL_EMPTY, AttrChar
    <3> QED
      BY <1>20, <3>2, <3>3 DEF FinishUnlock, TypeOK, WorkType
  <2>3. SoftirqType'
    BY <1>20, SoftirqSame DEF FinishUnlock, TypeOK
  <2>4. ControlType'
    BY <1>20, FlushStep, WorkStages DEF FinishUnlock, TypeOK, ControlType, attrVars,
       userVars
  <2> QED
    BY <2>1, <2>2, <2>3, <2>4 DEF TypeOK
<1>21. ASSUME TimerFire PROVE TypeOK'
  <2>1. GamesType'
    BY <1>21, GamesSame DEF TimerFire, TypeOK
  <2>2. WorkType'
    BY <1>21, WorkSame DEF TimerFire, TypeOK
  <2>3. SoftirqType'
    <3>1. armed' \in BOOLEAN /\ unfini' \subseteq Games
      BY <1>21 DEF TimerFire, TypeOK, SoftirqType, timerVars
    <3>2. tpc' \in {"idle", "scan", "check", "rearm"}
      BY <1>21 DEF TimerFire, TypeOK, SoftirqType, timerVars
    <3>3. ti' \in 0 .. N_GAMES
      BY <1>21, GamesRange DEF TimerFire, TypeOK, SoftirqType, timerVars
    <3>4. tpc' = "check" => ti' \in Games
      BY <1>21, GamesRange DEF TimerFire, TypeOK, SoftirqType, timerVars
    <3>5. sched' \in BOOLEAN /\ tdata' \subseteq Games /\ twork' \subseteq Games
      BY <1>21 DEF TimerFire, TypeOK, SoftirqType, taskletVars
    <3> QED
      BY <3>1, <3>2, <3>3, <3>4, <3>5 DEF SoftirqType
  <2>4. ControlType'
    BY <1>21, ControlSame DEF TimerFire, TypeOK
  <2> QED
    BY <2>1, <2>2, <2>3, <2>4 DEF TypeOK
<1>22. ASSUME TimerScan PROVE TypeOK'
  <2>1. GamesType'
    BY <1>22, GamesSame DEF TimerScan, TypeOK
  <2>2. WorkType'
    BY <1>22, WorkSame DEF TimerScan, TypeOK
  <2>3. SoftirqType'
    <3>0. ti \in Games
      BY <1>22, GamesRange DEF TimerScan, TypeOK, SoftirqType
    <3>1. armed' \in BOOLEAN /\ unfini' \subseteq Games
      BY <1>22, <3>0 DEF TimerScan, TypeOK, SoftirqType, timerVars
    <3>2. tpc' \in {"idle", "scan", "check", "rearm"}
      BY <1>22 DEF TimerScan, TypeOK, SoftirqType, timerVars
    <3>3. ti' \in 0 .. N_GAMES
      BY <1>22, GamesRange DEF TimerScan, TypeOK, SoftirqType, timerVars
    <3>4. tpc' = "check" => ti' \in Games
      BY <1>22, GamesRange DEF TimerScan, TypeOK, SoftirqType, timerVars
    <3>5. sched' \in BOOLEAN /\ tdata' \subseteq Games /\ twork' \subseteq Games
      BY <1>22 DEF TimerScan, TypeOK, SoftirqType, taskletVars
    <3> QED
      BY <3>1, <3>2, <3>3, <3>4, <3>5 DEF SoftirqType
  <2>4. ControlType'
    BY <1>22, ControlSame DEF TimerScan, TypeOK
  <2> QED
    BY <2>1, <2>2, <2>3, <2>4 DEF TypeOK
<1>23. ASSUME TimerCheck PROVE TypeOK'
  <2>1. GamesType'
    BY <1>23 DEF TimerCheck, TypeOK, GamesType
  <2>2. WorkType'
    <3>1. ti \in Games /\ xo[ti].table \in Table
      BY <1>23 DEF TimerCheck, TypeOK, SoftirqType, GamesType, XoTable
    <3>2. check_win(xo[ti].table) \in Winner /\ <<"finish", ti>> \in Work
      BY <3>1, CheckWinType, WorkStages
    <3> QED
      BY <1>23, <3>1, <3>2 DEF TimerCheck, TypeOK, WorkType
  <2>3. SoftirqType'
    <3>1. armed' \in BOOLEAN /\ unfini' \subseteq Games
      BY <1>23 DEF TimerCheck, TypeOK, SoftirqType, timerVars
    <3>2. tpc' \in {"idle", "scan", "check", "rearm"}
      BY <1>23 DEF TimerCheck, TypeOK, SoftirqType, timerVars
    <3>3. ti' \in 0 .. N_GAMES
      BY <1>23, GamesRange DEF TimerCheck, TypeOK, SoftirqType, timerVars
    <3>4. tpc' = "check" => ti' \in Games
      BY <1>23, GamesRange DEF TimerCheck, TypeOK, SoftirqType, timerVars
    <3>5. sched' \in BOOLEAN /\ tdata' \subseteq Games /\ twork' \subseteq Games
      BY <1>23 DEF TimerCheck, TypeOK, SoftirqType, taskletVars
    <3> QED
      BY <3>1, <3>2, <3>3, <3>4, <3>5 DEF SoftirqType
  <2>4. ControlType'
    BY <1>23, ControlSame DEF TimerCheck, TypeOK
  <2> QED
    BY <2>1, <2>2, <2>3, <2>4 DEF TypeOK
<1>24. ASSUME TimerSchedule PROVE TypeOK'
  <2>1. GamesType'
    BY <1>24, GamesSame DEF TimerSchedule, TypeOK
  <2>2. WorkType'
    BY <1>24, WorkSame DEF TimerSchedule, TypeOK
  <2>3. SoftirqType'
    <3>1. armed' \in BOOLEAN /\ unfini' \subseteq Games
      BY <1>24 DEF TimerSchedule, TypeOK, SoftirqType, timerVars
    <3>2. tpc' \in {"idle", "scan", "check", "rearm"}
      BY <1>24 DEF TimerSchedule, TypeOK, SoftirqType, timerVars
    <3>3. ti' \in 0 .. N_GAMES
      BY <1>24, GamesRange DEF TimerSchedule, TypeOK, SoftirqType, timerVars
    <3>4. tpc' = "check" => ti' \in Games
      BY <1>24, GamesRange DEF TimerSchedule, TypeOK, SoftirqType, timerVars
    <3>5. sched' \in BOOLEAN /\ tdata' \subseteq Games /\ twork' \subseteq Games
      BY <1>24 DEF TimerSchedule, TypeOK, SoftirqType, taskletVars
    <3> QED
      BY <3>1, <3>2, <3>3, <3>4, <3>5 DEF SoftirqType
  <2>4. ControlType'
    BY <1>24, ControlSame DEF TimerSchedule, TypeOK
  <2> QED
    BY <2>1, <2>2, <2>3, <2>4 DEF TypeOK
<1>25. ASSUME TimerRearm PROVE TypeOK'
  <2>1. GamesType'
    BY <1>25, GamesSame DEF TimerRearm, TypeOK
  <2>2. WorkType'
    BY <1>25, WorkSame DEF TimerRearm, TypeOK
  <2>3. SoftirqType'
    <3>1. armed' \in BOOLEAN /\ unfini' \subseteq Games
      BY <1>25 DEF TimerRearm, TypeOK, SoftirqType, timerVars
    <3>2. tpc' \in {"idle", "scan", "check", "rearm"}
      BY <1>25 DEF TimerRearm, TypeOK, SoftirqType, timerVars
    <3>3. ti' \in 0 .. N_GAMES
      BY <1>25, GamesRange DEF TimerRearm, TypeOK, SoftirqType, timerVars
    <3>4. tpc' = "check" => ti' \in Games
      BY <1>25, GamesRange DEF TimerRearm, TypeOK, SoftirqType, timerVars
    <3>5. sched' \in BOOLEAN /\ tdata' \subseteq Games /\ twork' \subseteq Games
      BY <1>25 DEF TimerRearm, TypeOK, SoftirqType, taskletVars
    <3> QED
      BY <3>1, <3>2, <3>3, <3>4, <3>5 DEF SoftirqType
  <2>4. ControlType'
    BY <1>25, ControlSame DEF TimerRearm, TypeOK
  <2> QED
    BY <2>1, <2>2, <2>3, <2>4 DEF TypeOK
<1>26. ASSUME TaskletRun PROVE TypeOK'
  <2>1. GamesType'
    BY <1>26, GamesSame DEF TaskletRun, TypeOK
  <2>2. WorkType'
    BY <1>26, WorkSame DEF TaskletRun, TypeOK
  <2>3. SoftirqType'
    <3>1. armed' \in BOOLEAN /\ unfini' \subseteq Games
      BY <1>26 DEF TaskletRun, TypeOK, SoftirqType, timerVars
    <3>2. tpc' \in {"idle", "scan", "check", "rearm"}
      BY <1>26 DEF TaskletRun, TypeOK, SoftirqType, timerVars
    <3>3. ti' \in 0 .. N_GAMES
      BY <1>26, GamesRange DEF TaskletRun, TypeOK, SoftirqType, timerVars
    <3>4. tpc' = "check" => ti' \in Games
      BY <1>26, GamesRange DEF TaskletRun, TypeOK, SoftirqType, timerVars
    <3>5. sched' \in BOOLEAN /\ tdata' \subseteq Games /\ twork' \subseteq Games
      BY <1>26 DEF TaskletRun, TypeOK, SoftirqType, taskletVars
    <3> QED
      BY <3>1, <3>2, <3>3, <3>4, <3>5 DEF SoftirqType
  <2>4. ControlType'
    BY <1>26, ControlSame DEF TaskletRun, TypeOK
  <2> QED
    BY <2>1, <2>2, <2>3, <2>4 DEF TypeOK
<1>27. ASSUME TaskletGame PROVE TypeOK'
  <2>1. GamesType'
    BY <1>27 DEF TaskletGame, TypeOK, GamesType
  <2>2. WorkType'
    <3>1. PICK g \in twork :
               pend' \subseteq pend \cup {<<"one", g>>, <<"two", g>>, <<"draw", g>>}
      BY <1>27 DEF TaskletGame
    <3>2. {<<"one", g>>, <<"two", g>>, <<"draw", g>>} \subseteq Work
      BY <3>1 DEF TypeOK, SoftirqType, Work
    <3> QED
      BY <1>27, <3>1, <3>2 DEF TaskletGame, TypeOK, WorkType
  <2>3. SoftirqType'
    <3>1. armed' \in BOOLEAN /\ unfini' \subseteq Games
      BY <1>27 DEF TaskletGame, TypeOK, SoftirqType, timerVars
    <3>2. tpc' \in {"idle", "scan", "check", "rearm"}
      BY <1>27 DEF TaskletGame, TypeOK, SoftirqType, timerVars
    <3>3. ti' \in 0 .. N_GAMES
      BY <1>27, GamesRange DEF TaskletGame, TypeOK, SoftirqType, timerVars
    <3>4. tpc' = "check" => ti' \in Games
      BY <1>27, GamesRange DEF TaskletGame, TypeOK, SoftirqType, timerVars
    <3>5. sched' \in BOOLEAN /\ tdata' \subseteq Games /\ twork' \subseteq Games
      BY <1>27 DEF TaskletGame, TypeOK, SoftirqType, taskletVars
    <3> QED
      BY <3>1, <3>2, <3>3, <3>4, <3>5 DEF SoftirqType
  <2>4. ControlType'
    BY <1>27, ControlSame DEF TaskletGame, TypeOK
  <2> QED
    BY <2>1, <2>2, <2>3, <2>4 DEF TypeOK
<1>28. ASSUME NEW u \in Users, kxo_open(u) PROVE TypeOK'
  <2>1. GamesType'
    BY <1>28, GamesSame DEF kxo_open, TypeOK
  <2>2. WorkType'
    BY <1>28, WorkSame DEF kxo_open, TypeOK
  <2>3. SoftirqType'
    <3>1. armed' \in BOOLEAN /\ unfini' \subseteq Games
      BY <1>28 DEF kxo_open, TypeOK, SoftirqType, timerVars
    <3>2. tpc' \in {"idle", "scan", "check", "rearm"}
      BY <1>28 DEF kxo_open, TypeOK, SoftirqType, timerVars
    <3>3. ti' \in 0 .. N_GAMES
      BY <1>28, GamesRange DEF kxo_open, TypeOK, SoftirqType, timerVars
    <3>4. tpc' = "check" => ti' \in Games
      BY <1>28, GamesRange DEF kxo_open, TypeOK, SoftirqType, timerVars
    <3>5. sched' \in BOOLEAN /\ tdata' \subseteq Games /\ twork' \subseteq Games
      BY <1>28 DEF kxo_open, TypeOK, SoftirqType, taskletVars
    <3> QED
      BY <3>1, <3>2, <3>3, <3>4, <3>5 DEF SoftirqType
  <2>4. ControlType'
    <3>1. display' \in AttrChar /\ end' \in AttrChar /\ stop' \in BOOLEAN
      BY <1>28, EngineAssumption DEF kxo_open, TypeOK, ControlType, attrVars, userVars,
         AttrChar
    <3>2. upc' \in [Users -> UserStage]
      BY <1>28 DEF kxo_open, TypeOK, ControlType, userVars, UserStage, ReleaseStage
    <3>3. rgi' \in [Users -> 0 .. N_GAMES]
      BY <1>28, GamesRange DEF kxo_open, TypeOK, ControlType, userVars
    <3>4. flush' \in [Users -> SUBSET (Work \X {"queued", "running"})]
      BY <1>28 DEF kxo_open, TypeOK, ControlType
    <3> QED
      BY <3>1, <3>2, <3>3, <3>4 DEF ControlType
  <2> QED
    BY <2>1, <2>2, <2>3, <2>4 DEF TypeOK
<1>29. ASSUME NEW u \in Users, kxo_release(u) PROVE TypeOK'
  <2>1. GamesType'
    BY <1>29, GamesSame DEF kxo_release, TypeOK
  <2>2. WorkType'
    BY <1>29, WorkSame DEF kxo_release, TypeOK
  <2>3. SoftirqType'
    BY <1>29, SoftirqSame DEF kxo_release, TypeOK
  <2>4. ControlType'
    <3>1. display' \in AttrChar /\ end' \in AttrChar /\ stop' \in BOOLEAN
      BY <1>29, EngineAssumption DEF kxo_release, TypeOK, ControlType, attrVars,
         userVars, AttrChar
    <3>2. upc' \in [Users -> UserStage]
      BY <1>29 DEF kxo_release, TypeOK, ControlType, userVars, UserStage, ReleaseStage
    <3>3. rgi' \in [Users -> 0 .. N_GAMES]
      BY <1>29, GamesRange DEF kxo_release, TypeOK, ControlType, userVars
    <3>4. flush' \in [Users -> SUBSET (Work \X {"queued", "running"})]
      BY <1>29 DEF kxo_release, TypeOK, ControlType
    <3> QED
      BY <3>1, <3>2, <3>3, <3>4 DEF ControlType
  <2> QED
    BY <2>1, <2>2, <2>3, <2>4 DEF TypeOK
<1>30. ASSUME NEW u \in Users, ReleaseDelTimer(u) PROVE TypeOK'
  <2>1. GamesType'
    BY <1>30, GamesSame DEF ReleaseDelTimer, TypeOK
  <2>2. WorkType'
    BY <1>30, WorkSame DEF ReleaseDelTimer, TypeOK
  <2>3. SoftirqType'
    <3>1. armed' \in BOOLEAN /\ unfini' \subseteq Games
      BY <1>30 DEF ReleaseDelTimer, TypeOK, SoftirqType, timerVars
    <3>2. tpc' \in {"idle", "scan", "check", "rearm"}
      BY <1>30 DEF ReleaseDelTimer, TypeOK, SoftirqType, timerVars
    <3>3. ti' \in 0 .. N_GAMES
      BY <1>30, GamesRange DEF ReleaseDelTimer, TypeOK, SoftirqType, timerVars
    <3>4. tpc' = "check" => ti' \in Games
      BY <1>30, GamesRange DEF ReleaseDelTimer, TypeOK, SoftirqType, timerVars
    <3>5. sched' \in BOOLEAN /\ tdata' \subseteq Games /\ twork' \subseteq Games
      BY <1>30 DEF ReleaseDelTimer, TypeOK, SoftirqType, taskletVars
    <3> QED
      BY <3>1, <3>2, <3>3, <3>4, <3>5 DEF SoftirqType
  <2>4. ControlType'
    <3>1. display' \in AttrChar /\ end' \in AttrChar /\ stop' \in BOOLEAN
      BY <1>30, EngineAssumption DEF ReleaseDelTimer, TypeOK, ControlType, attrVars,
         userVars, AttrChar
    <3>2. upc' \in [Users -> UserStage]
      BY <1>30 DEF ReleaseDelTimer, TypeOK, ControlType, userVars, UserStage, ReleaseStage
    <3>3. rgi' \in [Users -> 0 .. N_GAMES]
      BY <1>30, GamesRange DEF ReleaseDelTimer, TypeOK, ControlType, userVars
    <3>4. flush' \in [Users -> SUBSET (Work \X {"queued", "running"})]
      BY <1>30 DEF ReleaseDelTimer, TypeOK, ControlType
    <3> QED
      BY <3>1, <3>2, <3>3, <3>4 DEF ControlType
  <2> QED
    BY <2>1, <2>2, <2>3, <2>4 DEF TypeOK
<1>31. ASSUME NEW u \in Users, ReleaseKill(u) PROVE TypeOK'
  <2>1. GamesType'
    BY <1>31, GamesSame DEF ReleaseKill, TypeOK
  <2>2. WorkType'
    BY <1>31, WorkSame DEF ReleaseKill, TypeOK
  <2>3. SoftirqType'
    BY <1>31, SoftirqSame DEF ReleaseKill, TypeOK
  <2>4. ControlType'
    <3>1. display' \in AttrChar /\ end' \in AttrChar /\ stop' \in BOOLEAN
      BY <1>31, EngineAssumption DEF ReleaseKill, TypeOK, ControlType, attrVars,
         userVars, AttrChar
    <3>2. upc' \in [Users -> UserStage]
      BY <1>31 DEF ReleaseKill, TypeOK, ControlType, userVars, UserStage, ReleaseStage
    <3>3. rgi' \in [Users -> 0 .. N_GAMES]
      BY <1>31, GamesRange DEF ReleaseKill, TypeOK, ControlType, userVars
    <3>4. flush' \in [Users -> SUBSET (Work \X {"queued", "running"})]
      BY <1>31 DEF ReleaseKill, TypeOK, ControlType
    <3> QED
      BY <3>1, <3>2, <3>3, <3>4 DEF ControlType
  <2> QED
    BY <2>1, <2>2, <2>3, <2>4 DEF TypeOK
<1>32. ASSUME NEW u \in Users, ReleaseFlush(u) PROVE TypeOK'
  <2>1. GamesType'
    BY <1>32, GamesSame DEF ReleaseFlush, TypeOK
  <2>2. WorkType'
    BY <1>32, WorkSame DEF ReleaseFlush, TypeOK
  <2>3. SoftirqType'
    BY <1>32, SoftirqSame DEF ReleaseFlush, TypeOK
  <2>4. ControlType'
    <3>1. display' \in AttrChar /\ end' \in AttrChar /\ stop' \in BOOLEAN
      BY <1>32, EngineAssumption DEF ReleaseFlush, TypeOK, ControlType, attrVars,
         userVars, AttrChar
    <3>2. upc' \in [Users -> UserStage]
      BY <1>32 DEF ReleaseFlush, TypeOK, ControlType, userVars, UserStage, ReleaseStage
    <3>3. rgi' \in [Users -> 0 .. N_GAMES]
      BY <1>32, GamesRange DEF ReleaseFlush, TypeOK, ControlType, userVars
    <3>4. flush' \in [Users -> SUBSET (Work \X {"queued", "running"})]
      BY <1>32 DEF ReleaseFlush, TypeOK, ControlType, WorkType, Queued, Running
    <3> QED
      BY <3>1, <3>2, <3>3, <3>4 DEF ControlType
  <2> QED
    BY <2>1, <2>2, <2>3, <2>4 DEF TypeOK
<1>33. ASSUME NEW u \in Users, ReleaseFlushed(u) PROVE TypeOK'
  <2>1. GamesType'
    BY <1>33, GamesSame DEF ReleaseFlushed, TypeOK
  <2>2. WorkType'
    BY <1>33, WorkSame DEF ReleaseFlushed, TypeOK
  <2>3. SoftirqType'
    BY <1>33, SoftirqSame DEF ReleaseFlushed, TypeOK
  <2>4. ControlType'
    <3>1. display' \in AttrChar /\ end' \in AttrChar /\ stop' \in BOOLEAN
      BY <1>33, EngineAssumption DEF ReleaseFlushed, TypeOK, ControlType, attrVars,
         userVars, AttrChar
    <3>2. upc' \in [Users -> UserStage]
      BY <1>33 DEF ReleaseFlushed, TypeOK, ControlType, userVars, UserStage, ReleaseStage
    <3>3. rgi' \in [Users -> 0 .. N_GAMES]
      BY <1>33, GamesRange DEF ReleaseFlushed, TypeOK, ControlType, userVars
    <3>4. flush' \in [Users -> SUBSET (Work \X {"queued", "running"})]
      BY <1>33 DEF ReleaseFlushed, TypeOK, ControlType
    <3> QED
      BY <3>1, <3>2, <3>3, <3>4 DEF ControlType
  <2> QED
    BY <2>1, <2>2, <2>3, <2>4 DEF TypeOK
<1>34. ASSUME NEW u \in Users, ReleaseGame(u) PROVE TypeOK'
  <2>1. GamesType'
    BY <1>34 DEF ReleaseGame, TypeOK, GamesType
  <2>2. WorkType'
    BY <1>34, WorkSame DEF ReleaseGame, TypeOK
  <2>3. SoftirqType'
    BY <1>34, SoftirqSame DEF ReleaseGame, TypeOK
  <2>4. ControlType'
    <3>1. display' \in AttrChar /\ end' \in AttrChar /\ stop' \in BOOLEAN
      BY <1>34, EngineAssumption DEF ReleaseGame, TypeOK, ControlType, attrVars,
         userVars, AttrChar
    <3>2. upc' \in [Users -> UserStage]
      BY <1>34 DEF ReleaseGame, TypeOK, ControlType, userVars, UserStage, ReleaseStage
    <3>3. rgi' \in [Users -> 0 .. N_GAMES]
      BY <1>34, GamesRange DEF ReleaseGame, TypeOK, ControlType, userVars
    <3>4. flush' \in [Users -> SUBSET (Work \X {"queued", "running"})]
      BY <1>34 DEF ReleaseGame, TypeOK, ControlType
    <3> QED
      BY <3>1, <3>2, <3>3, <3>4 DEF ControlType
  <2> QED
    BY <2>1, <2>2, <2>3, <2>4 DEF TypeOK
<1>35. ASSUME NEW u \in Users, ReleaseStart(u) PROVE TypeOK'
  <2>1. GamesType'
    BY <1>35, GamesSame DEF ReleaseStart, TypeOK
  <2>2. WorkType'
    BY <1>35, WorkSame DEF ReleaseStart, TypeOK
  <2>3. SoftirqType'
    BY <1>35, SoftirqSame DEF ReleaseStart, TypeOK
  <2>4. ControlType'
    <3>1. display' \in AttrChar /\ end' \in AttrChar /\ stop' \in BOOLEAN
      BY <1>35, EngineAssumption DEF ReleaseStart, TypeOK, ControlType, attrVars,
         userVars, AttrChar
    <3>2. upc' \in [Users -> UserStage]
      BY <1>35 DEF ReleaseStart, TypeOK, ControlType, userVars, UserStage, ReleaseStage
    <3>3. rgi' \in [Users -> 0 .. N_GAMES]
      BY <1>35, GamesRange DEF ReleaseStart, TypeOK, ControlType, userVars
    <3>4. flush' \in [Users -> SUBSET (Work \X {"queued", "running"})]
      BY <1>35 DEF ReleaseStart, TypeOK, ControlType
    <3> QED
      BY <3>1, <3>2, <3>3, <3>4 DEF ControlType
  <2> QED
    BY <2>1, <2>2, <2>3, <2>4 DEF TypeOK
<1>36. ASSUME NEW u \in Users, ReleaseAttr(u) PROVE TypeOK'
  <2>1. GamesType'
    BY <1>36, GamesSame DEF ReleaseAttr, TypeOK
  <2>2. WorkType'
    BY <1>36, WorkSame DEF ReleaseAttr, TypeOK
  <2>3. SoftirqType'
    BY <1>36, SoftirqSame DEF ReleaseAttr, TypeOK
  <2>4. ControlType'
    <3>1. display' \in AttrChar /\ end' \in AttrChar /\ stop' \in BOOLEAN
      BY <1>36, EngineAssumption DEF ReleaseAttr, TypeOK, ControlType, attrVars,
         userVars, AttrChar
    <3>2. upc' \in [Users -> UserStage]
      BY <1>36 DEF ReleaseAttr, TypeOK, ControlType, userVars, UserStage, ReleaseStage
    <3>3. rgi' \in [Users -> 0 .. N_GAMES]
      BY <1>36, GamesRange DEF ReleaseAttr, TypeOK, ControlType, userVars
    <3>4. flush' \in [Users -> SUBSET (Work \X {"queued", "running"})]
      BY <1>36 DEF ReleaseAttr, TypeOK, ControlType
    <3> QED
      BY <3>1, <3>2, <3>3, <3>4 DEF ControlType
  <2> QED
    BY <2>1, <2>2, <2>3, <2>4 DEF TypeOK
<1>37. ASSUME NEW s \in Settings, kxo_state_store(s[1], s[2]) PROVE TypeOK'
  <2>1. GamesType'
    BY <1>37, GamesSame DEF kxo_state_store, TypeOK
  <2>2. WorkType'
    BY <1>37, WorkSame DEF kxo_state_store, TypeOK
  <2>3. SoftirqType'
    BY <1>37, SoftirqSame DEF kxo_state_store, TypeOK
  <2>4. ControlType'
    <3>1. display' \in AttrChar /\ end' \in AttrChar /\ stop' \in BOOLEAN
      BY <1>37, EngineAssumption DEF kxo_state_store, TypeOK, ControlType, attrVars,
         userVars, AttrChar
    <3>2. upc' \in [Users -> UserStage]
      BY <1>37 DEF kxo_state_store, TypeOK, ControlType, userVars, UserStage, ReleaseStage
    <3>3. rgi' \in [Users -> 0 .. N_GAMES]
      BY <1>37, GamesRange DEF kxo_state_store, TypeOK, ControlType, userVars
    <3>4. flush' \in [Users -> SUBSET (Work \X {"queued", "running"})]
      BY <1>37 DEF kxo_state_store, TypeOK, ControlType
    <3> QED
      BY <3>1, <3>2, <3>3, <3>4 DEF ControlType
  <2> QED
    BY <2>1, <2>2, <2>3, <2>4 DEF TypeOK
<1>38. CASE UNCHANGED vars
  BY <1>38, GamesSame, WorkSame, SoftirqSame, ControlSame DEF vars, TypeOK
<1> QED
  BY <1>1, <1>2, <1>3, <1>4, <1>5, <1>6, <1>7, <1>8, <1>9, <1>10, <1>11, <1>12, <1>13,
     <1>14, <1>15, <1>16, <1>17, <1>18, <1>19, <1>20, <1>21, <1>22, <1>23, <1>24, <1>25,
     <1>26, <1>27, <1>28, <1>29, <1>30, <1>31, <1>32, <1>33, <1>34, <1>35, <1>36, <1>37,
     <1>38
     DEF Next, AiStep, DrawStep, FinishStep, TimerStep, ReleaseStep

(* Every variable of the engine keeps its type.                            *)
THEOREM TypeCorrect == Spec => []TypeOK
<1> QED
  BY TypeInit, TypeStep, PTL DEF Spec

-----------------------------------------------------------------------------
(* A step leaves the stage and the place in the queue of a work item.      *)
Untouched(x, h) ==
  /\ pc'[<<x, h>>] = pc[<<x, h>>]
  /\ <<x, h>> \in pend' <=> <<x, h>> \in pend

(* A step of one work item touches no other.                               *)
LEMMA ItemStep ==
  ASSUME WorkType, NEW x \in Kind, NEW g \in Games, NEW stage,
         pc' = [pc EXCEPT ![<<x, g>>] = stage],
         pend' = pend \/ pend' = pend \ {<<x, g>>} \/ pend' = pend \cup {<<x, g>>}
  PROVE  /\ pc'[<<x, g>>] = stage
         /\ \A y \in Kind, h \in Games : y # x \/ h # g => Untouched(y, h)
<1>1. /\ pc'[<<x, g>>] = stage
      /\ \A y \in Kind, h \in Games :
           y # x \/ h # g => pc'[<<y, h>>] = pc[<<y, h>>]
  BY DEF WorkType, Kind, Work
<1>2. \A y \in Kind, h \in Games :
        y # x \/ h # g => (<<y, h>> \in pend' <=> <<y, h>> \in pend)
  OBVIOUS
<1> QED
  BY <1>1, <1>2 DEF Untouched

(* So does one that only queues it or takes it from the queue.             *)
LEMMA QueueStep ==
  ASSUME NEW x \in Kind, NEW g \in Games, pc' = pc,
         pend' = pend \ {<<x, g>>} \/ pend' = pend \cup {<<x, g>>}
  PROVE  \A y \in Kind, h \in Games : y # x \/ h # g => Untouched(y, h)
BY DEF Untouched

(* It is enough to look at the one game whose state or work items a step   *)
(* changes.                                                                *)
LEMMA OwnershipFrame ==
  ASSUME Ownership, NEW g \in Games, OneOwner(g)',
         \A h \in Games : h # g =>
           state'[h] = state[h] /\ \A x \in Kind : Untouched(x, h)
  PROVE  Ownership'
<1> SUFFICES ASSUME NEW h \in Games, h # g PROVE OneOwner(h)'
  BY DEF Ownership
<1>1. OneOwner(h)
  BY DEF Ownership
<1>2. state'[h] = state[h]
  OBVIOUS
<1>3. Untouched("one", h) /\ Untouched("two", h) /\ Untouched("finish", h)
  BY DEF Kind
<1> QED
  BY <1>1, <1>2, <1>3 DEF OneOwner, AiOwns, FinishOwns, AiKind, Untouched

Owning == {"lock", "agent", "search", "write", "attr", "ready"}

(* A step of an AI work item keeps the game of that item owned by one      *)
(* item at most, whichever of the two it is.                               *)
LEMMA AiOwnershipStep ==
  ASSUME Ownership, NEW k \in AiKind, NEW g \in Games,
         \A y \in Kind, h \in Games : y # k \/ h # g => Untouched(y, h),
         \A h \in Games : h # g => state'[h] = state[h],
         AiOwns(k, g),
         state'[g] = GAME_BUSY <=> AiOwns(k, g)',
         AiOwns(k, g)' \/ state'[g] = GAME_READY,
         <<k, g>> \in pend' => pc'[<<k, g>>] \in {"idle", "unlock"}
  PROVE  Ownership'
<1>1. OneOwner(g)
  BY DEF Ownership
<1>2. Untouched("finish", g) /\ "finish" \in Kind
  BY DEF Kind, AiKind
<1>3. OneOwner(g)'
  <2>1. CASE k = "one"
    <3>1. Untouched("two", g)
      BY <2>1 DEF Kind
    <3> QED
      BY <1>1, <1>2, <2>1, <3>1 DEF OneOwner, AiOwns, FinishOwns, Untouched, AiKind,
         GAME_BUSY, GAME_READY, GAME_DONE
  <2>2. CASE k = "two"
    <3>1. Untouched("one", g)
      BY <2>2 DEF Kind
    <3> QED
      BY <1>1, <1>2, <2>2, <3>1 DEF OneOwner, AiOwns, FinishOwns, Untouched, AiKind,
         GAME_BUSY, GAME_READY, GAME_DONE
  <2> QED
    BY <2>1, <2>2 DEF AiKind
<1> QED
  BY <1>3, OwnershipFrame

(* A step of a finish work item.                                           *)
LEMMA FinishOwnershipStep ==
  ASSUME Ownership, NEW g \in Games,
         \A y \in Kind, h \in Games : y # "finish" \/ h # g => Untouched(y, h),
         \A h \in Games : h # g => state'[h] = state[h],
         state'[g] = state[g] \/ (state[g] # GAME_BUSY /\ state'[g] # GAME_BUSY),
         FinishOwns(g)' => state'[g] = GAME_DONE,
         <<"finish", g>> \in pend' => pc'[<<"finish", g>>] \in {"idle", "learn", "unlock"}
  PROVE  Ownership'
<1>1. OneOwner(g)
  BY DEF Ownership
<1>2. Untouched("one", g) /\ Untouched("two", g)
  BY DEF Kind
<1>3. OneOwner(g)'
  BY <1>1, <1>2 DEF OneOwner, AiOwns, FinishOwns, Untouched, AiKind
<1>4. \A h \in Games : h # g => \A x \in Kind : Untouched(x, h)
  OBVIOUS
<1> QED
  BY <1>3, <1>4, OwnershipFrame

(* All four handlers are kinds of work item.                               *)
LEMMA KindOfAi == AiKind \subseteq Kind /\ {"draw", "finish"} \subseteq Kind
BY DEF AiKind, Kind

(* Steps that change neither state nor work items keep every owner.        *)
LEMMA OwnershipSame == Ownership /\ UNCHANGED <<state, pc, pend>> => Ownership'
BY DEF Ownership, OneOwner, AiOwns, FinishOwns

(* A step on the game between two owning stages of an AI work item.        *)
LEMMA AiAdvance ==
  ASSUME TypeOK, Ownership, NEW k \in AiKind, NEW g \in Games, NEW stage \in Owning,
         pc[<<k, g>>] \in Owning, pc' = [pc EXCEPT ![<<k, g>>] = stage],
         UNCHANGED <<state, pend>>
  PROVE  Ownership'
<1>1. /\ pc'[<<k, g>>] = stage
      /\ \A y \in Kind, h \in Games : y # k \/ h # g => Untouched(y, h)
  BY ItemStep, KindOfAi DEF TypeOK
<1>2. AiOwns(k, g) /\ AiOwns(k, g)'
  BY <1>1 DEF AiOwns, Owning
<1>3. OneOwner(g)
  BY DEF Ownership
<1>4. state[g] = GAME_BUSY /\ <<k, g>> \notin pend
  BY <1>2, <1>3 DEF OneOwner, AiKind, Owning
<1> QED
  BY <1>1, <1>2, <1>4, AiOwnershipStep

(* A step of an AI work item that has handed its game back already.        *)
LEMMA AiKeepStep ==
  ASSUME Ownership, NEW k \in AiKind, NEW g \in Games, UNCHANGED <<state, pend>>,
         \A y \in Kind, h \in Games : y # k \/ h # g => Untouched(y, h),
         AiOwns(k, g)' <=> AiOwns(k, g), pc'[<<k, g>>] = "idle"
  PROVE  Ownership'
<1>1. OneOwner(g)
  BY DEF Ownership
<1>2. Untouched("finish", g)
  BY DEF Kind, AiKind
<1>3. OneOwner(g)'
  <2>1. CASE k = "one"
    <3>1. Untouched("two", g)
      BY <2>1 DEF Kind
    <3>2. AiOwns("two", g)' <=> AiOwns("two", g)
      BY <3>1 DEF Untouched, AiOwns
    <3>3. FinishOwns(g)' <=> FinishOwns(g)
      BY <1>2 DEF Untouched, FinishOwns
    <3> QED
      BY <1>1, <1>2, <2>1, <3>1, <3>2, <3>3 DEF OneOwner, Untouched, AiKind
  <2>2. CASE k = "two"
    <3>1. Untouched("one", g)
      BY <2>2 DEF Kind
    <3>2. AiOwns("one", g)' <=> AiOwns("one", g)
      BY <3>1 DEF Untouched, AiOwns
    <3>3. FinishOwns(g)' <=> FinishOwns(g)
      BY <1>2 DEF Untouched, FinishOwns
    <3> QED
      BY <1>1, <1>2, <2>2, <3>1, <3>2, <3>3 DEF OneOwner, Untouched, AiKind
  <2> QED
    BY <2>1, <2>2 DEF AiKind
<1> QED
  BY <1>3, OwnershipFrame

(* drawboard_work_func takes no part in the ownership of a game.           *)
LEMMA DrawOwnershipStep ==
  ASSUME Ownership, NEW g \in Games, UNCHANGED state,
         \A y \in Kind, h \in Games : y # "draw" \/ h # g => Untouched(y, h)
  PROVE  Ownership'
<1> SUFFICES ASSUME NEW h \in Games PROVE OneOwner(h)'
  BY DEF Ownership
<1>1. OneOwner(h)
  BY DEF Ownership
<1>2. Untouched("one", h) /\ Untouched("two", h) /\ Untouched("finish", h)
  BY DEF Kind
<1> QED
  BY <1>1, <1>2 DEF OneOwner, AiOwns, FinishOwns, AiKind, Untouched

(* Every step of the engine keeps one owner per game.                      *)
LEMMA OwnershipStep == OwnershipInv /\ [Next]_vars => Ownership'
<1> SUFFICES ASSUME OwnershipInv, [Next]_vars PROVE Ownership'
  OBVIOUS
<1> USE DEF OwnershipInv
<1>1. ASSUME NEW k \in AiKind, NEW g \in Games, AiBail(k, g) PROVE Ownership'
  <2>1. \A y \in Kind, h \in Games : y # k \/ h # g => Untouched(y, h)
    BY <1>1, KindOfAi, QueueStep DEF AiBail
  <2>2. /\ AiOwns(k, g) /\ ~AiOwns(k, g)' /\ <<k, g>> \notin pend'
        /\ state' = [state EXCEPT ![g] = GAME_READY]
    BY <1>1 DEF AiBail, Startable, AiOwns
  <2> QED
    BY <2>1, <2>2, AiOwnershipStep DEF TypeOK, GamesType, GAME_BUSY, GAME_READY
<1>2. ASSUME NEW k \in AiKind, NEW g \in Games, AiBegin(k, g) PROVE Ownership'
  <2>1. pc' = [pc EXCEPT ![<<k, g>>] = "lock"] /\ pend' = pend \ {<<k, g>>}
    BY <1>2 DEF AiBegin
  <2>2. /\ pc'[<<k, g>>] = "lock"
        /\ \A y \in Kind, h \in Games : y # k \/ h # g => Untouched(y, h)
    BY <2>1, KindOfAi, ItemStep DEF TypeOK
  <2>3. AiOwns(k, g) /\ AiOwns(k, g)' /\ <<k, g>> \notin pend'
    BY <1>2, <2>1, <2>2 DEF AiBegin, Startable, AiOwns
  <2>4. state' = state /\ state[g] = GAME_BUSY
    BY <1>2, <2>3 DEF AiBegin, gameVars, Ownership, OneOwner, AiKind
  <2> QED
    BY <2>2, <2>3, <2>4, AiOwnershipStep
<1>3. ASSUME NEW k \in AiKind, NEW g \in Games,
             AiLock(k, g) \/ AiAgentLock(k, g) \/ AiSearch(k, g) \/ AiWrite(k, g) \/ AiAttr(k, g)
      PROVE  Ownership'
  <2>1. PICK stage \in Owning : pc' = [pc EXCEPT ![<<k, g>>] = stage]
    BY <1>3 DEF AiLock, AiAgentLock, AiSearch, AiWrite, AiAttr, Owning
  <2>2. pc[<<k, g>>] \in Owning /\ UNCHANGED <<state, pend>>
    BY <1>3 DEF AiLock, AiAgentLock, AiSearch, AiWrite, AiAttr, Owning, gameVars
  <2> QED
    BY <2>1, <2>2, AiAdvance DEF TypeOK
<1>4. ASSUME NEW k \in AiKind, NEW g \in Games, AiReady(k, g) PROVE Ownership'
  <2>1. pc' = [pc EXCEPT ![<<k, g>>] = "unlock"] /\ pend' = pend /\ pc[<<k, g>>] = "ready"
    BY <1>4 DEF AiReady
  <2>2. /\ pc'[<<k, g>>] = "unlock"
        /\ \A y \in Kind, h \in Games : y # k \/ h # g => Untouched(y, h)
    BY <2>1, KindOfAi, ItemStep DEF TypeOK
  <2>3. AiOwns(k, g) /\ <<k, g>> \notin pend
    BY <2>1 DEF AiOwns, Ownership, OneOwner
  <2>4. ~AiOwns(k, g)'
    BY <2>1, <2>2, <2>3 DEF AiOwns
  <2>5. state' = [state EXCEPT ![g] = GAME_READY]
    BY <1>4 DEF AiReady
  <2> QED
    BY <2>1, <2>2, <2>3, <2>4, <2>5, AiOwnershipStep DEF TypeOK, GamesType, GAME_BUSY,
       GAME_READY
<1>5. ASSUME NEW k \in AiKind, NEW g \in Games, AiUnlock(k, g) PROVE Ownership'
  <2>1. pc' = [pc EXCEPT ![<<k, g>>] = "idle"] /\ pend' = pend /\ pc[<<k, g>>] = "unlock" /\ state' = state
    BY <1>5 DEF AiUnlock
  <2>2. /\ pc'[<<k, g>>] = "idle"
        /\ \A y \in Kind, h \in Games : y # k \/ h # g => Untouched(y, h)
    BY <2>1, KindOfAi, ItemStep DEF TypeOK
  <2>3. AiOwns(k, g)' <=> AiOwns(k, g)
    BY <2>1, <2>2 DEF AiOwns
  <2> QED
    BY <2>1, <2>2, <2>3, AiKeepStep
<1>6. ASSUME NEW g \in Games, DrawSkip(g) PROVE Ownership'
  <2>1. pc' = pc /\ state' = state /\ pend' = pend \ {<<"draw", g>>}
    BY <1>6 DEF DrawSkip, gameVars
  <2> QED
    BY <2>1, KindOfAi, QueueStep, DrawOwnershipStep
<1>7. ASSUME NEW g \in Games, DrawBegin(g) \/ DrawBusy(g) \/ DrawLock(g) \/ DrawFifo(g)
      PROVE  Ownership'
  <2>1. PICK stage \in {"lock", "idle", "fifo"} : pc' = [pc EXCEPT ![<<"draw", g>>] = stage]
    BY <1>7 DEF DrawBegin, DrawBusy, DrawLock, DrawFifo
  <2>2. UNCHANGED state /\ (pend' = pend \/ pend' = pend \ {<<"draw", g>>})
    BY <1>7 DEF DrawBegin, DrawBusy, DrawLock, DrawFifo, gameVars
  <2> QED
    BY <2>1, <2>2, KindOfAi, ItemStep, DrawOwnershipStep DEF TypeOK
<1>8. ASSUME NEW g \in Games, FinishBegin(g) PROVE Ownership'
  <2>1. pc' = [pc EXCEPT ![<<"finish", g>>] = "lock"] /\ pend' = pend \ {<<"finish", g>>}
    BY <1>8 DEF FinishBegin
  <2>2. /\ pc'[<<"finish", g>>] = "lock"
        /\ \A y \in Kind, h \in Games : y # "finish" \/ h # g => Untouched(y, h)
    BY <2>1, KindOfAi, ItemStep DEF TypeOK
  <2>3. OneOwner(g) /\ pc[<<"finish", g>>] = "idle" /\ state' = state
    BY <1>8 DEF FinishBegin, Ownership, Startable, gameVars
  <2>4. FinishOwns(g)' => FinishOwns(g)
    BY <1>8, <2>1, <2>2, <2>3 DEF FinishOwns, FinishBegin, Startable
  <2>5. <<"finish", g>> \in pend' => pc'[<<"finish", g>>] \in {"idle", "learn", "unlock"}
    BY <2>1, <2>2, <2>3 DEF OneOwner
  <2>6. FinishOwns(g)' => state'[g] = GAME_DONE
    BY <2>3, <2>4 DEF OneOwner
  <2> QED
    BY <2>2, <2>3, <2>5, <2>6, FinishOwnershipStep
<1>9. ASSUME NEW g \in Games,
             FinishLock(g) \/ FinishReset(g) \/ FinishLearn(g) \/ FinishUnlock(g)
      PROVE  Ownership'
  <2>1. PICK stage \in {"reset", "ready", "unlock", "idle"} :
          pc' = [pc EXCEPT ![<<"finish", g>>] = stage]
    BY <1>9 DEF FinishLock, FinishReset, FinishLearn, FinishUnlock
  <2>2. UNCHANGED <<state, pend>>
    BY <1>9 DEF FinishLock, FinishReset, FinishLearn, FinishUnlock, gameVars
  <2>3. /\ pc'[<<"finish", g>>] = stage
        /\ \A y \in Kind, h \in Games : y # "finish" \/ h # g => Untouched(y, h)
    BY <2>1, <2>2, KindOfAi, ItemStep DEF TypeOK
  <2>4. OneOwner(g)
    BY DEF Ownership
  <2>5. FinishOwns(g)' => FinishOwns(g)
    BY <1>9, <2>1, <2>2, <2>3 DEF FinishOwns, FinishLock, FinishReset, FinishLearn,
       FinishUnlock
  <2>6. <<"finish", g>> \in pend' => pc'[<<"finish", g>>] \in {"idle", "learn", "unlock"}
    BY <1>9, <2>1, <2>2, <2>3, <2>4 DEF OneOwner, FinishLock, FinishReset, FinishLearn,
       FinishUnlock
  <2>7. FinishOwns(g)' => state'[g] = GAME_DONE
    BY <2>2, <2>4, <2>5 DEF OneOwner
  <2> QED
    BY <2>2, <2>3, <2>6, <2>7, FinishOwnershipStep
<1>10. ASSUME NEW g \in Games, FinishReady(g) PROVE Ownership'
  <2>1. pc' = [pc EXCEPT ![<<"finish", g>>] = "learn"] /\ pend' = pend
    BY <1>10 DEF FinishReady
  <2>2. /\ pc'[<<"finish", g>>] = "learn"
        /\ \A y \in Kind, h \in Games : y # "finish" \/ h # g => Untouched(y, h)
    BY <2>1, KindOfAi, ItemStep DEF TypeOK
  <2>3. OneOwner(g) /\ pc[<<"finish", g>>] = "ready" /\ state' = [state EXCEPT ![g] = GAME_READY]
    BY <1>10 DEF FinishReady, Ownership
  <2>4. state[g] = GAME_DONE /\ <<"finish", g>> \notin pend
    BY <2>3 DEF OneOwner, FinishOwns
  <2>5. ~FinishOwns(g)'
    BY <2>1, <2>2, <2>4 DEF FinishOwns
  <2> QED
    BY <2>1, <2>2, <2>3, <2>4, <2>5, FinishOwnershipStep DEF TypeOK, GamesType,
       GAME_BUSY, GAME_READY, GAME_DONE
<1>11. ASSUME TimerCheck PROVE Ownership'
  <2>1. ti \in Games /\ state[ti] = GAME_READY
    BY <1>11 DEF TimerCheck, CheckedReady, TypeOK, SoftirqType
  <2>2. CASE UNCHANGED <<state, pc, pend>>
    BY <2>2, OwnershipSame
  <2>3. CASE state' = [state EXCEPT ![ti] = GAME_DONE] /\ pc' = pc /\ pend' = pend \cup {<<"finish", ti>>}
    <3>1. \A y \in Kind, h \in Games : y # "finish" \/ h # ti => Untouched(y, h)
      BY <2>1, <2>3, KindOfAi, QueueStep
    <3>2. OneOwner(ti)
      BY <2>1 DEF Ownership
    <3>3. ~FinishOwns(ti)
      BY <2>1, <3>2 DEF OneOwner, GAME_READY, GAME_DONE
    <3>4. pc[<<"finish", ti>>] \in {"idle", "learn", "unlock"}
      BY <2>1, <3>3, WorkStages DEF TypeOK, WorkType, FinishOwns, FinishStage
    <3>5. state'[ti] = GAME_DONE /\ \A h \in Games : h # ti => state'[h] = state[h]
      BY <2>1, <2>3 DEF TypeOK, GamesType
    <3> QED
      BY <2>1, <2>3, <3>1, <3>4, <3>5, FinishOwnershipStep DEF GAME_BUSY, GAME_READY,
         GAME_DONE
  <2> QED
    BY <1>11, <2>2, <2>3 DEF TimerCheck
<1>12. ASSUME TaskletGame PROVE Ownership'
  <2>1. PICK g \in twork :
          /\ pc' = pc
          /\ \/ /\ state[g] = GAME_READY /\ state' = [state EXCEPT ![g] = GAME_BUSY]
                /\ \E k \in AiKind : pend' = pend \cup {<<k, g>>, <<"draw", g>>}
             \/ state' = state /\ pend' = pend \cup {<<"draw", g>>}
    BY <1>12 DEF TaskletGame, Dispatchable, AiKind
  <2>2. g \in Games
    BY <2>1 DEF TypeOK, SoftirqType
  <2>3. CASE state' = state /\ pend' = pend \cup {<<"draw", g>>}
    BY <2>1, <2>2, <2>3, KindOfAi, QueueStep, DrawOwnershipStep
  <2>4. ASSUME state[g] = GAME_READY, state' = [state EXCEPT ![g] = GAME_BUSY],
               NEW k \in AiKind, pend' = pend \cup {<<k, g>>, <<"draw", g>>}
        PROVE  Ownership'
    <3>1. \A y \in Kind, h \in Games : y \notin {k, "draw"} \/ h # g => Untouched(y, h)
      BY <2>1, <2>4 DEF Untouched
    <3>2. OneOwner(g)
      BY <2>2 DEF Ownership
    <3>3. ~AiOwns("one", g) /\ ~AiOwns("two", g) /\ ~FinishOwns(g)
      BY <2>4, <3>2 DEF OneOwner, GAME_READY, GAME_DONE, GAME_BUSY
    <3>4. pc[<<k, g>>] \in {"idle", "unlock"}
      BY <2>2, <3>3, WorkStages DEF TypeOK, WorkType, AiOwns, AiStage, AiKind
    <3>5. state'[g] = GAME_BUSY /\ \A h \in Games : h # g => state'[h] = state[h]
      BY <2>2, <2>4 DEF TypeOK, GamesType
    <3>6. Untouched("finish", g)
      BY <2>2, <3>1 DEF AiKind, Kind
    <3>7. OneOwner(g)'
      <4>1. CASE k = "one"
        <5>1. Untouched("two", g)
          BY <2>2, <3>1, <4>1 DEF Kind
        <5> QED
          BY <2>1, <2>4, <3>2, <3>3, <3>4, <3>5, <3>6, <4>1, <5>1
          DEF OneOwner, AiOwns, FinishOwns, Untouched, AiKind
      <4>2. CASE k = "two"
        <5>1. Untouched("one", g)
          BY <2>2, <3>1, <4>2 DEF Kind
        <5> QED
          BY <2>1, <2>4, <3>2, <3>3, <3>4, <3>5, <3>6, <4>2, <5>1
          DEF OneOwner, AiOwns, FinishOwns, Untouched, AiKind
      <4> QED
        BY <4>1, <4>2 DEF AiKind
    <3> QED
      BY <2>2, <3>1, <3>5, <3>7, OwnershipFrame
  <2> QED
    BY <2>1, <2>3, <2>4
<1>13. ASSUME NEW u \in Users, ReleaseGame(u) PROVE Ownership'
  <2>1. PICK g \in Games : g = rgi[u]
    BY <1>13, GamesRange DEF ReleaseGame, TypeOK, ControlType
  <2>2. WorkStopped
    BY <1>13 DEF ReleaseGame, ReleaseStops, StoppedFor
  <2>3. ~FinishOwns(g) /\ <<"finish", g>> \notin pend
    BY <2>1, <2>2, WorkStages DEF WorkStopped, FinishOwns
  <2>4. pc' = pc /\ pend' = pend
    BY <1>13 DEF ReleaseGame, workVars
  <2>5. state' = [state EXCEPT ![g] = IF state[g] = GAME_DONE THEN GAME_READY ELSE state[g]]
    BY <1>13, <2>1 DEF ReleaseGame
  <2>6. \A y \in Kind, h \in Games : Untouched(y, h)
    BY <2>4 DEF Untouched
  <2>7. ~FinishOwns(g)' /\ <<"finish", g>> \notin pend'
    BY <2>3, <2>4 DEF FinishOwns
  <2>8. /\ \A h \in Games : h # g => state'[h] = state[h]
        /\ state'[g] = state[g] \/ (state[g] = GAME_DONE /\ state'[g] = GAME_READY)
    BY <2>5 DEF TypeOK, GamesType
  <2> QED
    BY <2>6, <2>7, <2>8, FinishOwnershipStep DEF GAME_BUSY, GAME_READY, GAME_DONE
<1>14. ASSUME TimerFire \/ TimerScan \/ TimerSchedule \/ TimerRearm \/ TaskletRun
      PROVE  Ownership'
  BY <1>14, OwnershipSame DEF TimerFire, TimerScan, TimerSchedule, TimerRearm, TaskletRun,
     gameVars, workVars
<1>15. ASSUME NEW u \in Users,
             \/ kxo_open(u) \/ kxo_release(u) \/ ReleaseDelTimer(u) \/ ReleaseKill(u)
             \/ ReleaseFlush(u) \/ ReleaseFlushed(u) \/ ReleaseStart(u) \/ ReleaseAttr(u)
      PROVE  Ownership'
  BY <1>15, OwnershipSame DEF kxo_open, kxo_release, ReleaseDelTimer, ReleaseKill,
     ReleaseFlush,
     ReleaseFlushed, ReleaseStart, ReleaseAttr, gameVars, workVars
<1>16. ASSUME NEW s \in Settings, kxo_state_store(s[1], s[2]) PROVE Ownership'
  BY <1>16, OwnershipSame DEF kxo_state_store, gameVars, workVars
<1>17. CASE UNCHANGED vars
  BY <1>17, OwnershipSame DEF vars, gameVars, workVars
<1> QED
  BY <1>1, <1>2, <1>3, <1>4, <1>5, <1>6, <1>7, <1>8, <1>9, <1>10, <1>11, <1>12, <1>13,
     <1>14, <1>15, <1>16, <1>17
     DEF Next, AiStep, DrawStep, FinishStep, TimerStep, ReleaseStep

WorkStep == \E g \in Games : (\E k \in AiKind : AiStep(k, g)) \/ DrawStep(g) \/ FinishStep(g)
UserStep == \E u \in Users : kxo_open(u) \/ kxo_release(u) \/ ReleaseStep(u)

(* Work items change neither timer, tasklet, sysfs nor files.              *)
LEMMA WorkFrame == WorkStep => UNCHANGED <<timerVars, taskletVars, attrVars, userVars>>
<1>1. ASSUME NEW k \in AiKind, NEW g \in Games, AiStep(k, g)
      PROVE  UNCHANGED <<timerVars, taskletVars, attrVars, userVars>>
  BY <1>1 DEF AiStep, AiBail, AiBegin, AiLock, AiAgentLock, AiSearch, AiWrite,
     AiAttr, AiReady, AiUnlock
<1>2. ASSUME NEW g \in Games, DrawStep(g)
      PROVE  UNCHANGED <<timerVars, taskletVars, attrVars, userVars>>
  BY <1>2 DEF DrawStep, DrawSkip, DrawBegin, DrawBusy, DrawLock, DrawFifo
<1>3. ASSUME NEW g \in Games, FinishStep(g)
      PROVE  UNCHANGED <<timerVars, taskletVars, attrVars, userVars>>
  BY <1>3 DEF FinishStep, FinishBegin, FinishLock, FinishReset, FinishReady,
     FinishLearn, FinishUnlock
<1> QED
  BY <1>1, <1>2, <1>3 DEF WorkStep

(* The next-state relation by who takes the step.                          *)
LEMMA NextSplit ==
  [Next]_vars => \/ WorkStep \/ TimerFire \/ TimerStep \/ TaskletRun \/ TaskletGame \/ UserStep
                 \/ \E s \in Settings : kxo_state_store(s[1], s[2])
                 \/ UNCHANGED vars
BY DEF Next, WorkStep, UserStep

(* Open and close change no work item except by waiting for it.            *)
LEMMA UserFrame ==
  ASSUME TypeOK, NEW u \in Users, kxo_open(u) \/ kxo_release(u) \/ ReleaseStep(u)
  PROVE  /\ UNCHANGED <<workVars, taskletVars, tpc, ti, unfini>>
         /\ upc' = [upc EXCEPT ![u] = upc'[u]]
<1>1. upc \in [Users -> UserStage]
  BY DEF TypeOK, ControlType
<1>2. UNCHANGED <<workVars, taskletVars, tpc, ti, unfini>>
  <2>1. CASE kxo_open(u)
    BY <2>1 DEF kxo_open
  <2>2. CASE kxo_release(u)
    BY <2>2 DEF kxo_release, timerVars
  <2>3. CASE ReleaseDelTimer(u)
    BY <2>3 DEF ReleaseDelTimer, timerVars
  <2>4. CASE ReleaseKill(u)
    BY <2>4 DEF ReleaseKill, timerVars
  <2>5. CASE ReleaseFlush(u)
    BY <2>5 DEF ReleaseFlush, timerVars
  <2>6. CASE ReleaseFlushed(u)
    BY <2>6 DEF ReleaseFlushed, timerVars
  <2>7. CASE ReleaseGame(u)
    BY <2>7 DEF ReleaseGame, timerVars
  <2>8. CASE ReleaseStart(u)
    BY <2>8 DEF ReleaseStart, timerVars
  <2>9. CASE ReleaseAttr(u)
    BY <2>9 DEF ReleaseAttr, timerVars
  <2> QED
    BY <2>1, <2>2, <2>3, <2>4, <2>5, <2>6, <2>7, <2>8, <2>9 DEF ReleaseStep
<1>3. UNCHANGED upc \/ \E stage : upc' = [upc EXCEPT ![u] = stage]
  <2>1. CASE kxo_open(u)
    BY <2>1 DEF kxo_open
  <2>2. CASE kxo_release(u)
    BY <2>2 DEF kxo_release
  <2>3. CASE ReleaseDelTimer(u)
    BY <2>3 DEF ReleaseDelTimer
  <2>4. CASE ReleaseKill(u)
    BY <2>4 DEF ReleaseKill
  <2>5. CASE ReleaseFlush(u)
    BY <2>5 DEF ReleaseFlush
  <2>6. CASE ReleaseFlushed(u)
    BY <2>6 DEF ReleaseFlushed
  <2>7. CASE ReleaseGame(u)
    BY <2>7 DEF ReleaseGame
  <2>8. CASE ReleaseStart(u)
    BY <2>8 DEF ReleaseStart
  <2>9. CASE ReleaseAttr(u)
    BY <2>9 DEF ReleaseAttr
  <2> QED
    BY <2>1, <2>2, <2>3, <2>4, <2>5, <2>6, <2>7, <2>8, <2>9 DEF ReleaseStep
<1> QED
  BY <1>1, <1>2, <1>3

(* On one processor neither softirq handler starts inside the other.       *)
LEMMA SoftirqSerialStep ==
  ASSUME SoftirqOverlap = FALSE PROVE OwnershipInv /\ [Next]_vars => SoftirqSerial'
<1> SUFFICES ASSUME OwnershipInv, [Next]_vars PROVE SoftirqSerial'
  OBVIOUS
<1> USE DEF OwnershipInv, SoftirqSerial
<1>1. ASSUME UNCHANGED <<tpc, twork>> PROVE SoftirqSerial'
  BY <1>1
<1>2. CASE TimerFire
  BY <1>2 DEF TimerFire, taskletVars
<1>3. CASE TimerStep
  BY <1>3 DEF TimerStep, TimerScan, TimerCheck, TimerSchedule, TimerRearm, taskletVars
<1>4. CASE TaskletRun \/ TaskletGame
  BY <1>4 DEF TaskletRun, TaskletGame, timerVars
<1>5. CASE WorkStep
  BY <1>1, <1>5, WorkFrame DEF timerVars, taskletVars
<1>6. CASE UserStep
  BY <1>1, <1>6, UserFrame DEF UserStep, taskletVars, OwnershipInv
<1>7. CASE \E s \in Settings : kxo_state_store(s[1], s[2])
  BY <1>1, <1>7 DEF kxo_state_store, timerVars, taskletVars
<1>8. CASE UNCHANGED vars
  BY <1>1, <1>8 DEF vars, timerVars, taskletVars
<1> QED
  BY <1>2, <1>3, <1>4, <1>5, <1>6, <1>7, <1>8, NextSplit

(* The state of a ready game changes in the tasklet only, or when the      *)
(* timer handler ends it.                                                  *)
LEMMA CheckedReadyStep == OwnershipInv /\ [Next]_vars => CheckedReady'
<1> SUFFICES ASSUME OwnershipInv, [Next]_vars PROVE CheckedReady'
  OBVIOUS
<1> USE DEF OwnershipInv, CheckedReady
<1>1. ASSUME UNCHANGED <<tpc, ti>>, NEW g \in Games,
             state' = [state EXCEPT ![g] = GAME_READY] \/ UNCHANGED state
      PROVE  CheckedReady'
  BY <1>1 DEF TypeOK, GamesType, SoftirqType
<1>2. CASE TimerFire
  BY <1>2 DEF TimerFire
<1>3. CASE TimerStep
  BY <1>3 DEF TimerStep, TimerScan, TimerCheck, TimerSchedule, TimerRearm, gameVars
<1>4. CASE TaskletRun
  BY <1>4 DEF TaskletRun, timerVars, gameVars
<1>5. CASE TaskletGame
  BY <1>5 DEF TaskletGame, SoftirqSerial, timerVars
<1>6. CASE WorkStep
  <2>1. PICK g \in Games : (\E k \in AiKind : AiStep(k, g)) \/ DrawStep(g) \/ FinishStep(g)
    BY <1>6 DEF WorkStep
  <2>2. state' = [state EXCEPT ![g] = GAME_READY] \/ UNCHANGED state
    <3>1. ASSUME NEW k \in AiKind, AiStep(k, g)
          PROVE  state' = [state EXCEPT ![g] = GAME_READY] \/ UNCHANGED state
      BY <3>1 DEF AiStep, AiBail, AiBegin, AiLock, AiAgentLock, AiSearch, AiWrite,
         AiAttr, AiReady, AiUnlock, gameVars
    <3>2. CASE DrawStep(g)
      BY <3>2 DEF DrawStep, DrawSkip, DrawBegin, DrawBusy, DrawLock, DrawFifo, gameVars
    <3>3. CASE FinishStep(g)
      BY <3>3 DEF FinishStep, FinishBegin, FinishLock, FinishReset, FinishReady,
         FinishLearn, FinishUnlock, gameVars
    <3> QED
      BY <2>1, <3>1, <3>2, <3>3
  <2> QED
    BY <1>1, <1>6, <2>2, WorkFrame DEF timerVars
<1>7. CASE UserStep
  <2>1. PICK u \in Users : kxo_open(u) \/ kxo_release(u) \/ ReleaseStep(u)
    BY <1>7 DEF UserStep
  <2>2. UNCHANGED <<tpc, ti>>
    BY <2>1, UserFrame
  <2>3. UNCHANGED state \/ state' = [state EXCEPT ![rgi[u]] = IF @ = GAME_DONE THEN GAME_READY ELSE @]
    BY <2>1 DEF kxo_open, kxo_release, ReleaseStep, ReleaseDelTimer, ReleaseKill,
       ReleaseFlush,
       ReleaseFlushed, ReleaseGame, ReleaseStart, ReleaseAttr, gameVars
  <2> QED
    BY <2>2, <2>3 DEF TypeOK, GamesType, SoftirqType
<1>8. CASE \E s \in Settings : kxo_state_store(s[1], s[2])
  BY <1>8 DEF kxo_state_store, timerVars, gameVars
<1>9. CASE UNCHANGED vars
  BY <1>9 DEF vars, timerVars, gameVars
<1> QED
  BY <1>2, <1>3, <1>4, <1>5, <1>6, <1>7, <1>8, <1>9, NextSplit

(* No file is opened while the last close executes.                        *)
LEMMA ReleaseAloneStep ==
  ASSUME OpenOverlap = FALSE PROVE OwnershipInv /\ [Next]_vars => ReleaseAlone'
<1> SUFFICES ASSUME OwnershipInv, [Next]_vars PROVE ReleaseAlone'
  OBVIOUS
<1> USE DEF OwnershipInv
<1>1. ASSUME UNCHANGED upc PROVE ReleaseAlone'
  BY <1>1 DEF ReleaseAlone
<1>2. CASE WorkStep
  BY <1>1, <1>2, WorkFrame DEF userVars
<1>3. CASE TimerFire \/ TimerStep \/ TaskletRun \/ TaskletGame
  BY <1>1, <1>3 DEF TimerFire, TimerStep, TimerScan, TimerCheck, TimerSchedule,
     TimerRearm,
     TaskletRun, TaskletGame, userVars
<1>4. CASE UserStep
  <2>1. PICK u \in Users : kxo_open(u) \/ kxo_release(u) \/ ReleaseStep(u)
    BY <1>4 DEF UserStep
  <2>2. upc' = [upc EXCEPT ![u] = upc'[u]] /\ upc \in [Users -> UserStage]
    BY <2>1, UserFrame DEF TypeOK, ControlType
  <2>3. CASE kxo_open(u)
    <3>1. upc'[u] = "open" /\ \A v \in Users : upc[v] \notin ReleaseStage
      BY <2>2, <2>3 DEF kxo_open
    <3> QED
      BY <2>2, <3>1 DEF ReleaseAlone, ReleaseStage
  <2>4. CASE kxo_release(u)
    <3>1. CASE upc'[u] = "attr"
      BY <2>2, <3>1 DEF ReleaseAlone, ReleaseStage
    <3>2. CASE upc'[u] # "attr"
      <4>1. upc[u] = "open" /\ \A v \in Users \ {u} : upc[v] # "open"
        BY <2>2, <2>4, <3>2 DEF kxo_release
      <4>2. \A v \in Users \ {u} : upc[v] \notin ReleaseStage
        BY <4>1 DEF ReleaseAlone, ReleaseStage
      <4> QED
        BY <2>2, <4>1, <4>2 DEF ReleaseAlone, UserStage
    <3> QED
      BY <3>1, <3>2
  <2>5. CASE ReleaseStep(u)
    <3>1. CASE upc[u] \in ReleaseStage
      BY <2>2, <3>1 DEF ReleaseAlone, ReleaseStage
    <3>2. CASE upc[u] = "attr"
      <4>1. upc'[u] = "closed"
        BY <2>2, <2>5, <3>2 DEF ReleaseStep, ReleaseDelTimer, ReleaseKill, ReleaseFlush,
           ReleaseFlushed, ReleaseGame, ReleaseStart, ReleaseAttr
      <4> QED
        BY <2>2, <3>2, <4>1 DEF ReleaseAlone, ReleaseStage
    <3> QED
      BY <2>5, <3>1, <3>2 DEF ReleaseStep, ReleaseDelTimer, ReleaseKill, ReleaseFlush,
         ReleaseFlushed, ReleaseGame, ReleaseStart, ReleaseAttr, ReleaseStage
  <2> QED
    BY <2>1, <2>3, <2>4, <2>5
<1>5. CASE \E s \in Settings : kxo_state_store(s[1], s[2])
  BY <1>1, <1>5 DEF kxo_state_store, userVars
<1>6. CASE UNCHANGED vars
  BY <1>1, <1>6 DEF vars, userVars
<1> QED
  BY <1>2, <1>3, <1>4, <1>5, <1>6, NextSplit

(* A flush that waits for every instance of a work item still does so      *)
(* after the item starts, ends, or starts and ends in one step.            *)
LEMMA CoverStart ==
  ASSUME WorkType, ControlType, NEW u \in Users, FlushCovers(u),
         NEW w \in Work, NEW stage, Startable(w),
         pend' = pend \ {w}, pc' = [pc EXCEPT ![w] = stage], FlushStart(w)
  PROVE  FlushCovers(u)'
<1>1. Queued(w) \in flush[u]
  BY DEF FlushCovers, Startable
<1>2. flush'[u] = (flush[u] \ {Queued(w)}) \cup {Running(w)}
  BY <1>1 DEF FlushStart
<1>3. \A x \in Work : x # w => Queued(x) # Queued(w) /\ Queued(x) # Running(w)
                               /\ Running(x) # Queued(w)
  BY DEF Queued, Running
<1>4. \A x \in Work : x # w => pc'[x] = pc[x]
  BY DEF WorkType
<1> QED
  BY <1>2, <1>3, <1>4 DEF FlushCovers

(* The end of a running item: nothing else stops being awaited.            *)
LEMMA CoverEnd ==
  ASSUME WorkType, ControlType, NEW u \in Users, FlushCovers(u),
         NEW w \in Work, UNCHANGED pend, pc' = [pc EXCEPT ![w] = "idle"], FlushEnd(w)
  PROVE  FlushCovers(u)'
<1>1. flush'[u] = flush[u] \ {Running(w)}
  BY DEF FlushEnd
<1>2. \A x \in Work : Queued(x) # Running(w) /\ (x # w => Running(x) # Running(w))
  BY DEF Queued, Running
<1>3. pc'[w] = "idle" /\ \A x \in Work : x # w => pc'[x] = pc[x]
  BY DEF WorkType
<1> QED
  BY <1>1, <1>2, <1>3 DEF FlushCovers

(* An item that starts and ends in one step (bail out, nothing to draw).   *)
LEMMA CoverBoth ==
  ASSUME ControlType, NEW u \in Users, FlushCovers(u),
         NEW w \in Work, pend' = pend \ {w}, UNCHANGED pc, FlushBoth(w)
  PROVE  FlushCovers(u)'
<1>1. flush'[u] = flush[u] \ {Queued(w)}
  BY DEF FlushBoth
<1>2. \A x \in Work : Running(x) # Queued(w) /\ (x # w => Queued(x) # Queued(w))
  BY DEF Queued, Running
<1> QED
  BY <1>1, <1>2 DEF FlushCovers

(* A running item that moves on is still awaited.                          *)
LEMMA CoverKeep ==
  ASSUME WorkType, NEW u \in Users, FlushCovers(u),
         NEW w \in Work, NEW stage, pc[w] # "idle",
         pc' = [pc EXCEPT ![w] = stage], UNCHANGED <<pend, flush>>
  PROVE  FlushCovers(u)'
<1>1. Running(w) \in flush'[u]
  BY DEF FlushCovers
<1>2. \A x \in Work : x # w => pc'[x] = pc[x]
  BY DEF WorkType
<1> QED
  BY <1>1, <1>2 DEF FlushCovers

(* Every step of an AI handler keeps a flush complete.                     *)
LEMMA AiCovers ==
  ASSUME WorkType, ControlType, NEW u \in Users, FlushCovers(u),
         NEW k \in AiKind, NEW g \in Games, AiStep(k, g)
  PROVE  FlushCovers(u)'
<1> DEFINE w == <<k, g>>
<1>1. w \in Work
  BY DEF Work, AiKind
<1>2. CASE AiBail(k, g)
  BY <1>1, <1>2, CoverBoth DEF AiBail
<1>3. CASE AiBegin(k, g)
  BY <1>1, <1>3, CoverStart DEF AiBegin
<1>4. CASE AiLock(k, g)
  BY <1>1, <1>4, CoverKeep DEF AiLock
<1>5. CASE AiAgentLock(k, g)
  BY <1>1, <1>5, CoverKeep DEF AiAgentLock
<1>6. CASE AiSearch(k, g)
  BY <1>1, <1>6, CoverKeep DEF AiSearch
<1>7. CASE AiWrite(k, g)
  BY <1>1, <1>7, CoverKeep DEF AiWrite
<1>8. CASE AiAttr(k, g)
  BY <1>1, <1>8, CoverKeep DEF AiAttr
<1>9. CASE AiReady(k, g)
  BY <1>1, <1>9, CoverKeep DEF AiReady
<1>10. CASE AiUnlock(k, g)
  BY <1>1, <1>10, CoverEnd DEF AiUnlock
<1> QED
  BY <1>2, <1>3, <1>4, <1>5, <1>6, <1>7, <1>8, <1>9, <1>10 DEF AiStep

(* Every step of drawboard_work_func keeps a flush complete.               *)
LEMMA DrawCovers ==
  ASSUME WorkType, ControlType, NEW u \in Users, FlushCovers(u),
         NEW g \in Games, DrawStep(g)
  PROVE  FlushCovers(u)'
<1> DEFINE w == <<"draw", g>>
<1>1. w \in Work
  BY DEF Work
<1>2. CASE DrawSkip(g)
  BY <1>1, <1>2, CoverBoth DEF DrawSkip
<1>3. CASE DrawBegin(g)
  BY <1>1, <1>3, CoverStart DEF DrawBegin
<1>4. CASE DrawBusy(g)
  BY <1>1, <1>4, CoverEnd DEF DrawBusy
<1>5. CASE DrawLock(g)
  BY <1>1, <1>5, CoverKeep DEF DrawLock
<1>6. CASE DrawFifo(g)
  BY <1>1, <1>6, CoverEnd DEF DrawFifo
<1> QED
  BY <1>2, <1>3, <1>4, <1>5, <1>6 DEF DrawStep

(* Every step of finish_game_work_func keeps a flush complete.             *)
LEMMA FinishCovers ==
  ASSUME WorkType, ControlType, NEW u \in Users, FlushCovers(u),
         NEW g \in Games, FinishStep(g)
  PROVE  FlushCovers(u)'
<1> DEFINE w == <<"finish", g>>
<1>1. w \in Work
  BY DEF Work
<1>2. CASE FinishBegin(g)
  BY <1>1, <1>2, CoverStart DEF FinishBegin
<1>3. CASE FinishLock(g)
  BY <1>1, <1>3, CoverKeep DEF FinishLock
<1>4. CASE FinishReset(g)
  BY <1>1, <1>4, CoverKeep DEF FinishReset
<1>5. CASE FinishReady(g)
  BY <1>1, <1>5, CoverKeep DEF FinishReady
<1>6. CASE FinishLearn(g)
  BY <1>1, <1>6, CoverKeep DEF FinishLearn
<1>7. CASE FinishUnlock(g)
  BY <1>1, <1>7, CoverEnd DEF FinishUnlock
<1> QED
  BY <1>2, <1>3, <1>4, <1>5, <1>6, <1>7 DEF FinishStep

(* A step of a work item needs one that is queued or running.              *)
LEMMA WorkNeeded == WorkStep => ~WorkStopped
<1>1. ASSUME NEW k \in AiKind, NEW g \in Games, AiStep(k, g)
      PROVE  <<k, g>> \in pend \/ pc[<<k, g>>] # "idle"
  BY <1>1 DEF AiStep, AiBail, AiBegin, AiLock, AiAgentLock, AiSearch, AiWrite,
     AiAttr, AiReady, AiUnlock, Startable
<1>2. ASSUME NEW g \in Games, DrawStep(g)
      PROVE  <<"draw", g>> \in pend \/ pc[<<"draw", g>>] # "idle"
  BY <1>2 DEF DrawStep, DrawSkip, DrawBegin, DrawBusy, DrawLock, DrawFifo, Startable
<1>3. ASSUME NEW g \in Games, FinishStep(g)
      PROVE  <<"finish", g>> \in pend \/ pc[<<"finish", g>>] # "idle"
  BY <1>3 DEF FinishStep, FinishBegin, FinishLock, FinishReset, FinishReady,
     FinishLearn, FinishUnlock, Startable
<1>4. \A g \in Games : /\ \A k \in AiKind : <<k, g>> \in Work
                       /\ <<"draw", g>> \in Work /\ <<"finish", g>> \in Work
  BY DEF Work, AiKind
<1> QED
  BY <1>1, <1>2, <1>3, <1>4 DEF WorkStep, WorkStopped

(* What concerns one file only, when nothing it relies on changes.         *)
LEMMA StoppedSame ==
  ASSUME NEW u \in Users, StoppedFor(u), upc'[u] = upc[u],
         UNCHANGED <<armed, tpc, sched, twork, pend, pc>>, flush'[u] = flush[u]
  PROVE  StoppedFor(u)'
BY DEF StoppedFor, TimerStopped, TaskletStopped, FlushCovers, WorkStopped

(* Nothing is claimed of a file that is not past del_timer_sync.           *)
LEMMA StoppedNot ==
  ASSUME NEW u \in Users, upc'[u] \notin {"kill", "flush", "wait", "games"}
  PROVE  StoppedFor(u)'
BY DEF StoppedFor

(* The stages of the last close up to its own step.                        *)
LEMMA StoppedRelease ==
  ASSUME TypeOK, NEW u \in Users, StoppedFor(u), ReleaseStep(u)
  PROVE  StoppedFor(u)'
<1>1. upc \in [Users -> UserStage]
  BY DEF TypeOK, ControlType
<1>2. CASE ReleaseDelTimer(u)
  <2>1. upc'[u] = "kill"
    BY <1>1, <1>2 DEF ReleaseDelTimer
  <2>2. TimerStopped'
    BY <1>2 DEF ReleaseDelTimer, TimerStopped
  <2> QED
    BY <2>1, <2>2 DEF StoppedFor
<1>3. CASE ReleaseKill(u)
  <2>1. upc[u] = "kill" /\ upc'[u] = "flush"
    BY <1>1, <1>3 DEF ReleaseKill
  <2>2. TimerStopped' /\ TaskletStopped'
    BY <1>3, <2>1 DEF ReleaseKill, StoppedFor, TimerStopped, TaskletStopped,
       timerVars, taskletVars
  <2> QED
    BY <2>1, <2>2 DEF StoppedFor
<1>4. CASE ReleaseFlush(u)
  <2>1. upc[u] = "flush" /\ upc'[u] = "wait"
    BY <1>1, <1>4 DEF ReleaseFlush
  <2>2. TimerStopped' /\ TaskletStopped'
    BY <1>4, <2>1 DEF ReleaseFlush, StoppedFor, TimerStopped, TaskletStopped,
       timerVars, taskletVars
  <2>3. flush'[u] = {Queued(w) : w \in pend} \cup
                    {Running(w) : w \in {x \in Work : pc[x] # "idle"}}
    BY <1>4 DEF ReleaseFlush, TypeOK, ControlType
  <2>4. FlushCovers(u)'
    BY <1>4, <2>3 DEF ReleaseFlush, FlushCovers, workVars
  <2> QED
    BY <2>1, <2>2, <2>4 DEF StoppedFor
<1>5. CASE ReleaseFlushed(u)
  <2>1. upc[u] = "wait" /\ upc'[u] = "games" /\ flush[u] = {}
    BY <1>1, <1>5 DEF ReleaseFlushed
  <2>2. TimerStopped' /\ TaskletStopped'
    BY <1>5, <2>1 DEF ReleaseFlushed, StoppedFor, TimerStopped, TaskletStopped,
       timerVars, taskletVars
  <2>3. WorkStopped
    BY <2>1 DEF StoppedFor, FlushCovers, WorkStopped
  <2>4. WorkStopped'
    BY <1>5, <2>3 DEF ReleaseFlushed, WorkStopped, workVars
  <2> QED
    BY <2>1, <2>2, <2>4 DEF StoppedFor
<1>6. CASE ReleaseGame(u)
  BY <1>6, StoppedSame DEF ReleaseGame, workVars, timerVars, taskletVars
<1>7. CASE ReleaseStart(u) \/ ReleaseAttr(u)
  <2>1. upc'[u] \in {"attr", "closed"}
    BY <1>1, <1>7 DEF ReleaseStart, ReleaseAttr
  <2> QED
    BY <2>1, StoppedNot
<1> QED
  BY <1>2, <1>3, <1>4, <1>5, <1>6, <1>7 DEF ReleaseStep

(* What the last close has stopped stays stopped until it returns.         *)
LEMMA ReleaseStopsStep ==
  ASSUME OpenOverlap = FALSE PROVE OwnershipInv /\ [Next]_vars => ReleaseStops'
<1> SUFFICES ASSUME OwnershipInv, [Next]_vars, NEW v \in Users PROVE StoppedFor(v)'
  BY DEF ReleaseStops
<1>1. TypeOK /\ StoppedFor(v) /\ ReleaseAlone
  BY DEF OwnershipInv, ReleaseStops
<1>2. upc \in [Users -> UserStage]
  BY <1>1 DEF TypeOK, ControlType
<1>3. CASE WorkStep
  <2>1. UNCHANGED <<armed, tpc, sched, twork, upc>>
    BY <1>3, WorkFrame DEF timerVars, taskletVars, userVars
  <2>2. upc[v] # "games"
    BY <1>1, <1>3, WorkNeeded DEF StoppedFor
  <2>3. FlushCovers(v) => FlushCovers(v)'
    BY <1>1, <1>3, AiCovers, DrawCovers, FinishCovers DEF WorkStep, TypeOK
  <2> QED
    BY <1>1, <2>1, <2>2, <2>3 DEF StoppedFor, TimerStopped, TaskletStopped
<1>4. CASE TimerFire \/ TimerStep
  <2>1. ~TimerStopped /\ UNCHANGED upc
    BY <1>4 DEF TimerFire, TimerStep, TimerScan, TimerCheck, TimerSchedule, TimerRearm,
       TimerStopped, userVars
  <2> QED
    BY <1>1, <2>1, StoppedNot DEF StoppedFor
<1>5. CASE TaskletRun \/ TaskletGame
  <2>1. ~TaskletStopped /\ UNCHANGED <<armed, tpc, upc>>
    BY <1>5 DEF TaskletRun, TaskletGame, TaskletStopped, timerVars, userVars
  <2>2. upc[v] \notin {"flush", "wait", "games"}
    BY <1>1, <2>1 DEF StoppedFor
  <2> QED
    BY <1>1, <2>1, <2>2 DEF StoppedFor, TimerStopped
<1>6. CASE UserStep
  <2>1. PICK u \in Users : kxo_open(u) \/ kxo_release(u) \/ ReleaseStep(u)
    BY <1>6 DEF UserStep
  <2>2. upc' = [upc EXCEPT ![u] = upc'[u]]
    BY <1>1, <2>1, UserFrame
  <2>3. CASE kxo_open(u)
    <3>1. upc'[v] \notin ReleaseStage
      BY <1>2, <2>3 DEF kxo_open, ReleaseStage
    <3> QED
      BY <3>1, StoppedNot DEF ReleaseStage
  <2>4. CASE kxo_release(u)
    <3>1. upc[u] = "open" /\ upc'[u] \in {"attr", "deltimer"}
      BY <1>2, <2>4 DEF kxo_release
    <3>2. u # v => upc[v] \notin {"kill", "flush", "wait", "games"}
      BY <1>1, <3>1 DEF ReleaseAlone, ReleaseStage
    <3> QED
      BY <1>2, <2>2, <3>1, <3>2, StoppedNot
  <2>5. CASE ReleaseStep(u) /\ u = v
    BY <1>1, <2>5, StoppedRelease
  <2>6. CASE ReleaseAttr(u) /\ u # v
    <3>1. UNCHANGED <<armed, tpc, sched, twork, pend, pc, flush>>
      BY <2>6 DEF ReleaseAttr, workVars, timerVars, taskletVars
    <3> QED
      BY <1>1, <1>2, <2>2, <2>6, <3>1, StoppedSame
  <2>7. CASE ReleaseStep(u) /\ ~ReleaseAttr(u) /\ u # v
    <3>1. upc[u] \in ReleaseStage
      BY <2>7 DEF ReleaseStep, ReleaseDelTimer, ReleaseKill, ReleaseFlush,
         ReleaseFlushed, ReleaseGame, ReleaseStart, ReleaseStage
    <3>2. upc[v] \in {"closed", "attr"} /\ upc'[v] = upc[v]
      BY <1>1, <1>2, <2>2, <2>7, <3>1 DEF ReleaseAlone
    <3> QED
      BY <3>2, StoppedNot
  <2> QED
    BY <2>1, <2>3, <2>4, <2>5, <2>6, <2>7
<1>7. CASE \E s \in Settings : kxo_state_store(s[1], s[2])
  BY <1>1, <1>7, StoppedSame DEF kxo_state_store, workVars, timerVars, taskletVars,
     userVars
<1>8. CASE UNCHANGED vars
  BY <1>1, <1>8, StoppedSame DEF vars, workVars, timerVars, taskletVars, userVars
<1> QED
  BY <1>3, <1>4, <1>5, <1>6, <1>7, <1>8, NextSplit

(* kxo_init establishes the inductive invariant.                           *)
LEMMA OwnershipInit == Init => OwnershipInv
<1> SUFFICES ASSUME Init PROVE OwnershipInv
  OBVIOUS
<1>1. TypeOK
  BY TypeInit
<1>2. /\ pend = {} /\ \A w \in Work : pc[w] = "idle"
      /\ \A g \in Games : state[g] = GAME_READY
      /\ \A u \in Users : upc[u] = "closed"
      /\ tpc = "idle"
  BY DEF Init
<1>3. Ownership
  <2> SUFFICES ASSUME NEW g \in Games PROVE OneOwner(g)
    BY DEF Ownership
  <2>1. \A k \in AiKind : <<k, g>> \in Work
    BY DEF Work, AiKind
  <2>2. <<"finish", g>> \in Work /\ "one" \in AiKind /\ "two" \in AiKind
    BY DEF Work, AiKind
  <2> QED
    BY <1>2, <2>1, <2>2 DEF OneOwner, AiOwns, FinishOwns, GAME_BUSY, GAME_READY
<1> QED
  BY <1>1, <1>2, <1>3 DEF OwnershipInv, SoftirqSerial, CheckedReady, ReleaseAlone,
     ReleaseStops, StoppedFor, ReleaseStage

(* OwnershipInv is inductive.                                              *)
LEMMA OwnershipInvStep ==
  ASSUME OpenOverlap = FALSE, SoftirqOverlap = FALSE
  PROVE  OwnershipInv /\ [Next]_vars => OwnershipInv'
<1>1. OwnershipInv /\ [Next]_vars => TypeOK'
  BY TypeStep DEF OwnershipInv
<1>2. OwnershipInv /\ [Next]_vars => SoftirqSerial'
  BY SoftirqSerialStep
<1>3. OwnershipInv /\ [Next]_vars => ReleaseAlone' /\ ReleaseStops'
  BY ReleaseAloneStep, ReleaseStopsStep
<1> QED
  BY <1>1, <1>2, <1>3, OwnershipStep, CheckedReadyStep DEF OwnershipInv

(* No game ever has two owners, and state says who the owner is: for any   *)
(* number of games, files and board sizes, if no open overlaps the last    *)
(* close (main.c takes no lock in either) and timer handler and tasklet    *)
(* run on one processor.                                                   *)
THEOREM OwnershipSafe ==
  ASSUME OpenOverlap = FALSE, SoftirqOverlap = FALSE
  PROVE  Spec => []Ownership
<1>1. OwnershipInv => Ownership
  BY DEF OwnershipInv
<1> QED
  BY <1>1, OwnershipInit, OwnershipInvStep, PTL DEF Spec
=============================================================================
