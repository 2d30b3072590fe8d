------------------------------ MODULE KxoEngine ------------------------------
(***************************************************************************)
(* The game engine of the kernel module (src/main.c): the 100 ms timer     *)
(* that scans the games, the tasklet that dispatches them, the work items  *)
(* of every game on the workqueue "kxod", and open, close and sysfs writes *)
(* from user space, which start and stop all of it.                        *)
(*                                                                         *)
(* A step is one handler's stretch of code between two points at which     *)
(* another processor can see or change what it works on: a lock taken or   *)
(* released, an unlocked read or write of state, turn, table or attr.      *)
(***************************************************************************)
EXTENDS KxoBoard

CONSTANTS
  N_GAMES,        (* number of games (9 in the program)                    *)
  Algs,           (* AI_ALG fields that get_random_u32 may give a new game *)
  Users,          (* files that may hold /dev/kxo open                     *)
  Settings,       (* <<display, end>> pairs written to sysfs kxo_state     *)
  OpenOverlap,    (* may an open run while the last close is executing?    *)
  SoftirqOverlap  (* may timer handler and tasklet run on two CPUs at once? *)

Games == 0 .. N_GAMES - 1
AttrChar == {"0", "1", "other"}

ASSUME EngineAssumption ==
  /\ N_GAMES \in Nat \ {0}
  /\ Algs # {} /\ Algs \subseteq AllAlgs
  /\ Settings \subseteq AttrChar \X AttrChar
  /\ OpenOverlap \in BOOLEAN
  /\ SoftirqOverlap \in BOOLEAN

(* enum ai_game_state *)
GAME_BUSY == "busy"
GAME_READY == "ready"
GAME_DONE == "done"

AiKind == {"one", "two"}
Work == {"one", "two", "draw", "finish"} \X Games
AiWork == AiKind \X Games

CellOf(k) == IF k = "one" THEN CELL_O ELSE CELL_X
NextTurn(k) == IF k = "one" THEN "X" ELSE "O"
AgentOf(k, alg) == IF k = "one" THEN AgentO(alg) ELSE AgentX(alg)

NoMove == -1
AnyMove(move) == TRUE              \* MUTANT: the answer -1 is not looked at
Played(move) == move # NoMove

(* struct xo_table; the attribute word is its fields steps and alg (the id *)
(* field is the game itself and never changes).                            *)
XoTable == [table : Table, moves : [Cells -> Cells], steps : Nat, alg : AllAlgs]
EmptyMoves == [s \in Cells |-> 0]
NewGame(a) == [table |-> EmptyTable, moves |-> EmptyMoves,
               steps |-> 0, alg |-> a]

(* Local variables of an AI handler: what it read of the game before it    *)
(* took the lock, and the move its agent chose.                            *)
Snapshot == [table : Table, steps : Nat, alg : AllAlgs,
             move : Cells \cup {NoMove}]
NoSnapshot == [table |-> EmptyTable, steps |-> 0, alg |-> 0, move |-> NoMove]

Winner == {CELL_EMPTY, CELL_O, CELL_X, CELL_D}
FinishLocal == [win : Winner, display : AttrChar, end : AttrChar]
NoFinish == [win |-> CELL_EMPTY, display |-> "0", end |-> "0"]

(* The stages of a work item that has started.                             *)
AiStage == {"lock", "agent", "search", "write", "attr", "ready", "unlock"}
DrawStage == {"lock", "fifo"}
FinishStage == {"lock", "reset", "ready", "learn", "unlock"}
Stage == {"idle"} \cup AiStage \cup DrawStage \cup FinishStage
StageOf(kind) == CASE kind \in AiKind -> AiStage
                   [] kind = "draw" -> DrawStage
                   [] kind = "finish" -> FinishStage

ReleaseStage == {"deltimer", "kill", "flush", "wait", "games"}
UserStage == {"closed", "open", "attr"} \cup ReleaseStage

VARIABLES
  (* struct ai_game games[] *)
  xo,          (* xo_tlb of every game                                     *)
  turn, state,
  locked,      (* games whose mutex is held                                *)
  episode,     (* steps of the running game recorded in episode_moves      *)
  (* workqueue *)
  pend,        (* work items queued and not yet started                    *)
  pc,          (* where a started work item is                             *)
  snap,        (* locals of the AI handlers                                *)
  fw,          (* finish_works[].win                                       *)
  fin,         (* locals of finish_game_work_func                          *)
  agentLocked, (* agents whose mutex (mcts_lock, negamax_lock) is held     *)
  (* timer and tasklet *)
  armed,       (* the game timer is pending                                *)
  tpc, ti, unfini,   (* timer handler: stage, loop index, result mask      *)
  sched, tdata,      (* tasklet: scheduled, data word                      *)
  twork,       (* tasklet handler: games still to dispatch                 *)
  (* control *)
  display, end, stop,
  upc, rgi,    (* open/release of every user file: stage, loop index       *)
  flush        (* instances of work items a flush_workqueue waits for      *)

gameVars == <<xo, turn, state, locked, episode>>
workVars == <<pend, pc, snap, fw, fin, agentLocked>>
timerVars == <<armed, tpc, ti, unfini>>
taskletVars == <<sched, tdata, twork>>
attrVars == <<display, end>>
userVars == <<stop, upc, rgi>>
vars == <<gameVars, workVars, timerVars, taskletVars, attrVars, userVars, flush>>

kxo_shutting_down == stop \/ end # "0"

-----------------------------------------------------------------------------
(* The workqueue: a work item that is already pending is not queued again, *)
(* never runs on two workers at once, and is no longer pending once it has *)
(* started.  A flush waits for the instances pending or running when it    *)
(* began.                                                                  *)
Startable(w) == w \in pend /\ pc[w] = "idle"
Queued(w) == <<w, "queued">>
Running(w) == <<w, "running">>

FlushStart(w) ==
  flush' = [u \in Users |->
              IF Queued(w) \in flush[u]
              THEN (flush[u] \ {Queued(w)}) \cup {Running(w)} ELSE flush[u]]
FlushEnd(w) == flush' = [u \in Users |-> flush[u] \ {Running(w)}]
FlushBoth(w) == flush' = [u \in Users |-> flush[u] \ {Queued(w)}]

-----------------------------------------------------------------------------
(* ai_one_work_func and ai_two_work_func, for k = "one" (player O) and     *)
(* k = "two" (player X).  attr and table are read before game->lock.       *)
AiBail(k, g) ==
  LET w == <<k, g>> IN
  /\ Startable(w) /\ kxo_shutting_down
  /\ pend' = pend \ {w}
  /\ state' = [state EXCEPT ![g] = GAME_READY]
  /\ FlushBoth(w)
  /\ UNCHANGED <<xo, turn, locked, episode, pc, snap, fw, fin,
                 agentLocked, timerVars, taskletVars, attrVars, userVars>>

AiBegin(k, g) ==
  LET w == <<k, g>> IN
  /\ Startable(w) /\ ~kxo_shutting_down
  /\ pend' = pend \ {w}
  /\ pc' = [pc EXCEPT ![w] = "lock"]
  /\ snap' = [snap EXCEPT ![w] =
                [table |-> xo[g].table, steps |-> xo[g].steps,
                 alg |-> xo[g].alg, move |-> NoMove]]
  /\ FlushStart(w)
  /\ UNCHANGED <<gameVars, fw, fin, agentLocked, timerVars, taskletVars,
                 attrVars, userVars>>

(* mutex_lock(&game->lock), then the first test of play_agent_move.        *)
AiLock(k, g) ==
  LET w == <<k, g>> IN
  /\ pc[w] = "lock" /\ g \notin locked
  /\ locked' = locked \cup {g}
  /\ pc' = [pc EXCEPT ![w] =
              IF kxo_shutting_down THEN "write"
              ELSE IF AgentOf(k, snap[w].alg) = XO_AI_RL THEN "search"
              ELSE "agent"]
  /\ UNCHANGED <<xo, turn, state, episode, pend, snap, fw, fin,
                 agentLocked, timerVars, taskletVars, attrVars, userVars, flush>>

AiAgentLockLeaks(k, g) ==                 \* MUTANT: not released when shutting down
  LET w == <<k, g>>  who == AgentOf(k, snap[w].alg) IN
  /\ pc[w] = "agent" /\ who \notin agentLocked
  /\ agentLocked' = agentLocked \cup {who}
  /\ pc' = [pc EXCEPT ![w] = IF kxo_shutting_down THEN "write" ELSE "search"]
  /\ UNCHANGED <<gameVars, pend, snap, fw, fin, timerVars, taskletVars,
                 attrVars, userVars, flush>>

(* mcts_lock or negamax_lock is taken and the shutdown test is repeated.   *)
AiAgentLock(k, g) ==
  LET w == <<k, g>>  who == AgentOf(k, snap[w].alg) IN
  /\ pc[w] = "agent" /\ who \notin agentLocked
  /\ IF kxo_shutting_down
     THEN pc' = [pc EXCEPT ![w] = "write"] /\ UNCHANGED agentLocked
     ELSE pc' = [pc EXCEPT ![w] = "search"]
          /\ agentLocked' = agentLocked \cup {who}
  /\ UNCHANGED <<gameVars, pend, snap, fw, fin, timerVars, taskletVars,
                 attrVars, userVars, flush>>

(* What an agent may answer for a board.  mcts and negamax answer -1 on a  *)
(* finished board, play_rl plays as long as a cell is empty.  mcts gives   *)
(* up with -1 when it is stopped or a node cannot be allocated.            *)
Answers(who, table) ==
  LET free == for_each_empty_grid(table)
      over == check_win(table) # CELL_EMPTY
  IN  CASE who = XO_AI_RL -> IF free = {} THEN {NoMove} ELSE free
        [] who = XO_AI_NEGAMAX -> IF over THEN {NoMove} ELSE free
        [] who = XO_AI_MCTS -> IF over THEN {NoMove} ELSE free \cup {NoMove}

AiSearch(k, g) ==
  LET w == <<k, g>>  who == AgentOf(k, snap[w].alg) IN
  /\ pc[w] = "search"
  /\ \E move \in Answers(who, snap[w].table) :
       snap' = [snap EXCEPT ![w].move = move]
  /\ agentLocked' = agentLocked \ {who}
  /\ pc' = [pc EXCEPT ![w] = "write"]
  /\ UNCHANGED <<gameVars, pend, fw, fin, timerVars, taskletVars, attrVars,
                 userVars, flush>>

(* The new board is computed from the snapshot, the record from the game.  *)
(* An RL agent also records the position it reached in the episode.        *)
AiWrite(k, g) ==
  LET w == <<k, g>>  s == snap[w] IN
  /\ pc[w] = "write"
  /\ IF Played(s.move)
     THEN /\ pc' = [pc EXCEPT ![w] = "attr"]
          /\ xo' = [xo EXCEPT
                      ![g].table = VAL_SET_CELL(s.table, s.move, CellOf(k)),
                      ![g].moves[s.steps] = s.move]
          /\ episode' = [episode EXCEPT ![g] =
                           IF AgentOf(k, s.alg) = XO_AI_RL
                           THEN @ \cup {s.steps} ELSE @]
     ELSE /\ pc' = [pc EXCEPT ![w] = "ready"]
          /\ UNCHANGED <<xo, episode>>
  /\ UNCHANGED <<turn, state, locked, pend, snap, fw, fin, agentLocked,
                 timerVars, taskletVars, attrVars, userVars, flush>>

(* The whole attribute word is stored back from the snapshot.              *)
AiAttr(k, g) ==
  LET w == <<k, g>>  s == snap[w] IN
  /\ pc[w] = "attr"
  /\ xo' = [xo EXCEPT ![g].steps = s.steps + 1, ![g].alg = s.alg]
  /\ turn' = [turn EXCEPT ![g] = NextTurn(k)]
  /\ pc' = [pc EXCEPT ![w] = "ready"]
  /\ UNCHANGED <<state, locked, episode, pend, snap, fw, fin,
                 agentLocked, timerVars, taskletVars, attrVars, userVars, flush>>

AiReady(k, g) ==
  LET w == <<k, g>> IN
  /\ pc[w] = "ready"
  /\ state' = [state EXCEPT ![g] = GAME_READY]
  /\ pc' = [pc EXCEPT ![w] = "unlock"]
  /\ UNCHANGED <<xo, turn, locked, episode, pend, snap, fw, fin,
                 agentLocked, timerVars, taskletVars, attrVars, userVars, flush>>

AiUnlockForgotten(k, g) ==                \* MUTANT: no mutex_unlock(&game->lock)
  LET w == <<k, g>> IN
  /\ pc[w] = "unlock"
  /\ pc' = [pc EXCEPT ![w] = "idle"]
  /\ snap' = [snap EXCEPT ![w] = NoSnapshot]
  /\ FlushEnd(w)
  /\ UNCHANGED <<gameVars, pend, fw, fin, agentLocked, timerVars,
                 taskletVars, attrVars, userVars>>

AiUnlock(k, g) ==
  LET w == <<k, g>> IN
  /\ pc[w] = "unlock"
  /\ locked' = locked \ {g}
  /\ pc' = [pc EXCEPT ![w] = "idle"]
  /\ snap' = [snap EXCEPT ![w] = NoSnapshot]
  /\ FlushEnd(w)
  /\ UNCHANGED <<xo, turn, state, episode, pend, fw, fin, agentLocked,
                 timerVars, taskletVars, attrVars, userVars>>

-----------------------------------------------------------------------------
(* drawboard_work_func *)
DrawSkip(g) ==
  LET w == <<"draw", g>> IN
  /\ Startable(w) /\ display = "0"
  /\ pend' = pend \ {w}
  /\ FlushBoth(w)
  /\ UNCHANGED <<gameVars, pc, snap, fw, fin, agentLocked, timerVars,
                 taskletVars, attrVars, userVars>>

DrawBegin(g) ==
  LET w == <<"draw", g>> IN
  /\ Startable(w) /\ display # "0"
  /\ pend' = pend \ {w}
  /\ pc' = [pc EXCEPT ![w] = "lock"]
  /\ FlushStart(w)
  /\ UNCHANGED <<gameVars, snap, fw, fin, agentLocked, timerVars, taskletVars,
                 attrVars, userVars>>

(* A game whose AI is computing is not drawn; the record of any other one  *)
(* is copied to the fifo (produce_board, a component of its own).          *)
DrawBusy(g) ==
  LET w == <<"draw", g>> IN
  /\ pc[w] = "lock" /\ g \notin locked /\ state[g] = GAME_BUSY
  /\ pc' = [pc EXCEPT ![w] = "idle"]
  /\ FlushEnd(w)
  /\ UNCHANGED <<gameVars, pend, snap, fw, fin, agentLocked, timerVars,
                 taskletVars, attrVars, userVars>>

DrawUnlocked(g) ==                        \* MUTANT: the record is read without the lock
  LET w == <<"draw", g>> IN
  /\ pc[w] = "lock" /\ state[g] # GAME_BUSY
  /\ pc' = [pc EXCEPT ![w] = "fifo"]
  /\ UNCHANGED <<gameVars, pend, snap, fw, fin, agentLocked, timerVars,
                 taskletVars, attrVars, userVars, flush>>

DrawLock(g) ==
  LET w == <<"draw", g>> IN
  /\ pc[w] = "lock" /\ g \notin locked /\ state[g] # GAME_BUSY
  /\ locked' = locked \cup {g}
  /\ pc' = [pc EXCEPT ![w] = "fifo"]
  /\ UNCHANGED <<xo, turn, state, episode, pend, snap, fw, fin,
                 agentLocked, timerVars, taskletVars, attrVars, userVars, flush>>

DrawFifo(g) ==
  LET w == <<"draw", g>> IN
  /\ pc[w] = "fifo"
  /\ locked' = locked \ {g}
  /\ pc' = [pc EXCEPT ![w] = "idle"]
  /\ FlushEnd(w)
  /\ UNCHANGED <<xo, turn, state, episode, pend, snap, fw, fin, agentLocked,
                 timerVars, taskletVars, attrVars, userVars>>

-----------------------------------------------------------------------------
(* finish_game_work_func: display and end are read before game->lock.  The *)
(* record goes to the fifo at the start of stage "reset" if display is 1.  *)
FinishBegin(g) ==
  LET w == <<"finish", g>> IN
  /\ Startable(w)
  /\ pend' = pend \ {w}
  /\ pc' = [pc EXCEPT ![w] = "lock"]
  /\ fin' = [fin EXCEPT ![g] =
               [win |-> fw[g], display |-> display, end |-> end]]
  /\ FlushStart(w)
  /\ UNCHANGED <<gameVars, snap, fw, agentLocked, timerVars, taskletVars,
                 attrVars, userVars>>

FinishLock(g) ==
  LET w == <<"finish", g>> IN
  /\ pc[w] = "lock" /\ g \notin locked
  /\ locked' = locked \cup {g}
  /\ pc' = [pc EXCEPT ![w] = "reset"]
  /\ UNCHANGED <<xo, turn, state, episode, pend, snap, fw, fin,
                 agentLocked, timerVars, taskletVars, attrVars, userVars, flush>>

FinishResetKeepsTurn(g) ==                \* MUTANT: turn is not set back to O
  LET w == <<"finish", g>> IN
  /\ pc[w] = "reset" /\ fin[g].end = "0"
  /\ \E a \in Algs : xo' = [xo EXCEPT ![g] = NewGame(a)]
  /\ pc' = [pc EXCEPT ![w] = "ready"]
  /\ UNCHANGED <<turn, state, locked, episode, pend, snap, fw, fin, agentLocked,
                 timerVars, taskletVars, attrVars, userVars, flush>>

FinishReset(g) ==
  LET w == <<"finish", g>> IN
  /\ pc[w] = "reset"
  /\ IF fin[g].end = "0"
     THEN /\ \E a \in Algs : xo' = [xo EXCEPT ![g] = NewGame(a)]
          /\ turn' = [turn EXCEPT ![g] = "O"]
          /\ pc' = [pc EXCEPT ![w] = "ready"]
     ELSE /\ pc' = [pc EXCEPT ![w] = "unlock"]
          /\ UNCHANGED <<xo, turn>>
  /\ UNCHANGED <<state, locked, episode, pend, snap, fw, fin, agentLocked,
                 timerVars, taskletVars, attrVars, userVars, flush>>

FinishStaysDone(g) ==                     \* MUTANT: the game is not handed back
  LET w == <<"finish", g>> IN
  /\ pc[w] = "ready"
  /\ pc' = [pc EXCEPT ![w] = "learn"]
  /\ UNCHANGED <<gameVars, pend, snap, fw, fin, agentLocked, timerVars,
                 taskletVars, attrVars, userVars, flush>>

FinishReady(g) ==
  LET w == <<"finish", g>> IN
  /\ pc[w] = "ready"
  /\ state' = [state EXCEPT ![g] = GAME_READY]
  /\ pc' = [pc EXCEPT ![w] = "learn"]
  /\ UNCHANGED <<xo, turn, locked, episode, pend, snap, fw, fin,
                 agentLocked, timerVars, taskletVars, attrVars, userVars, flush>>

FinishKeepsEpisode(g) ==                  \* MUTANT: no clear_episode
  LET w == <<"finish", g>> IN
  /\ pc[w] = "learn"
  /\ pc' = [pc EXCEPT ![w] = "unlock"]
  /\ UNCHANGED <<gameVars, pend, snap, fw, fin, agentLocked, timerVars,
                 taskletVars, attrVars, userVars, flush>>

(* update_state_value (a component of its own) and clear_episode.          *)
FinishLearn(g) ==
  LET w == <<"finish", g>> IN
  /\ pc[w] = "learn"
  /\ episode' = [episode EXCEPT ![g] = {}]
  /\ pc' = [pc EXCEPT ![w] = "unlock"]
  /\ UNCHANGED <<xo, turn, state, locked, pend, snap, fw, fin,
                 agentLocked, timerVars, taskletVars, attrVars, userVars, flush>>

FinishUnlock(g) ==
  LET w == <<"finish", g>> IN
  /\ pc[w] = "unlock"
  /\ locked' = locked \ {g}
  /\ pc' = [pc EXCEPT ![w] = "idle"]
  /\ fin' = [fin EXCEPT ![g] = NoFinish]
  /\ FlushEnd(w)
  /\ UNCHANGED <<xo, turn, state, episode, pend, snap, fw, agentLocked,
                 timerVars, taskletVars, attrVars, userVars>>

-----------------------------------------------------------------------------
(* timer_handler scans the games in order; it takes no lock.               *)
TimerFire ==
  /\ armed /\ tpc = "idle"
  /\ SoftirqOverlap \/ twork = {}
  /\ armed' = FALSE
  /\ tpc' = "scan" /\ ti' = 0 /\ unfini' = {}
  /\ UNCHANGED <<gameVars, workVars, taskletVars, attrVars, userVars, flush>>

(* Reads the state of the game.                                            *)
TimerScan ==
  /\ tpc = "scan" /\ ti < N_GAMES
  /\ IF state[ti] = GAME_READY
     THEN tpc' = "check" /\ UNCHANGED <<ti, unfini>>
     ELSE /\ ti' = ti + 1
          /\ unfini' = IF state[ti] = GAME_BUSY THEN unfini \cup {ti} ELSE unfini
          /\ UNCHANGED tpc
  /\ UNCHANGED <<armed, gameVars, workVars, taskletVars, attrVars, userVars, flush>>

TimerLeavesReady ==                       \* MUTANT: GAME_DONE is not written
  LET win == check_win(xo[ti].table) IN
  /\ tpc = "check"
  /\ tpc' = "scan" /\ ti' = ti + 1
  /\ IF win = CELL_EMPTY
     THEN unfini' = unfini \cup {ti} /\ UNCHANGED <<fw, pend>>
     ELSE /\ fw' = [fw EXCEPT ![ti] = win]
          /\ pend' = pend \cup {<<"finish", ti>>}
          /\ UNCHANGED unfini
  /\ UNCHANGED <<armed, gameVars, pc, snap, fin, agentLocked, taskletVars,
                 attrVars, userVars, flush>>

TimerKeepsWin ==                          \* MUTANT: an earlier result is kept
  LET win == check_win(xo[ti].table) IN
  /\ tpc = "check"
  /\ tpc' = "scan" /\ ti' = ti + 1
  /\ IF win = CELL_EMPTY
     THEN unfini' = unfini \cup {ti} /\ UNCHANGED <<state, fw, pend>>
     ELSE /\ state' = [state EXCEPT ![ti] = GAME_DONE]
          /\ fw' = [fw EXCEPT ![ti] = IF @ = CELL_EMPTY THEN win ELSE @]
          /\ pend' = pend \cup {<<"finish", ti>>}
          /\ UNCHANGED unfini
  /\ UNCHANGED <<armed, xo, turn, locked, episode, pc, snap, fin,
                 agentLocked, taskletVars, attrVars, userVars, flush>>

(* Runs check_win on the board and, if the game is over, hands it to       *)
(* finish_game_work_func.                                                  *)
TimerCheck ==
  LET win == check_win(xo[ti].table) IN
  /\ tpc = "check"
  /\ tpc' = "scan" /\ ti' = ti + 1
  /\ IF win = CELL_EMPTY
     THEN unfini' = unfini \cup {ti} /\ UNCHANGED <<state, fw, pend>>
     ELSE /\ state' = [state EXCEPT ![ti] = GAME_DONE]
          /\ fw' = [fw EXCEPT ![ti] = win]
          /\ pend' = pend \cup {<<"finish", ti>>}
          /\ UNCHANGED unfini
  /\ UNCHANGED <<armed, xo, turn, locked, episode, pc, snap, fin,
                 agentLocked, taskletVars, attrVars, userVars, flush>>

(* The end of the handler.  Unless the module is shutting down, unfinished *)
(* games go to the tasklet and the timer is re-armed; if not, the shutdown *)
(* test is repeated, and a finished game alone re-arms the timer.          *)
TimerSchedule ==
  /\ tpc = "scan" /\ ti = N_GAMES
  /\ IF unfini # {} /\ ~kxo_shutting_down
     THEN /\ sched' = TRUE /\ tdata' = unfini /\ armed' = TRUE
          /\ tpc' = "idle" /\ ti' = 0 /\ unfini' = {}
     ELSE /\ tpc' = "rearm"
          /\ UNCHANGED <<armed, sched, tdata, ti, unfini>>
  /\ UNCHANGED <<gameVars, workVars, twork, attrVars, userVars, flush>>

TimerNotRearmed ==                        \* MUTANT: finished games do not re-arm it
  /\ tpc = "rearm"
  /\ tpc' = "idle" /\ ti' = 0 /\ unfini' = {}
  /\ UNCHANGED <<armed, gameVars, workVars, taskletVars, attrVars, userVars, flush>>

TimerRearm ==
  /\ tpc = "rearm"
  /\ armed' = (armed \/ (~kxo_shutting_down /\ unfini # Games))
  /\ tpc' = "idle" /\ ti' = 0 /\ unfini' = {}
  /\ UNCHANGED <<gameVars, workVars, taskletVars, attrVars, userVars, flush>>

TimerStep == TimerScan \/ TimerCheck \/ TimerSchedule \/ TimerRearm

(* game_tasklet_func: lowest game first; a ready game is marked busy and   *)
(* the work item of the player to move is queued; every game is drawn.     *)
TaskletRun ==
  /\ sched /\ twork = {}
  /\ SoftirqOverlap \/ tpc = "idle"
  /\ sched' = FALSE /\ twork' = tdata /\ tdata' = {}
  /\ UNCHANGED <<gameVars, workVars, timerVars, attrVars, userVars, flush>>

NotBusy(g) == state[g] # GAME_BUSY        \* MUTANT: also a game that is done
Dispatchable(g) == state[g] = GAME_READY

TaskletGame ==
  \E g \in twork :
    /\ \A h \in twork : g <= h
    /\ twork' = twork \ {g}
    /\ IF Dispatchable(g)
       THEN /\ state' = [state EXCEPT ![g] = GAME_BUSY]
            /\ pend' = pend \cup
                 {<<IF turn[g] = "O" THEN "one" ELSE "two", g>>, <<"draw", g>>}
       ELSE pend' = pend \cup {<<"draw", g>>} /\ UNCHANGED state
    /\ UNCHANGED <<xo, turn, locked, episode, pc, snap, fw, fin,
                   agentLocked, timerVars, sched, tdata, attrVars, userVars, flush>>

-----------------------------------------------------------------------------
(* kxo_open and kxo_release; open_cnt is the number of files that are open. *)
kxo_open(u) ==
  /\ upc[u] = "closed"
  /\ OpenOverlap \/ \A v \in Users : upc[v] \notin ReleaseStage
  /\ upc' = [upc EXCEPT ![u] = "open"]
  /\ armed' = IF \E v \in Users : upc[v] = "open" THEN armed ELSE TRUE
  /\ UNCHANGED <<gameVars, workVars, tpc, ti, unfini, taskletVars, attrVars,
                 stop, rgi, flush>>

(* The last close raises kxo_stop_work; every close ends in ReleaseAttr.   *)
kxo_release(u) ==
  /\ upc[u] = "open"
  /\ IF \E v \in Users \ {u} : upc[v] = "open"
     THEN upc' = [upc EXCEPT ![u] = "attr"] /\ UNCHANGED stop
     ELSE upc' = [upc EXCEPT ![u] = "deltimer"] /\ stop' = TRUE
  /\ UNCHANGED <<gameVars, workVars, timerVars, taskletVars, attrVars, rgi, flush>>

ReleaseDelTimerAsync(u) ==                \* MUTANT: del_timer, which does not wait
  /\ upc[u] = "deltimer"
  /\ armed' = FALSE
  /\ upc' = [upc EXCEPT ![u] = "kill"]
  /\ UNCHANGED <<gameVars, workVars, tpc, ti, unfini, taskletVars, attrVars,
                 stop, rgi, flush>>

(* del_timer_sync waits for a running handler and cancels what it re-armed. *)
ReleaseDelTimer(u) ==
  /\ upc[u] = "deltimer" /\ tpc = "idle"
  /\ armed' = FALSE
  /\ upc' = [upc EXCEPT ![u] = "kill"]
  /\ UNCHANGED <<gameVars, workVars, tpc, ti, unfini, taskletVars, attrVars,
                 stop, rgi, flush>>

(* tasklet_kill waits until a scheduled tasklet has run to its end.        *)
ReleaseKill(u) ==
  /\ upc[u] = "kill" /\ ~sched /\ twork = {}
  /\ upc' = [upc EXCEPT ![u] = "flush"]
  /\ UNCHANGED <<gameVars, workVars, timerVars, taskletVars, attrVars, stop,
                 rgi, flush>>

ReleaseFlush(u) ==
  /\ upc[u] = "flush"
  /\ flush' = [flush EXCEPT ![u] =
                 {Queued(w) : w \in pend} \cup
                 {Running(w) : w \in {x \in Work : pc[x] # "idle"}}]
  /\ upc' = [upc EXCEPT ![u] = "wait"]
  /\ UNCHANGED <<gameVars, workVars, timerVars, taskletVars, attrVars, stop, rgi>>

ReleaseNotFlushed(u) ==                   \* MUTANT: no flush_workqueue
  /\ upc[u] = "wait"
  /\ upc' = [upc EXCEPT ![u] = "games"]
  /\ rgi' = [rgi EXCEPT ![u] = 0]
  /\ UNCHANGED <<gameVars, workVars, timerVars, taskletVars, attrVars, stop, flush>>

ReleaseFlushed(u) ==
  /\ upc[u] = "wait" /\ flush[u] = {}
  /\ upc' = [upc EXCEPT ![u] = "games"]
  /\ rgi' = [rgi EXCEPT ![u] = 0]
  /\ UNCHANGED <<gameVars, workVars, timerVars, taskletVars, attrVars, stop, flush>>

(* A game left in GAME_DONE is handed back to the timer, under its lock.   *)
ReleaseGame(u) ==
  LET g == rgi[u] IN
  /\ upc[u] = "games" /\ g < N_GAMES /\ g \notin locked
  /\ state' = [state EXCEPT ![g] = IF @ = GAME_DONE THEN GAME_READY ELSE @]
  /\ rgi' = [rgi EXCEPT ![u] = g + 1]
  /\ UNCHANGED <<xo, turn, locked, episode, workVars, timerVars,
                 taskletVars, attrVars, stop, upc, flush>>

ReleaseStart(u) ==
  /\ upc[u] = "games" /\ rgi[u] = N_GAMES
  /\ stop' = FALSE
  /\ upc' = [upc EXCEPT ![u] = "attr"]
  /\ rgi' = [rgi EXCEPT ![u] = 0]
  /\ UNCHANGED <<gameVars, workVars, timerVars, taskletVars, attrVars, flush>>

ReleaseAttr(u) ==
  /\ upc[u] = "attr"
  /\ end' = "0" /\ display' = "1"
  /\ upc' = [upc EXCEPT ![u] = "closed"]
  /\ UNCHANGED <<gameVars, workVars, timerVars, taskletVars, stop, rgi, flush>>

(* kxo_state_store, by whoever can write the sysfs file.                   *)
kxo_state_store(d, e) ==
  /\ display' = d /\ end' = e
  /\ UNCHANGED <<gameVars, workVars, timerVars, taskletVars, userVars, flush>>

-----------------------------------------------------------------------------
(* kxo_init *)
Init ==
  /\ \E alg \in [Games -> Algs] : xo = [g \in Games |-> NewGame(alg[g])]
  /\ turn = [g \in Games |-> "O"]
  /\ state = [g \in Games |-> GAME_READY]
  /\ locked = {}
  /\ episode = [g \in Games |-> {}]
  /\ pend = {}
  /\ pc = [w \in Work |-> "idle"]
  /\ snap = [w \in AiWork |-> NoSnapshot]
  /\ fw = [g \in Games |-> CELL_EMPTY]
  /\ fin = [g \in Games |-> NoFinish]
  /\ agentLocked = {}
  /\ armed = FALSE /\ tpc = "idle" /\ ti = 0 /\ unfini = {}
  /\ sched = FALSE /\ tdata = {} /\ twork = {}
  /\ display = "1" /\ end = "0" /\ stop = FALSE
  /\ upc = [u \in Users |-> "closed"]
  /\ rgi = [u \in Users |-> 0]
  /\ flush = [u \in Users |-> {}]

AiStep(k, g) ==
  \/ AiBail(k, g) \/ AiBegin(k, g) \/ AiLock(k, g) \/ AiAgentLock(k, g)
  \/ AiSearch(k, g) \/ AiWrite(k, g) \/ AiAttr(k, g) \/ AiReady(k, g)
  \/ AiUnlock(k, g)

DrawStep(g) ==
  DrawSkip(g) \/ DrawBegin(g) \/ DrawBusy(g) \/ DrawLock(g) \/ DrawFifo(g)

FinishStep(g) ==
  \/ FinishBegin(g) \/ FinishLock(g) \/ FinishReset(g) \/ FinishReady(g)
  \/ FinishLearn(g) \/ FinishUnlock(g)

ReleaseStep(u) ==
  \/ ReleaseDelTimer(u) \/ ReleaseKill(u) \/ ReleaseFlush(u)
  \/ ReleaseFlushed(u) \/ ReleaseGame(u) \/ ReleaseStart(u) \/ ReleaseAttr(u)

Next ==
  \/ \E g \in Games :
       \/ \E k \in AiKind : AiStep(k, g)
       \/ DrawStep(g)
       \/ FinishStep(g)
  \/ TimerFire \/ TimerStep
  \/ TaskletRun \/ TaskletGame
  \/ \E u \in Users : kxo_open(u) \/ kxo_release(u) \/ ReleaseStep(u)
  \/ \E s \in Settings : kxo_state_store(s[1], s[2])

Spec == Init /\ [][Next]_vars
=============================================================================
