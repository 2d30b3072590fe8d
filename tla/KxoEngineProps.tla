--------------------------- MODULE KxoEngineProps ---------------------------
(***************************************************************************)
(* What makes the game engine correct: who owns a game, what the unlocked  *)
(* reads of the handlers are worth, what readers of /dev/kxo are shown,    *)
(* and what open and close start and stop.                                 *)
(***************************************************************************)
EXTENDS KxoEngine

GamesType ==
  /\ xo \in [Games -> XoTable]
  /\ turn \in [Games -> {"O", "X"}]
  /\ state \in [Games -> {GAME_BUSY, GAME_READY, GAME_DONE}]
  /\ locked \subseteq Games
  /\ episode \in [Games -> SUBSET Nat]
WorkType ==
  /\ pend \subseteq Work
  /\ pc \in [Work -> Stage]
  /\ \A w \in Work : pc[w] \in {"idle"} \cup StageOf(w[1])
  /\ snap \in [AiWork -> Snapshot]
  /\ fw \in [Games -> Winner]
  /\ fin \in [Games -> FinishLocal]
  /\ agentLocked \subseteq Agent
SoftirqType ==
  /\ armed \in BOOLEAN
  /\ tpc \in {"idle", "scan", "check", "rearm"}
  /\ ti \in 0 .. N_GAMES /\ (tpc = "check" => ti \in Games)
  /\ unfini \subseteq Games
  /\ sched \in BOOLEAN
  /\ tdata \subseteq Games /\ twork \subseteq Games
ControlType ==
  /\ display \in AttrChar /\ end \in AttrChar
  /\ stop \in BOOLEAN
  /\ upc \in [Users -> UserStage]
  /\ rgi \in [Users -> 0 .. N_GAMES]
  /\ flush \in [Users -> SUBSET (Work \X {"queued", "running"})]

(* Every variable has its type; a work item is only ever in a stage of its *)
(* own handler, and the timer handler never looks past the last game.      *)
TypeOK == GamesType /\ WorkType /\ SoftirqType /\ ControlType

-----------------------------------------------------------------------------
(* A work item owns its game from the moment it is queued until it writes  *)
(* the state that hands the game back.                                     *)
AiOwns(k, g) ==
  \/ <<k, g>> \in pend
  \/ pc[<<k, g>>] \in {"lock", "agent", "search", "write", "attr", "ready"}
FinishOwns(g) ==
  \/ <<"finish", g>> \in pend
  \/ pc[<<"finish", g>>] \in {"lock", "reset", "ready"}

(* A game is GAME_BUSY exactly while one AI work item owns it, it is       *)
(* GAME_DONE while its finish work owns it, and no item is queued again    *)
(* while it is still the owner: state is the hand-over protocol between    *)
(* timer, tasklet and work items, which take no common lock.               *)
OneOwner(g) ==
  /\ state[g] = GAME_BUSY <=> AiOwns("one", g) \/ AiOwns("two", g)
  /\ ~(AiOwns("one", g) /\ AiOwns("two", g))
  /\ FinishOwns(g) => state[g] = GAME_DONE
  /\ \A k \in AiKind : <<k, g>> \in pend => pc[<<k, g>>] \in {"idle", "unlock"}
  /\ <<"finish", g>> \in pend => pc[<<"finish", g>>] \in {"idle", "learn", "unlock"}
Ownership == \A g \in Games : OneOwner(g)

(* The attr and table that an AI handler reads before it waits for         *)
(* game->lock are still those of the game when it writes the move: the     *)
(* whole words it stores back destroy nobody's update.                     *)
SnapshotFresh ==
  \A k \in AiKind, g \in Games :
    LET w == <<k, g>> IN
    /\ pc[w] \in {"lock", "agent", "search", "write", "attr"} =>
         snap[w].steps = xo[g].steps /\ snap[w].alg = xo[g].alg
    /\ pc[w] \in {"lock", "agent", "search", "write"} =>
         snap[w].table = xo[g].table

(* A record that can be replayed: the move list up to steps names the      *)
(* marked cells, each once, O on even and X on odd steps.                  *)
Replayable(r) ==
  \A c \in Cells :
    LET at == {s \in 0 .. r.steps - 1 : r.moves[s] = c} IN
    IF r.table[c] = CELL_EMPTY THEN at = {}
    ELSE \E s \in at : /\ at = {s}
                       /\ r.table[c] = IF s % 2 = 0 THEN CELL_O ELSE CELL_X

MidWrite(g) == \E k \in AiKind : pc[<<k, g>>] = "attr"

(* Table, move list, step count and turn of a game agree, except between   *)
(* the stores of a single AI handler.                                      *)
BoardConsistent ==
  \A g \in Games :
    ~MidWrite(g) =>
      /\ Replayable(xo[g])
      /\ turn[g] = IF xo[g].steps % 2 = 0 THEN "O" ELSE "X"

(* No reader of /dev/kxo is ever handed a half-written record: whenever a  *)
(* work item is about to copy the record of a game, it can be replayed.    *)
ShownReplayable ==
  \A g \in Games :
    pc[<<"draw", g>>] = "fifo" \/
    (pc[<<"finish", g>>] = "reset" /\ fin[g].display = "1") =>
      Replayable(xo[g])

(* The result the timer handler leaves in finish_works[] without a lock is *)
(* still the result of the board that finish_game_work_func clears and     *)
(* rewards.                                                                *)
FinishTrue ==
  \A g \in Games :
    /\ <<"finish", g>> \in pend =>
         fw[g] = check_win(xo[g].table) /\ fw[g] # CELL_EMPTY
    /\ pc[<<"finish", g>>] \in {"lock", "reset"} =>
         fin[g].win = check_win(xo[g].table)

(* The steps of a record that an RL agent played.                          *)
RlSteps(r) ==
  {s \in 0 .. r.steps - 1 :
     XO_AI_RL = IF s % 2 = 0 THEN AgentO(r.alg) ELSE AgentX(r.alg)}

(* The episode of a game names exactly the steps its RL agents played in   *)
(* the game that is running, so that update_state_value never learns from  *)
(* the positions of an earlier one.                                        *)
EpisodeMatches ==
  \A g \in Games :
    ~MidWrite(g) /\ pc[<<"finish", g>>] \notin {"ready", "learn"} =>
      episode[g] = RlSteps(xo[g])

(* Between the return of the last close and the next open nothing of the   *)
(* engine is pending or running, the stop flag is down again, no mutex is  *)
(* held, and every game can be continued by the next session.              *)
Closed == \A u \in Users : upc[u] \in {"closed", "attr"}
Quiescent ==
  Closed =>
    /\ ~armed /\ tpc = "idle" /\ ~sched /\ twork = {}
    /\ pend = {} /\ \A w \in Work : pc[w] = "idle"
    /\ locked = {} /\ agentLocked = {} /\ ~stop
    /\ \A g \in Games : state[g] = GAME_READY

(* The boards alone follow the rules of the game, turn by turn.            *)
Play == INSTANCE KxoPlay WITH board <- [g \in Games |-> xo[g].table]
PlaySpec == Play!PlaySpec

-----------------------------------------------------------------------------
(* Fairness.  Timers expire, softirqs and queued work run, code that has   *)
(* started proceeds, and a kernel mutex is handed to its waiters in turn   *)
(* (strong fairness on acquiring one); a pending tasklet is not overtaken  *)
(* by the timer for ever.  Nobody has to open, close or write sysfs.       *)
Fairness ==
  /\ WF_vars(TimerFire) /\ WF_vars(TimerStep)
  /\ SF_vars(TaskletRun) /\ WF_vars(TaskletGame)
  /\ \A k \in AiKind, g \in Games :
       WF_vars(AiStep(k, g)) /\ SF_vars(AiLock(k, g) \/ AiAgentLock(k, g))
  /\ \A g \in Games :
       /\ WF_vars(DrawStep(g)) /\ SF_vars(DrawBusy(g) \/ DrawLock(g))
       /\ WF_vars(FinishStep(g)) /\ SF_vars(FinishLock(g))
  /\ \A u \in Users : WF_vars(ReleaseStep(u))

FairSpec == Spec /\ Fairness

(* Every close returns, although it waits for the timer handler, the       *)
(* tasklet and all queued work.                                            *)
ReleaseReturns ==
  \A u \in Users : upc[u] \in ReleaseStage \cup {"attr"} ~> upc[u] = "closed"

(* A dispatched game always comes back from its AI.                        *)
BusyEnds == \A g \in Games : state[g] = GAME_BUSY ~> state[g] # GAME_BUSY

(* While a file stays open and nobody pauses the games through sysfs, a    *)
(* game that the timer finds idle again and again is played to its end     *)
(* again and again.                                                        *)
SomeOpen == \E u \in Users : upc[u] = "open"
TimerFinds(g) == tpc = "scan" /\ ti = g /\ state[g] # GAME_BUSY
GamesGoOn ==
  \A g \in Games :
    (<>[]SomeOpen /\ [](end = "0") /\ []<>TimerFinds(g)) =>
      []<>(pc[<<"finish", g>>] = "ready")

(* Unless somebody writes end, an open file keeps the timer going, in      *)
(* every session.                                                          *)
TimerGoesOn ==
  (<>[]SomeOpen /\ [](end = "0")) => []<>(tpc = "scan")

-----------------------------------------------------------------------------
(* What the documentation says of the program and the code does not do.    *)

(* "AI agents competing on a 4x4 board where 3-in-a-row wins" (README.md): *)
(* once a board has a line nobody marks another cell.                      *)
NoMoveAfterWin ==
  [][\A g \in Games, c \in Cells :
       xo[g].table[c] = CELL_EMPTY /\ xo'[g].table[c] # CELL_EMPTY =>
         check_win(xo[g].table) = CELL_EMPTY]_vars

(* "Timer-driven periodic game evaluation" (README.md): while a file is    *)
(* open, no close is executing and end is '0', the timer is pending or its *)
(* handler is running.                                                     *)
TimerAlive ==
  SomeOpen /\ end = "0" /\ (\A u \in Users : upc[u] \in {"open", "closed"}) =>
    armed \/ tpc # "idle"
=============================================================================
