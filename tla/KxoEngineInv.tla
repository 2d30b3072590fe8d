---------------------------- MODULE KxoEngineInv ----------------------------
(***************************************************************************)
(* The inductive invariants of the game engine, in three layers:           *)
(* OwnershipInv makes Ownership inductive, BoardsInv rests on it and adds  *)
(* what holds of the record, the mutex and the work items of every game,   *)
(* EngineInv adds what the last close leaves behind.                       *)
(***************************************************************************)
EXTENDS KxoEngineProps

(* The timer handler and the tasklet take turns.                           *)
SoftirqSerial == tpc # "idle" => twork = {}

(* The game whose board the timer handler checks is still ready.           *)
CheckedReady == tpc = "check" => state[ti] = GAME_READY

(* While the last close executes every other file is closed.               *)
ReleaseAlone ==
  \A u, v \in Users :
    upc[u] \in ReleaseStage /\ u # v => upc[v] \in {"closed", "attr"}

(* What the last close has stopped so far stays stopped.                   *)
TimerStopped == ~armed /\ tpc = "idle"
TaskletStopped == ~sched /\ twork = {}
WorkStopped == \A w \in Work : w \notin pend /\ pc[w] = "idle"
FlushCovers(u) ==
  \A w \in Work : /\ w \in pend => Queued(w) \in flush[u]
                  /\ pc[w] # "idle" => Running(w) \in flush[u]
StoppedFor(u) ==
  /\ upc[u] \in {"kill", "flush", "wait", "games"} => TimerStopped
  /\ upc[u] \in {"flush", "wait", "games"} => TaskletStopped
  /\ upc[u] = "wait" => FlushCovers(u)
  /\ upc[u] = "games" => WorkStopped
ReleaseStops == \A u \in Users : StoppedFor(u)

OwnershipInv ==
  /\ TypeOK
  /\ Ownership
  /\ SoftirqSerial /\ CheckedReady
  /\ ReleaseAlone /\ ReleaseStops

-----------------------------------------------------------------------------
Kind == {"one", "two", "draw", "finish"}

(* A work item that is past mutex_lock(&game->lock) holds the mutex.       *)
Holds(w) == pc[w] \notin {"idle", "lock"}

(* The mutex of a game is held by exactly one of its work items, or by     *)
(* none.                                                                   *)
MutexHeld(g) ==
  /\ g \in locked <=> \E x \in Kind : Holds(<<x, g>>)
  /\ \A x, y \in Kind : Holds(<<x, g>>) /\ Holds(<<y, g>>) => x = y

(* SnapshotFresh for one work item.                                        *)
SnapshotTrue(k, g) ==
  LET w == <<k, g>> IN
  /\ pc[w] \in {"lock", "agent", "search", "write", "attr"} =>
       snap[w].steps = xo[g].steps /\ snap[w].alg = xo[g].alg
  /\ pc[w] \in {"lock", "agent", "search", "write"} =>
       snap[w].table = xo[g].table

(* The work item that is to move is the one of the player whose turn it is, *)
(* from the moment it is queued until it stores the attribute word.        *)
OwnersTurn(k, g) ==
  <<k, g>> \in pend \/ pc[<<k, g>>] \in {"lock", "agent", "search", "write", "attr"} =>
    turn[g] = IF k = "one" THEN "O" ELSE "X"

(* A move that is about to be written goes to an empty cell.               *)
MoveOpen(k, g) ==
  LET w == <<k, g>> IN
  /\ pc[w] \in {"lock", "agent"} => snap[w].move = NoMove
  /\ pc[w] = "write" /\ snap[w].move # NoMove =>
       snap[w].table[snap[w].move] = CELL_EMPTY

(* The record of a game, as it will be once a handler that is between its  *)
(* two stores has made the second.                                         *)
RecordOf(g) == IF MidWrite(g) THEN [xo[g] EXCEPT !.steps = @ + 1] ELSE xo[g]

(* O has marked the even steps of a record, X the odd ones.                *)
Balanced(r) ==
  /\ Cardinality(Play!Marks(r.table, CELL_O)) = (r.steps + 1) \div 2
  /\ Cardinality(Play!Marks(r.table, CELL_X)) = r.steps \div 2
Recorded(g) == Replayable(RecordOf(g)) /\ Balanced(RecordOf(g))
TurnTrue(g) == turn[g] = IF xo[g].steps % 2 = 0 THEN "O" ELSE "X"

(* FinishTrue for one game, and a game that is being finished is over.     *)
ResultTrue(g) ==
  /\ <<"finish", g>> \in pend =>
       fw[g] = check_win(xo[g].table) /\ fw[g] # CELL_EMPTY
  /\ pc[<<"finish", g>>] \in {"lock", "reset"} =>
       fin[g].win = check_win(xo[g].table) /\ fin[g].win # CELL_EMPTY

(* The episode belongs to the record, except while finish_game_work_func   *)
(* has cleared one and not yet the other.                                  *)
EpisodeTrue(g) ==
  IF pc[<<"finish", g>>] \in {"ready", "learn"} THEN xo[g].steps = 0
  ELSE episode[g] = RlSteps(RecordOf(g))

GameInv(g) ==
  /\ MutexHeld(g)
  /\ \A k \in AiKind : SnapshotTrue(k, g) /\ OwnersTurn(k, g) /\ MoveOpen(k, g)
  /\ Recorded(g) /\ TurnTrue(g)
  /\ ResultTrue(g) /\ EpisodeTrue(g)

BoardsInv == OwnershipInv /\ \A g \in Games : GameInv(g)

-----------------------------------------------------------------------------
(* A held agent mutex belongs to a handler that searches with it.          *)
AgentHeld ==
  \A who \in agentLocked : \E k \in AiKind, g \in Games :
    pc[<<k, g>>] = "search" /\ AgentOf(k, snap[<<k, g>>].alg) = who

(* kxo_stop_work is raised exactly while the last close executes.          *)
StopRaised == stop <=> \E u \in Users : upc[u] \in ReleaseStage

(* The games that the last close has looked at are ready.                  *)
HandedBack ==
  \A u \in Users, g \in Games :
    upc[u] = "games" /\ g < rgi[u] => state[g] = GAME_READY

(* With no file open and no close in progress the engine is at rest.       *)
AtRest ==
  Closed => /\ TimerStopped /\ TaskletStopped /\ WorkStopped
            /\ \A g \in Games : state[g] = GAME_READY

EngineInv == BoardsInv /\ AgentHeld /\ StopRaised /\ HandedBack /\ AtRest
=============================================================================
