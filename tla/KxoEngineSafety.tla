--------------------------- MODULE KxoEngineSafety ---------------------------
(***************************************************************************)
(* The records of the games, for every number of games, cells, lines and   *)
(* files: an AI handler that read a game before it took the mutex writes   *)
(* back what is still true, the record it leaves can be replayed, readers  *)
(* are shown no half-written one, and the result and the episode that a    *)
(* game is finished with are those of the game that was played.            *)
(*                                                                         *)
(* BoardsInv is inductive.  Every part of it concerns one game only, so    *)
(* the proof looks at the steps on one game: GameFrame says that all other *)
(* steps leave what GameInv mentions.  The second half is what follows:    *)
(* the safety properties of the games, that the engine implements KxoPlay, *)
(* and what the last close leaves behind.                                  *)
(***************************************************************************)
EXTENDS KxoEngineOwnership, FiniteSetTheorems

(* The marks of one player are finitely many.                              *)
LEMMA MarksFinite ==
  ASSUME NEW table \in Table, NEW cell
  PROVE  /\ Play!Marks(table, cell) \subseteq Cells
         /\ IsFiniteSet(Cells) /\ Cardinality(Cells) = N_GRIDS
         /\ IsFiniteSet(Play!Marks(table, cell))
         /\ Cardinality(Play!Marks(table, cell)) \in Nat
<1>1. Play!Marks(table, cell) \subseteq Cells
  BY DEF Play!Marks, Play!Cells, Cells
<1>2. IsFiniteSet(Cells) /\ Cardinality(Cells) = N_GRIDS
  BY FS_Interval, BoardAssumption DEF Cells
<1> QED
  BY <1>1, <1>2, FS_Subset, FS_CardinalityType

(* A record with an empty cell has a step left in its move list.           *)
LEMMA StepsLeft ==
  ASSUME NEW r \in XoTable, Balanced(r), NEW c \in Cells, r.table[c] = CELL_EMPTY
  PROVE  r.steps \in Cells
<1> DEFINE O == Play!Marks(r.table, CELL_O)
           X == Play!Marks(r.table, CELL_X)
<1>1. r.table \in Table /\ r.steps \in Nat
  BY DEF XoTable
<1>2. /\ IsFiniteSet(O) /\ IsFiniteSet(X) /\ IsFiniteSet(Cells)
      /\ Cardinality(Cells) = N_GRIDS
  BY <1>1, MarksFinite
<1>3. O \cap X = {}
  BY DEF Play!Marks, Play!Cells, CELL_O, CELL_X
<1>4. O \cup X \subseteq Cells \ {c}
  <2>1. O \subseteq Cells /\ X \subseteq Cells
    BY <1>1, MarksFinite
  <2>2. c \notin O /\ c \notin X
    BY DEF Play!Marks, CELL_O, CELL_X, CELL_EMPTY
  <2> QED
    BY <2>1, <2>2
<1>5. Cardinality(O \cup X) = Cardinality(O) + Cardinality(X)
  <2>1. Cardinality(O \cup X) = Cardinality(O) + Cardinality(X) - Cardinality({})
    BY <1>2, <1>3, FS_Union
  <2> HIDE DEF O, X
  <2> QED
    BY <2>1, <1>2, FS_EmptySet, FS_CardinalityType
<1>6. Cardinality(O \cup X) <= N_GRIDS - 1
  <2>1. IsFiniteSet(Cells \ {c}) /\ Cardinality(Cells \ {c}) = N_GRIDS - 1
    BY <1>2, FS_RemoveElement
  <2>2. O \cup X \in SUBSET (Cells \ {c})
    BY <1>4
  <2> QED
    BY <2>1, <2>2, FS_Subset
<1>7. Cardinality(O) + Cardinality(X) = r.steps
  BY <1>1 DEF Balanced
<1> QED
  BY <1>1, <1>5, <1>6, <1>7, BoardAssumption DEF Cells

(* Marking an empty cell for the player to move, and naming it in the move *)
(* list, leaves a record that can be replayed.                             *)
LEMMA MarkStep ==
  ASSUME NEW r \in XoTable, Replayable(r), Balanced(r),
         NEW c \in Cells, r.table[c] = CELL_EMPTY,
         NEW k \in AiKind, k = "one" <=> r.steps % 2 = 0,
         NEW q, q.table = VAL_SET_CELL(r.table, c, CellOf(k)),
         q.moves = [r.moves EXCEPT ![r.steps] = c], q.steps = r.steps + 1
  PROVE  Replayable(q) /\ Balanced(q)
<1>1. r.table \in Table /\ r.moves \in [Cells -> Cells] /\ r.steps \in Nat
  BY DEF XoTable
<1>2. r.steps \in Cells
  BY StepsLeft
<1>3. q.moves[r.steps] = c /\ \A s \in 0 .. r.steps - 1 : q.moves[s] = r.moves[s]
  <2>1. q.moves[r.steps] = c /\ \A s \in Cells : s # r.steps => q.moves[s] = r.moves[s]
    BY <1>1, <1>2
  <2>2. \A s \in 0 .. r.steps - 1 : s \in Cells /\ s # r.steps
    BY <1>1, <1>2, BoardAssumption DEF Cells
  <2> QED
    BY <2>1, <2>2
<1>4. q.table[c] = CellOf(k) /\ \A d \in Cells : d # c => q.table[d] = r.table[d]
  BY <1>1 DEF VAL_SET_CELL, Table
<1>5. Replayable(q)
  <2> SUFFICES ASSUME NEW d \in Cells
               PROVE  LET at == {s \in 0 .. q.steps - 1 : q.moves[s] = d} IN
                      IF q.table[d] = CELL_EMPTY THEN at = {}
                      ELSE \E s \in at : /\ at = {s}
                                         /\ q.table[d] = IF s % 2 = 0 THEN CELL_O ELSE CELL_X
    BY DEF Replayable
  <2> DEFINE was == {s \in 0 .. r.steps - 1 : r.moves[s] = d}
             at == {s \in 0 .. q.steps - 1 : q.moves[s] = d}
  <2>1. IF r.table[d] = CELL_EMPTY THEN was = {}
        ELSE \E s \in was : /\ was = {s}
                            /\ r.table[d] = IF s % 2 = 0 THEN CELL_O ELSE CELL_X
    BY DEF Replayable
  <2>2. 0 .. q.steps - 1 = (0 .. r.steps - 1) \cup {r.steps}
    BY <1>1
  <2>3. CASE d = c
    <3>1. was = {}
      BY <2>1, <2>3
    <3>2. at = {r.steps}
      BY <1>3, <2>2, <2>3, <3>1
    <3>3. q.table[d] = IF r.steps % 2 = 0 THEN CELL_O ELSE CELL_X
      BY <1>4, <2>3 DEF CellOf, AiKind
    <3>4. q.table[d] # CELL_EMPTY
      BY <3>3 DEF CELL_O, CELL_X, CELL_EMPTY
    <3> QED
      BY <3>2, <3>3, <3>4
  <2>4. CASE d # c
    <3>1. at = was
      BY <1>3, <2>2, <2>4
    <3> QED
      BY <1>4, <2>1, <2>4, <3>1
  <2> QED
    BY <2>3, <2>4
<1>6. Balanced(q)
  <2> DEFINE O == Play!Marks(r.table, CELL_O)
             X == Play!Marks(r.table, CELL_X)
  <2>1. /\ IsFiniteSet(O) /\ IsFiniteSet(X)
        /\ Cardinality(O) = (r.steps + 1) \div 2 /\ Cardinality(X) = r.steps \div 2
    BY <1>1, MarksFinite DEF Balanced
  <2>2. c \notin O /\ c \notin X
    BY DEF Play!Marks, CELL_O, CELL_X, CELL_EMPTY
  <2>3. CASE k = "one"
    <3>1. Play!Marks(q.table, CELL_O) = O \cup {c} /\ Play!Marks(q.table, CELL_X) = X
      BY <1>4, <2>3 DEF Play!Marks, Play!Cells, Cells, CellOf, CELL_O, CELL_X, CELL_EMPTY
    <3>2. Cardinality(O \cup {c}) = (r.steps + 1) \div 2 + 1
      BY <2>1, <2>2, FS_AddElement
    <3>3. r.steps % 2 = 0
      BY <2>3
    <3>4. (r.steps + 1) \div 2 + 1 = (r.steps + 2) \div 2 /\ r.steps \div 2 = (r.steps + 1) \div 2
      BY <1>1, <3>3
    <3> QED
      BY <1>1, <2>1, <3>1, <3>2, <3>4 DEF Balanced
  <2>4. CASE k = "two"
    <3>1. Play!Marks(q.table, CELL_X) = X \cup {c} /\ Play!Marks(q.table, CELL_O) = O
      BY <1>4, <2>4 DEF Play!Marks, Play!Cells, Cells, CellOf, CELL_O, CELL_X, CELL_EMPTY
    <3>2. Cardinality(X \cup {c}) = r.steps \div 2 + 1
      BY <2>1, <2>2, FS_AddElement
    <3>3. r.steps % 2 # 0
      BY <2>4
    <3>4. r.steps \div 2 + 1 = (r.steps + 1) \div 2 /\ (r.steps + 1) \div 2 = (r.steps + 2) \div 2
      BY <1>1, <3>3
    <3> QED
      BY <1>1, <2>1, <3>1, <3>2, <3>4 DEF Balanced
  <2> QED
    BY <2>3, <2>4 DEF AiKind
<1> QED
  BY <1>5, <1>6

(* A cleared record can be replayed: it has no step and no mark.           *)
LEMMA NewGameRecorded ==
  ASSUME NEW a \in AllAlgs
  PROVE  Replayable(NewGame(a)) /\ Balanced(NewGame(a)) /\ RlSteps(NewGame(a)) = {}
<1>1. NewGame(a).steps = 0 /\ NewGame(a).table = EmptyTable
  BY DEF NewGame
<1>2. Replayable(NewGame(a))
  BY <1>1 DEF Replayable, EmptyTable
<1>3. Play!Marks(EmptyTable, CELL_O) = {} /\ Play!Marks(EmptyTable, CELL_X) = {}
  BY DEF Play!Marks, Play!Cells, Cells, EmptyTable, CELL_EMPTY, CELL_O, CELL_X
<1>4. Balanced(NewGame(a))
  BY <1>1, <1>3, FS_EmptySet DEF Balanced
<1>5. RlSteps(NewGame(a)) = {}
  BY <1>1 DEF RlSteps
<1> QED
  BY <1>2, <1>4, <1>5

-----------------------------------------------------------------------------
(* A step that leaves everything GameInv says of a game.                   *)
GameSame(h) ==
  /\ xo'[h] = xo[h] /\ turn'[h] = turn[h] /\ episode'[h] = episode[h]
  /\ fw'[h] = fw[h] /\ fin'[h] = fin[h]
  /\ h \in locked' <=> h \in locked
  /\ \A x \in Kind : Untouched(x, h)
  /\ \A k \in AiKind : snap'[<<k, h>>] = snap[<<k, h>>]

(* What GameInv says of a game survives a step that leaves it as it is.    *)
LEMMA GameSameInv ==
  ASSUME NEW h \in Games, GameInv(h), GameSame(h)
  PROVE  GameInv(h)'
<1>1. /\ \A x \in Kind : /\ pc'[<<x, h>>] = pc[<<x, h>>]
                         /\ <<x, h>> \in pend' <=> <<x, h>> \in pend
      /\ \A k \in AiKind : /\ k \in Kind
                           /\ snap'[<<k, h>>] = snap[<<k, h>>]
      /\ "finish" \in Kind
  BY DEF GameSame, Untouched, Kind, AiKind
<1>2. xo'[h] = xo[h] /\ turn'[h] = turn[h] /\ episode'[h] = episode[h]
  BY DEF GameSame
<1>3. MutexHeld(h)'
  BY <1>1 DEF GameInv, MutexHeld, Holds, GameSame
<1>4. ASSUME NEW k \in AiKind
      PROVE  SnapshotTrue(k, h)' /\ OwnersTurn(k, h)' /\ MoveOpen(k, h)'
  BY <1>1, <1>2 DEF GameInv, SnapshotTrue, OwnersTurn, MoveOpen
<1>5. RecordOf(h)' = RecordOf(h)
  BY <1>1, <1>2 DEF RecordOf, MidWrite
<1>6. Recorded(h)' /\ TurnTrue(h)'
  BY <1>2, <1>5 DEF GameInv, Recorded, Replayable, Balanced, TurnTrue
<1>7. ResultTrue(h)'
  BY <1>1, <1>2 DEF GameInv, ResultTrue, GameSame
<1>8. EpisodeTrue(h)'
  BY <1>1, <1>2, <1>5 DEF GameInv, EpisodeTrue, RlSteps
<1> QED
  BY <1>3, <1>4, <1>6, <1>7, <1>8 DEF GameInv

(* The work items of one game leave every other game.                      *)
LEMMA AiFrame ==
  ASSUME TypeOK, NEW k \in AiKind, NEW g \in Games, AiStep(k, g),
         NEW h \in Games, h # g
  PROVE  GameSame(h)
<1> DEFINE w == <<k, g>>
<1>1. /\ k \in Kind /\ w \in AiWork /\ w \in Work
      /\ \A x \in Kind : <<x, h>> # w /\ <<x, h>> \in Work
      /\ \A j \in AiKind : <<j, h>> # w /\ <<j, h>> \in AiWork
  BY DEF Kind, AiKind, Work, AiWork
<1>2. pc' = [pc EXCEPT ![w] = pc'[w]] /\ (pend' = pend \/ pend' = pend \ {w})
  <2>1. pc \in [Work -> Stage]
    BY DEF TypeOK, WorkType
  <2>2. pc' = pc \/ \E stage : pc' = [pc EXCEPT ![w] = stage]
    BY DEF AiStep, AiBail, AiBegin, AiLock, AiAgentLock, AiSearch, AiWrite,
       AiAttr, AiReady, AiUnlock
  <2>3. pend' = pend \/ pend' = pend \ {w}
    BY DEF AiStep, AiBail, AiBegin, AiLock, AiAgentLock, AiSearch, AiWrite,
       AiAttr, AiReady, AiUnlock
  <2> QED
    BY <1>1, <2>1, <2>2, <2>3
<1>3. \A x \in Kind : Untouched(x, h)
  <2>1. pc \in [Work -> Stage]
    BY DEF TypeOK, WorkType
  <2> QED
    BY <1>1, <1>2, <2>1 DEF Untouched
<1>4. \A j \in AiKind : snap'[<<j, h>>] = snap[<<j, h>>]
  <2>1. snap \in [AiWork -> Snapshot]
    BY DEF TypeOK, WorkType
  <2>2. snap' = snap \/ \E s : snap' = [snap EXCEPT ![w] = s]
    BY DEF AiStep, AiBail, AiBegin, AiLock, AiAgentLock, AiSearch, AiWrite,
       AiAttr, AiReady, AiUnlock
  <2> QED
    BY <1>1, <2>1, <2>2
<1>5. xo'[h] = xo[h] /\ turn'[h] = turn[h] /\ episode'[h] = episode[h]
  <2>1. xo \in [Games -> XoTable] /\ turn \in [Games -> {"O", "X"}]
        /\ episode \in [Games -> SUBSET Nat]
    BY DEF TypeOK, GamesType
  <2>2. CASE AiWrite(k, g)
    BY <2>1, <2>2 DEF AiWrite
  <2>3. CASE AiAttr(k, g)
    BY <2>1, <2>3 DEF AiAttr
  <2>4. CASE ~AiWrite(k, g) /\ ~AiAttr(k, g)
    BY <2>4 DEF AiStep, AiBail, AiBegin, AiLock, AiAgentLock, AiSearch, AiReady,
       AiUnlock, gameVars
  <2> QED
    BY <2>2, <2>3, <2>4
<1>6. fw' = fw /\ fin' = fin /\ (h \in locked' <=> h \in locked)
  BY DEF AiStep, AiBail, AiBegin, AiLock, AiAgentLock, AiSearch, AiWrite,
     AiAttr, AiReady, AiUnlock, gameVars
<1> QED
  BY <1>3, <1>4, <1>5, <1>6 DEF GameSame

(* Another game's draw work leaves this game as it is.                     *)
LEMMA DrawFrame ==
  ASSUME TypeOK, NEW g \in Games, DrawStep(g), NEW h \in Games, h # g
  PROVE  GameSame(h)
<1> DEFINE w == <<"draw", g>>
<1>1. w \in Work /\ \A x \in Kind : <<x, h>> # w /\ <<x, h>> \in Work
  BY DEF Kind, Work
<1>2. \A x \in Kind : Untouched(x, h)
  <2>1. pc \in [Work -> Stage]
    BY DEF TypeOK, WorkType
  <2>2. pc' = pc \/ \E stage : pc' = [pc EXCEPT ![w] = stage]
    BY DEF DrawStep, DrawSkip, DrawBegin, DrawBusy, DrawLock, DrawFifo
  <2>3. pend' = pend \/ pend' = pend \ {w}
    BY DEF DrawStep, DrawSkip, DrawBegin, DrawBusy, DrawLock, DrawFifo
  <2> QED
    BY <1>1, <2>1, <2>2, <2>3 DEF Untouched
<1>3. UNCHANGED <<xo, turn, episode, fw, fin, snap>> /\ (h \in locked' <=> h \in locked)
  BY DEF DrawStep, DrawSkip, DrawBegin, DrawBusy, DrawLock, DrawFifo, gameVars
<1> QED
  BY <1>2, <1>3 DEF GameSame

(* Another game's finish work leaves this game as it is.                   *)
LEMMA FinishFrame ==
  ASSUME TypeOK, NEW g \in Games, FinishStep(g), NEW h \in Games, h # g
  PROVE  GameSame(h)
<1> DEFINE w == <<"finish", g>>
<1>1. w \in Work /\ \A x \in Kind : <<x, h>> # w /\ <<x, h>> \in Work
  BY DEF Kind, Work
<1>2. \A x \in Kind : Untouched(x, h)
  <2>1. pc \in [Work -> Stage]
    BY DEF TypeOK, WorkType
  <2>2. \E stage : pc' = [pc EXCEPT ![w] = stage]
    BY DEF FinishStep, FinishBegin, FinishLock, FinishReset, FinishReady, FinishLearn,
       FinishUnlock
  <2>3. pend' = pend \/ pend' = pend \ {w}
    BY DEF FinishStep, FinishBegin, FinishLock, FinishReset, FinishReady, FinishLearn,
       FinishUnlock
  <2> QED
    BY <1>1, <2>1, <2>2, <2>3 DEF Untouched
<1>3. UNCHANGED <<fw, snap>> /\ (h \in locked' <=> h \in locked)
  BY DEF FinishStep, FinishBegin, FinishLock, FinishReset, FinishReady, FinishLearn,
     FinishUnlock, gameVars
<1>4. xo'[h] = xo[h] /\ turn'[h] = turn[h]
  <2>1. xo \in [Games -> XoTable] /\ turn \in [Games -> {"O", "X"}]
    BY DEF TypeOK, GamesType
  <2>2. CASE FinishReset(g)
    BY <2>1, <2>2 DEF FinishReset
  <2>3. CASE ~FinishReset(g)
    BY <2>3 DEF FinishStep, FinishBegin, FinishLock, FinishReady, FinishLearn,
       FinishUnlock, gameVars
  <2> QED
    BY <2>2, <2>3
<1>5. episode'[h] = episode[h] /\ fin'[h] = fin[h]
  <2>1. episode \in [Games -> SUBSET Nat] /\ fin \in [Games -> FinishLocal]
    BY DEF TypeOK, GamesType, WorkType
  <2>2. episode' = episode \/ \E e : episode' = [episode EXCEPT ![g] = e]
    BY DEF FinishStep, FinishBegin, FinishLock, FinishReset, FinishReady, FinishLearn,
       FinishUnlock, gameVars
  <2>3. fin' = fin \/ \E f : fin' = [fin EXCEPT ![g] = f]
    BY DEF FinishStep, FinishBegin, FinishLock, FinishReset, FinishReady, FinishLearn,
       FinishUnlock
  <2> QED
    BY <2>1, <2>2, <2>3
<1> QED
  BY <1>2, <1>3, <1>4, <1>5 DEF GameSame

(* The timer handler ends a game, or the tasklet dispatches it.            *)
EndedBy(h) ==
  /\ tpc = "check" /\ ti = h /\ check_win(xo[h].table) # CELL_EMPTY
  /\ fw' = [fw EXCEPT ![h] = check_win(xo[h].table)]
  /\ pend' = pend \cup {<<"finish", h>>}
  /\ UNCHANGED <<xo, turn, episode, locked, pc, snap, fin>>
DispatchedBy(h) ==
  /\ state[h] = GAME_READY
  /\ pend' = pend \cup {<<IF turn[h] = "O" THEN "one" ELSE "two", h>>, <<"draw", h>>}
  /\ UNCHANGED <<xo, turn, episode, locked, pc, snap, fw, fin>>
DrawnBy(h) ==
  /\ pend' = pend \cup {<<"draw", h>>}
  /\ UNCHANGED <<xo, turn, episode, locked, pc, snap, fw, fin>>

(* Steps that change nothing GameInv mentions.                             *)
LEMMA IdleFrame ==
  ASSUME UNCHANGED <<xo, turn, episode, locked, fw, fin, snap, pc, pend>>, NEW h \in Games
  PROVE  GameSame(h)
BY DEF GameSame, Untouched

(* The softirqs leave a game as it is, end it, or queue its work.          *)
LEMMA SoftirqFrame ==
  ASSUME TypeOK, TimerFire \/ TimerStep \/ TaskletRun \/ TaskletGame, NEW h \in Games
  PROVE  GameSame(h) \/ EndedBy(h) \/ DispatchedBy(h) \/ DrawnBy(h)
<1>1. CASE TimerFire \/ TimerScan \/ TimerSchedule \/ TimerRearm \/ TaskletRun
  BY <1>1, IdleFrame DEF TimerFire, TimerScan, TimerSchedule, TimerRearm, TaskletRun,
     gameVars, workVars
<1>2. CASE TimerCheck
  <2>1. ti \in Games
    BY <1>2 DEF TimerCheck, TypeOK, SoftirqType
  <2>2. CASE check_win(xo[ti].table) = CELL_EMPTY
    BY <1>2, <2>2, IdleFrame DEF TimerCheck
  <2>3. CASE check_win(xo[ti].table) # CELL_EMPTY /\ ti = h
    BY <1>2, <2>3 DEF TimerCheck, EndedBy
  <2>4. CASE check_win(xo[ti].table) # CELL_EMPTY /\ ti # h
    <3>1. /\ fw' = [fw EXCEPT ![ti] = check_win(xo[ti].table)]
          /\ pend' = pend \cup {<<"finish", ti>>}
          /\ UNCHANGED <<xo, turn, episode, locked, pc, snap, fin>>
      BY <1>2, <2>4 DEF TimerCheck
    <3>2. fw'[h] = fw[h]
      BY <2>4, <3>1 DEF TypeOK, WorkType
    <3> QED
      BY <2>4, <3>1, <3>2 DEF GameSame, Untouched
  <2> QED
    BY <2>2, <2>3, <2>4
<1>3. CASE TaskletGame
  <2>1. PICK g \in twork :
          /\ \/ /\ state[g] = GAME_READY
                /\ pend' = pend \cup
                     {<<IF turn[g] = "O" THEN "one" ELSE "two", g>>, <<"draw", g>>}
             \/ pend' = pend \cup {<<"draw", g>>}
          /\ UNCHANGED <<xo, turn, episode, locked, pc, snap, fw, fin>>
    BY <1>3 DEF TaskletGame, Dispatchable
  <2>2. CASE g = h
    BY <2>1, <2>2 DEF DispatchedBy, DrawnBy
  <2>3. CASE g # h
    BY <2>1, <2>3 DEF GameSame, Untouched
  <2> QED
    BY <2>2, <2>3
<1> QED
  BY <1>1, <1>2, <1>3 DEF TimerStep

(* open and release touch no board.                                        *)
LEMMA UserKeeps ==
  ASSUME TypeOK, UserStep, NEW h \in Games
  PROVE  GameSame(h)
<1>1. PICK u \in Users : kxo_open(u) \/ kxo_release(u) \/ ReleaseStep(u)
  BY DEF UserStep
<1>2. UNCHANGED <<fw, fin, snap, pc, pend>>
  BY <1>1, UserFrame DEF workVars
<1>3. UNCHANGED <<xo, turn, episode, locked>>
  BY <1>1 DEF kxo_open, kxo_release, ReleaseStep, ReleaseDelTimer, ReleaseKill, ReleaseFlush,
     ReleaseFlushed, ReleaseGame, ReleaseStart, ReleaseAttr, gameVars
<1> QED
  BY <1>2, <1>3, IdleFrame

(* What a step does to one game.                                           *)
LEMMA GameFrame ==
  ASSUME TypeOK, [Next]_vars, NEW h \in Games
  PROVE  \/ GameSame(h)
         \/ \E k \in AiKind : AiStep(k, h)
         \/ DrawStep(h) \/ FinishStep(h)
         \/ EndedBy(h) \/ DispatchedBy(h) \/ DrawnBy(h)
<1>1. CASE WorkStep
  BY <1>1, AiFrame, DrawFrame, FinishFrame DEF WorkStep
<1>2. CASE TimerFire \/ TimerStep \/ TaskletRun \/ TaskletGame
  BY <1>2, SoftirqFrame
<1>3. CASE UserStep
  BY <1>3, UserKeeps
<1>4. CASE (\E s \in Settings : kxo_state_store(s[1], s[2])) \/ UNCHANGED vars
  BY <1>4, IdleFrame DEF kxo_state_store, vars, gameVars, workVars
<1> QED
  BY <1>1, <1>2, <1>3, <1>4, NextSplit

-----------------------------------------------------------------------------
(* The mutex of a game when one of its work items moves on.                *)
LEMMA MutexStep ==
  ASSUME NEW x \in Kind, NEW g \in Games, MutexHeld(g),
         \A y \in Kind : y # x => pc'[<<y, g>>] = pc[<<y, g>>],
         \/ (Holds(<<x, g>>)' <=> Holds(<<x, g>>)) /\ (g \in locked' <=> g \in locked)
         \/ Holds(<<x, g>>)' /\ g \notin locked /\ g \in locked'
         \/ Holds(<<x, g>>) /\ ~Holds(<<x, g>>)' /\ g \notin locked'
  PROVE  MutexHeld(g)'
<1>1. \A y \in Kind : y # x => (Holds(<<y, g>>)' <=> Holds(<<y, g>>))
  BY DEF Holds
<1> QED
  BY <1>1 DEF MutexHeld

(* A step that leaves the record and does not pass a store of it leaves    *)
(* what is true of the record.                                             *)
LEMMA BoardKeep ==
  ASSUME NEW g \in Games, GameInv(g),
         xo'[g] = xo[g], turn'[g] = turn[g], episode'[g] = episode[g],
         MidWrite(g)' <=> MidWrite(g),
         pc'[<<"finish", g>>] \in {"ready", "learn"} <=>
           pc[<<"finish", g>>] \in {"ready", "learn"}
  PROVE  Recorded(g)' /\ TurnTrue(g)' /\ EpisodeTrue(g)'
<1>1. RecordOf(g)' = RecordOf(g)
  BY DEF RecordOf
<1>2. Recorded(g)' /\ TurnTrue(g)'
  BY <1>1 DEF GameInv, Recorded, Replayable, Balanced, TurnTrue
<1>3. EpisodeTrue(g)'
  BY <1>1 DEF GameInv, EpisodeTrue, RlSteps
<1> QED
  BY <1>2, <1>3

(* A result survives what leaves the board to its finish work.             *)
LEMMA ResultKeep ==
  ASSUME NEW g \in Games, GameInv(g), xo'[g] = xo[g] \/ ~FinishOwns(g),
         fw'[g] = fw[g], fin'[g] = fin[g], Untouched("finish", g)
  PROVE  ResultTrue(g)'
BY DEF GameInv, ResultTrue, FinishOwns, Untouched

(* What an AI work item relies on, while it does nothing itself.           *)
LEMMA OtherAiKeep ==
  ASSUME NEW j \in AiKind, NEW g \in Games, GameInv(g), Untouched(j, g),
         snap'[<<j, g>>] = snap[<<j, g>>],
         (xo'[g] = xo[g] /\ turn'[g] = turn[g]) \/ ~AiOwns(j, g)
  PROVE  SnapshotTrue(j, g)' /\ OwnersTurn(j, g)' /\ MoveOpen(j, g)'
BY DEF GameInv, SnapshotTrue, OwnersTurn, MoveOpen, AiOwns, Untouched

(* While an AI work item owns the game, nobody else does.                  *)
LEMMA AiAlone ==
  ASSUME Ownership, NEW k \in AiKind, NEW g \in Games, AiOwns(k, g)
  PROVE  ~FinishOwns(g) /\ \A j \in AiKind : j # k => ~AiOwns(j, g)
BY DEF Ownership, OneOwner, AiKind, GAME_BUSY, GAME_DONE

(* Nobody is between its two stores while another item holds the mutex.    *)
LEMMA MidWriteHolds ==
  ASSUME NEW x \in Kind, NEW g \in Games, MutexHeld(g), Holds(<<x, g>>),
         pc[<<x, g>>] # "attr"
  PROVE  ~MidWrite(g)
BY DEF MidWrite, MutexHeld, Holds, Kind, AiKind

(* The steps of an AI work item that leave the record.                     *)
AiQuiet(k, g) ==
  \/ AiBail(k, g) \/ AiBegin(k, g) \/ AiLock(k, g) \/ AiAgentLock(k, g)
  \/ AiSearch(k, g) \/ AiReady(k, g) \/ AiUnlock(k, g)
  \/ AiWrite(k, g) /\ ~Played(snap[<<k, g>>].move)

(* Such a step keeps GameInv.                                              *)
LEMMA AiQuietStep ==
  ASSUME TypeOK, Ownership, NEW k \in AiKind, NEW g \in Games, GameInv(g), AiQuiet(k, g)
  PROVE  GameInv(g)'
<1> DEFINE w == <<k, g>>
<1>1. /\ k \in Kind /\ "finish" \in Kind /\ k # "finish" /\ w \in Work /\ w \in AiWork
      /\ AiKind \subseteq Kind
      /\ \A j \in AiKind : j # k => <<j, g>> # w /\ <<j, g>> \in AiWork
  BY DEF Kind, AiKind, Work, AiWork
<1>2. /\ xo' = xo /\ turn' = turn /\ episode' = episode /\ fw' = fw /\ fin' = fin
      /\ pend' = pend \/ pend' = pend \ {w}
  BY DEF AiQuiet, AiBail, AiBegin, AiLock, AiAgentLock, AiSearch, AiWrite,
     AiReady, AiUnlock, gameVars
<1>3. pc \in [Work -> Stage] /\ snap \in [AiWork -> Snapshot]
  BY DEF TypeOK, WorkType
<1>4. \A y \in Kind : y # k => Untouched(y, g)
  <2>1. pc' = pc \/ \E stage : pc' = [pc EXCEPT ![w] = stage]
    BY DEF AiQuiet, AiBail, AiBegin, AiLock, AiAgentLock, AiSearch, AiWrite,
       AiReady, AiUnlock
  <2>2. \A y \in Kind : y # k => pc'[<<y, g>>] = pc[<<y, g>>]
    BY <1>1, <1>3, <2>1 DEF Kind, Work
  <2> QED
    BY <1>2, <2>2 DEF Untouched
<1>5. \A j \in AiKind : j # k => snap'[<<j, g>>] = snap[<<j, g>>]
  <2>1. snap' = snap \/ \E s : snap' = [snap EXCEPT ![w] = s]
    BY DEF AiQuiet, AiBail, AiBegin, AiLock, AiAgentLock, AiSearch, AiWrite,
       AiReady, AiUnlock
  <2> QED
    BY <1>1, <1>3, <2>1
<1>6. pc[w] # "attr" /\ pc'[w] # "attr"
  BY <1>1, <1>3 DEF AiQuiet, AiBail, AiBegin, AiLock, AiAgentLock, AiSearch, AiWrite,
     AiReady, AiUnlock, Startable
<1>7. MutexHeld(g)'
  <2>1. \A y \in Kind : y # k => pc'[<<y, g>>] = pc[<<y, g>>]
    BY <1>4 DEF Untouched
  <2>2. \/ (Holds(w)' <=> Holds(w)) /\ (g \in locked' <=> g \in locked)
        \/ Holds(w)' /\ g \notin locked /\ g \in locked'
        \/ Holds(w) /\ ~Holds(w)' /\ g \notin locked'
    BY <1>1, <1>3 DEF AiQuiet, AiBail, AiBegin, AiLock, AiAgentLock, AiSearch, AiWrite,
       AiReady, AiUnlock, Startable, Holds, gameVars
  <2> QED
    BY <1>1, <2>1, <2>2, MutexStep DEF GameInv
<1>8. Recorded(g)' /\ TurnTrue(g)' /\ EpisodeTrue(g)'
  <2>1. MidWrite(g)' <=> MidWrite(g)
    BY <1>1, <1>4, <1>6 DEF MidWrite, Untouched
  <2>2. pc'[<<"finish", g>>] = pc[<<"finish", g>>]
    BY <1>1, <1>4 DEF Untouched
  <2> QED
    BY <1>2, <2>1, <2>2, BoardKeep
<1>9. ResultTrue(g)'
  BY <1>1, <1>2, <1>4, ResultKeep
<1>10. ASSUME NEW j \in AiKind, j # k
       PROVE  SnapshotTrue(j, g)' /\ OwnersTurn(j, g)' /\ MoveOpen(j, g)'
  BY <1>1, <1>2, <1>4, <1>5, <1>10, OtherAiKeep
<1>11. SnapshotTrue(k, g) /\ OwnersTurn(k, g) /\ MoveOpen(k, g)
  BY DEF GameInv
<1>12. SnapshotTrue(k, g)' /\ OwnersTurn(k, g)' /\ MoveOpen(k, g)'
  <2>1. CASE AiBail(k, g)
    BY <1>1, <1>2, <1>11, <2>1 DEF AiBail, Startable, SnapshotTrue, OwnersTurn, MoveOpen
  <2>2. CASE AiBegin(k, g)
    <3>1. /\ pc'[w] = "lock" /\ w \in pend /\ w \notin pend'
          /\ snap'[w] = [table |-> xo[g].table, steps |-> xo[g].steps,
                         alg |-> xo[g].alg, move |-> NoMove]
      BY <1>1, <1>3, <2>2 DEF AiBegin, Startable
    <3> QED
      BY <1>2, <1>11, <3>1 DEF SnapshotTrue, OwnersTurn, MoveOpen
  <2>3. CASE AiLock(k, g)
    <3>1. /\ pc[w] = "lock" /\ pc'[w] \in {"write", "search", "agent"}
          /\ snap' = snap /\ pend' = pend
      BY <1>1, <1>3, <2>3 DEF AiLock
    <3> QED
      BY <1>2, <1>11, <3>1 DEF SnapshotTrue, OwnersTurn, MoveOpen
  <2>4. CASE AiAgentLock(k, g)
    <3>1. /\ pc[w] = "agent" /\ pc'[w] \in {"write", "search"}
          /\ snap' = snap /\ pend' = pend
      BY <1>1, <1>3, <2>4 DEF AiAgentLock
    <3> QED
      BY <1>2, <1>11, <3>1 DEF SnapshotTrue, OwnersTurn, MoveOpen
  <2>5. CASE AiSearch(k, g)
    <3>1. PICK move \in Answers(AgentOf(k, snap[w].alg), snap[w].table) :
                 snap' = [snap EXCEPT ![w].move = move]
      BY <2>5 DEF AiSearch
    <3>2. snap[w] \in Snapshot /\ AgentOf(k, snap[w].alg) \in Agent
      BY <1>1, <1>3, AgentsOfField DEF Snapshot
    <3>3. move # NoMove => snap[w].table[move] = CELL_EMPTY
      BY <3>1, <3>2 DEF Answers, for_each_empty_grid, Agent, XO_AI_MCTS, XO_AI_NEGAMAX,
         XO_AI_RL
    <3>4. snap'[w] = [snap[w] EXCEPT !.move = move]
      BY <1>1, <1>3, <3>1
    <3>5. /\ snap'[w].move = move /\ snap'[w].table = snap[w].table
          /\ snap'[w].steps = snap[w].steps /\ snap'[w].alg = snap[w].alg
      BY <3>2, <3>4 DEF Snapshot
    <3>6. pc[w] = "search" /\ pc'[w] = "write" /\ pend' = pend
      BY <1>1, <1>3, <2>5 DEF AiSearch
    <3> QED
      BY <1>2, <1>11, <3>3, <3>5, <3>6 DEF SnapshotTrue, OwnersTurn, MoveOpen
  <2>6. CASE AiReady(k, g) \/ (AiWrite(k, g) /\ ~Played(snap[w].move))
    <3>1. AiOwns(k, g) /\ pc'[w] \in {"ready", "unlock"} /\ pend' = pend
      BY <1>1, <1>3, <2>6 DEF AiReady, AiWrite, AiOwns
    <3>2. w \notin pend
      BY <1>1, <2>6 DEF AiReady, AiWrite, Ownership, OneOwner
    <3> QED
      BY <3>1, <3>2 DEF SnapshotTrue, OwnersTurn, MoveOpen
  <2>7. CASE AiUnlock(k, g)
    <3>1. pc'[w] = "idle" /\ pend' = pend
      BY <1>1, <1>3, <2>7 DEF AiUnlock
    <3> QED
      BY <1>2, <1>11, <3>1 DEF SnapshotTrue, OwnersTurn, MoveOpen
  <2> QED
    BY <2>1, <2>2, <2>3, <2>4, <2>5, <2>6, <2>7 DEF AiQuiet
<1> QED
  BY <1>7, <1>8, <1>9, <1>10, <1>12 DEF GameInv

(* The first store of an AI handler: the board and the move list.          *)
LEMMA AiWriteStep ==
  ASSUME TypeOK, Ownership, NEW k \in AiKind, NEW g \in Games, GameInv(g),
         AiWrite(k, g), Played(snap[<<k, g>>].move)
  PROVE  GameInv(g)'
<1> DEFINE w == <<k, g>>
           r == xo[g]
           s == snap[w]
           q == [xo'[g] EXCEPT !.steps = @ + 1]
<1>1. /\ k \in Kind /\ "finish" \in Kind /\ k # "finish" /\ w \in Work /\ w \in AiWork
      /\ AiKind \subseteq Kind
  BY DEF Kind, AiKind, Work, AiWork
<1>2. r \in XoTable /\ s \in Snapshot
  BY <1>1 DEF TypeOK, GamesType, WorkType
<1>3. /\ pc[w] = "write" /\ pc' = [pc EXCEPT ![w] = "attr"] /\ s.move # NoMove
      /\ xo' = [xo EXCEPT ![g].table = VAL_SET_CELL(s.table, s.move, CellOf(k)),
                          ![g].moves[s.steps] = s.move]
      /\ episode' = [episode EXCEPT ![g] = IF AgentOf(k, s.alg) = XO_AI_RL
                                           THEN @ \cup {s.steps} ELSE @]
      /\ UNCHANGED <<turn, locked, pend, snap, fw, fin>>
  BY DEF AiWrite, Played
<1>4. /\ pc'[w] = "attr"
      /\ \A y \in Kind : y # k => Untouched(y, g)
  BY <1>1, <1>3, ItemStep DEF TypeOK
<1>5. /\ SnapshotTrue(k, g) /\ OwnersTurn(k, g) /\ MoveOpen(k, g) /\ MutexHeld(g)
      /\ Recorded(g) /\ TurnTrue(g) /\ EpisodeTrue(g)
  BY DEF GameInv
<1>6. /\ s.steps = r.steps /\ s.alg = r.alg /\ s.table = r.table
      /\ s.move \in Cells /\ r.table[s.move] = CELL_EMPTY
      /\ k = "one" <=> r.steps % 2 = 0
  BY <1>2, <1>3, <1>5 DEF SnapshotTrue, MoveOpen, OwnersTurn, TurnTrue, Snapshot
<1>7. AiOwns(k, g) /\ ~FinishOwns(g) /\ \A j \in AiKind : j # k => ~AiOwns(j, g)
  BY <1>3, AiAlone DEF AiOwns
<1>8. ~MidWrite(g) /\ MidWrite(g)' /\ RecordOf(g) = r /\ RecordOf(g)' = q
  <2>1. Holds(w)
    BY <1>3 DEF Holds
  <2>2. ~MidWrite(g)
    BY <1>1, <1>3, <1>5, <2>1, MidWriteHolds
  <2>3. MidWrite(g)'
    BY <1>4 DEF MidWrite
  <2> QED
    BY <2>2, <2>3 DEF RecordOf
<1>9. /\ q.table = VAL_SET_CELL(r.table, s.move, CellOf(k))
      /\ q.moves = [r.moves EXCEPT ![r.steps] = s.move]
      /\ q.steps = r.steps + 1 /\ q.alg = r.alg
      /\ xo'[g].steps = r.steps /\ xo'[g].alg = r.alg
  <2>1. xo'[g] = [r EXCEPT !.table = VAL_SET_CELL(r.table, s.move, CellOf(k)),
                           !.moves = [@ EXCEPT ![r.steps] = s.move]]
    BY <1>3, <1>6 DEF TypeOK, GamesType
  <2> QED
    BY <1>2, <2>1 DEF XoTable
<1>10. MutexHeld(g)'
  BY <1>1, <1>3, <1>4, <1>5, MutexStep DEF Holds, Untouched
<1>11. Recorded(g)' /\ TurnTrue(g)'
  <2>1. Replayable(r) /\ Balanced(r)
    BY <1>5, <1>8 DEF Recorded
  <2>2. Replayable(q) /\ Balanced(q)
    <3> HIDE DEF q, r, s
    <3> QED
      BY <1>2, <1>6, <1>9, <2>1, MarkStep
  <2>3. Recorded(g)'
    BY <1>8, <2>2 DEF Recorded, Replayable, Balanced
  <2>4. TurnTrue(g)'
    BY <1>3, <1>5, <1>9 DEF TurnTrue
  <2> QED
    BY <2>3, <2>4
<1>12. EpisodeTrue(g)'
  <2>1. pc[<<"finish", g>>] \notin {"ready", "learn"}
    BY <1>1, <1>3, <1>5 DEF MutexHeld, Holds
  <2>2. pc'[<<"finish", g>>] \notin {"ready", "learn"}
    BY <1>1, <1>4, <2>1 DEF Untouched
  <2>3. episode[g] = RlSteps(r)
    BY <1>5, <1>8, <2>1 DEF EpisodeTrue
  <2>4. RlSteps(q) = IF AgentOf(k, r.alg) = XO_AI_RL
                     THEN RlSteps(r) \cup {r.steps} ELSE RlSteps(r)
    <3>1. 0 .. q.steps - 1 = (0 .. r.steps - 1) \cup {r.steps}
      BY <1>2, <1>9 DEF XoTable
    <3>2. AgentOf(k, r.alg) = IF r.steps % 2 = 0 THEN AgentO(r.alg) ELSE AgentX(r.alg)
      BY <1>6 DEF AgentOf
    <3> QED
      BY <1>9, <3>1, <3>2 DEF RlSteps
  <2>5. episode'[g] = RlSteps(q)
    BY <1>3, <1>6, <2>3, <2>4 DEF TypeOK, GamesType
  <2> QED
    BY <1>8, <2>2, <2>5 DEF EpisodeTrue, RlSteps
<1>13. ResultTrue(g)'
  BY <1>1, <1>3, <1>4, <1>7, ResultKeep
<1>14. ASSUME NEW j \in AiKind
       PROVE  SnapshotTrue(j, g)' /\ OwnersTurn(j, g)' /\ MoveOpen(j, g)'
  <2>1. CASE j # k
    BY <1>1, <1>3, <1>4, <1>7, <2>1, OtherAiKeep
  <2>2. CASE j = k
    BY <1>3, <1>4, <1>5, <1>6, <1>9, <2>2 DEF SnapshotTrue, OwnersTurn, MoveOpen
  <2> QED
    BY <2>1, <2>2
<1> QED
  BY <1>10, <1>11, <1>12, <1>13, <1>14 DEF GameInv

(* The second store: the attribute word and the turn.                      *)
LEMMA AiAttrStep ==
  ASSUME TypeOK, Ownership, NEW k \in AiKind, NEW g \in Games, GameInv(g), AiAttr(k, g)
  PROVE  GameInv(g)'
<1> DEFINE w == <<k, g>>
           r == xo[g]
           s == snap[w]
<1>1. /\ k \in Kind /\ "finish" \in Kind /\ k # "finish" /\ w \in Work /\ w \in AiWork
      /\ AiKind \subseteq Kind
  BY DEF Kind, AiKind, Work, AiWork
<1>2. r \in XoTable /\ s \in Snapshot
  BY <1>1 DEF TypeOK, GamesType, WorkType
<1>3. /\ pc[w] = "attr" /\ pc' = [pc EXCEPT ![w] = "ready"]
      /\ xo' = [xo EXCEPT ![g].steps = s.steps + 1, ![g].alg = s.alg]
      /\ turn' = [turn EXCEPT ![g] = NextTurn(k)]
      /\ UNCHANGED <<locked, episode, pend, snap, fw, fin>>
  BY DEF AiAttr
<1>4. /\ pc'[w] = "ready"
      /\ \A y \in Kind : y # k => Untouched(y, g)
  BY <1>1, <1>3, ItemStep DEF TypeOK
<1>5. /\ SnapshotTrue(k, g) /\ OwnersTurn(k, g) /\ MutexHeld(g)
      /\ Recorded(g) /\ TurnTrue(g) /\ EpisodeTrue(g)
  BY DEF GameInv
<1>6. s.steps = r.steps /\ s.alg = r.alg /\ (k = "one" <=> r.steps % 2 = 0)
  BY <1>3, <1>5 DEF SnapshotTrue, OwnersTurn, TurnTrue
<1>7. AiOwns(k, g) /\ ~FinishOwns(g) /\ \A j \in AiKind : j # k => ~AiOwns(j, g)
  BY <1>3, AiAlone DEF AiOwns
<1>8. Holds(w) /\ Holds(w)'
  BY <1>3, <1>4 DEF Holds
<1>9. MutexHeld(g)'
  BY <1>1, <1>3, <1>4, <1>5, <1>8, MutexStep DEF Untouched
<1>10. RecordOf(g)' = RecordOf(g) /\ xo'[g] = RecordOf(g)
  <2>1. MidWrite(g) /\ RecordOf(g) = [r EXCEPT !.steps = r.steps + 1]
    BY <1>3 DEF MidWrite, RecordOf
  <2>2. ~MidWrite(g)'
    BY <1>1, <1>4, <1>8, <1>9 DEF MidWrite, MutexHeld, Holds
  <2>3. xo'[g] = [r EXCEPT !.steps = r.steps + 1, !.alg = r.alg]
    BY <1>3, <1>6 DEF TypeOK, GamesType
  <2>4. [r EXCEPT !.steps = r.steps + 1, !.alg = r.alg] = [r EXCEPT !.steps = r.steps + 1]
    BY <1>2 DEF XoTable
  <2> QED
    BY <2>1, <2>2, <2>3, <2>4 DEF RecordOf
<1>11. Recorded(g)'
  BY <1>5, <1>10 DEF Recorded, Replayable, Balanced
<1>12. TurnTrue(g)'
  <2>1. xo'[g].steps = r.steps + 1
    BY <1>2, <1>3, <1>6 DEF TypeOK, GamesType, XoTable
  <2>2. turn'[g] = NextTurn(k)
    BY <1>3 DEF TypeOK, GamesType
  <2> QED
    BY <1>2, <1>6, <2>1, <2>2 DEF TurnTrue, NextTurn, XoTable
<1>13. EpisodeTrue(g)'
  <2>1. pc[<<"finish", g>>] \notin {"ready", "learn"}
    BY <1>1, <1>5, <1>8 DEF MutexHeld, Holds
  <2>2. pc'[<<"finish", g>>] \notin {"ready", "learn"}
    BY <1>1, <1>4, <2>1 DEF Untouched
  <2> QED
    BY <1>3, <1>5, <1>10, <2>1, <2>2 DEF EpisodeTrue, RlSteps
<1>14. ResultTrue(g)'
  BY <1>1, <1>3, <1>4, <1>7, ResultKeep
<1>15. ASSUME NEW j \in AiKind
       PROVE  SnapshotTrue(j, g)' /\ OwnersTurn(j, g)' /\ MoveOpen(j, g)'
  <2>1. CASE j # k
    BY <1>1, <1>3, <1>4, <1>7, <2>1, OtherAiKeep
  <2>2. CASE j = k
    <3>1. w \notin pend'
      BY <1>3 DEF Ownership, OneOwner
    <3> QED
      BY <1>4, <2>2, <3>1 DEF SnapshotTrue, OwnersTurn, MoveOpen
  <2> QED
    BY <2>1, <2>2
<1> QED
  BY <1>9, <1>11, <1>12, <1>13, <1>14, <1>15 DEF GameInv

(* The steps of drawboard_work_func take and release the mutex at most.    *)
LEMMA DrawGameStep ==
  ASSUME TypeOK, NEW g \in Games, GameInv(g), DrawStep(g)
  PROVE  GameInv(g)'
<1> DEFINE w == <<"draw", g>>
<1>1. /\ "draw" \in Kind /\ "finish" \in Kind /\ w \in Work /\ "draw" \notin AiKind
      /\ AiKind \subseteq Kind
  BY DEF Kind, AiKind, Work
<1>2. UNCHANGED <<xo, turn, episode, fw, fin, snap>>
  BY DEF DrawStep, DrawSkip, DrawBegin, DrawBusy, DrawLock, DrawFifo, gameVars
<1>3. \A y \in Kind : y # "draw" => Untouched(y, g)
  <2>1. pc' = pc \/ \E stage : pc' = [pc EXCEPT ![w] = stage]
    BY DEF DrawStep, DrawSkip, DrawBegin, DrawBusy, DrawLock, DrawFifo
  <2>2. pend' = pend \/ pend' = pend \ {w}
    BY DEF DrawStep, DrawSkip, DrawBegin, DrawBusy, DrawLock, DrawFifo
  <2>3. \A y \in Kind : y # "draw" => pc'[<<y, g>>] = pc[<<y, g>>]
    BY <2>1 DEF TypeOK, WorkType, Kind, Work
  <2> QED
    BY <2>2, <2>3 DEF Untouched
<1>4. MutexHeld(g)'
  <2>1. pc \in [Work -> Stage]
    BY DEF TypeOK, WorkType
  <2>2. \/ (Holds(w)' <=> Holds(w)) /\ (g \in locked' <=> g \in locked)
        \/ Holds(w)' /\ g \notin locked /\ g \in locked'
        \/ Holds(w) /\ ~Holds(w)' /\ g \notin locked'
    BY <1>1, <2>1 DEF DrawStep, DrawSkip, DrawBegin, DrawBusy, DrawLock, DrawFifo,
       Startable, Holds, gameVars
  <2> QED
    BY <1>1, <1>3, <2>2, MutexStep DEF GameInv, Untouched
<1>5. Recorded(g)' /\ TurnTrue(g)' /\ EpisodeTrue(g)'
  <2>1. \A y \in AiKind \cup {"finish"} : pc'[<<y, g>>] = pc[<<y, g>>]
    BY <1>1, <1>3 DEF Untouched
  <2> QED
    BY <1>2, <2>1, BoardKeep DEF MidWrite
<1>6. ResultTrue(g)'
  BY <1>1, <1>2, <1>3, ResultKeep
<1>7. ASSUME NEW j \in AiKind
      PROVE  SnapshotTrue(j, g)' /\ OwnersTurn(j, g)' /\ MoveOpen(j, g)'
  BY <1>1, <1>2, <1>3, OtherAiKeep
<1> QED
  BY <1>4, <1>5, <1>6, <1>7 DEF GameInv

(* A finish work item that owns the game is the only one that does.        *)
LEMMA FinishAlone ==
  ASSUME Ownership, NEW g \in Games, FinishOwns(g)
  PROVE  \A j \in AiKind : ~AiOwns(j, g)
BY DEF Ownership, OneOwner, AiKind, GAME_BUSY, GAME_DONE

(* finish_game_work_func.                                                  *)
LEMMA FinishGameStep ==
  ASSUME TypeOK, Ownership, NEW g \in Games, GameInv(g), FinishStep(g)
  PROVE  GameInv(g)'
<1> DEFINE w == <<"finish", g>>
<1>1. /\ "finish" \in Kind /\ w \in Work /\ "finish" \notin AiKind /\ AiKind \subseteq Kind
  BY DEF Kind, AiKind, Work
<1>2. UNCHANGED <<fw, snap>> /\ pc \in [Work -> Stage]
  BY DEF FinishStep, FinishBegin, FinishLock, FinishReset, FinishReady, FinishLearn,
     FinishUnlock, TypeOK, WorkType
<1>3. \A y \in Kind : y # "finish" => Untouched(y, g)
  <2>1. \E stage : pc' = [pc EXCEPT ![w] = stage]
    BY DEF FinishStep, FinishBegin, FinishLock, FinishReset, FinishReady, FinishLearn,
       FinishUnlock
  <2>2. pend' = pend \/ pend' = pend \ {w}
    BY DEF FinishStep, FinishBegin, FinishLock, FinishReset, FinishReady, FinishLearn,
       FinishUnlock
  <2>3. \A y \in Kind : y # "finish" => pc'[<<y, g>>] = pc[<<y, g>>]
    BY <1>2, <2>1 DEF Kind, Work
  <2> QED
    BY <2>2, <2>3 DEF Untouched
<1>4. MutexHeld(g)'
  <2>1. \/ (Holds(w)' <=> Holds(w)) /\ (g \in locked' <=> g \in locked)
        \/ Holds(w)' /\ g \notin locked /\ g \in locked'
        \/ Holds(w) /\ ~Holds(w)' /\ g \notin locked'
    BY <1>1, <1>2 DEF FinishStep, FinishBegin, FinishLock, FinishReset, FinishReady,
       FinishLearn, FinishUnlock, Startable, Holds, gameVars
  <2> QED
    BY <1>1, <1>3, <2>1, MutexStep DEF GameInv, Untouched
<1>5. MidWrite(g)' <=> MidWrite(g)
  BY <1>1, <1>3 DEF MidWrite, Untouched
<1>6. ASSUME NEW j \in AiKind, (xo'[g] = xo[g] /\ turn'[g] = turn[g]) \/ FinishOwns(g)
      PROVE  SnapshotTrue(j, g)' /\ OwnersTurn(j, g)' /\ MoveOpen(j, g)'
  BY <1>1, <1>2, <1>3, <1>6, FinishAlone, OtherAiKeep
<1>7. CASE FinishBegin(g)
  <2>1. /\ pc[w] = "idle" /\ pc'[w] = "lock" /\ w \in pend /\ w \notin pend'
        /\ fin'[g].win = fw[g] /\ UNCHANGED <<xo, turn, episode>>
    BY <1>1, <1>2, <1>7 DEF FinishBegin, Startable, gameVars, TypeOK, WorkType
  <2>2. ResultTrue(g)'
    BY <2>1 DEF GameInv, ResultTrue
  <2>3. Recorded(g)' /\ TurnTrue(g)' /\ EpisodeTrue(g)'
    BY <1>5, <2>1, BoardKeep
  <2> QED
    BY <1>4, <1>6, <2>1, <2>2, <2>3 DEF GameInv
<1>8. CASE FinishLock(g)
  <2>1. /\ pc[w] = "lock" /\ pc'[w] = "reset"
        /\ UNCHANGED <<xo, turn, episode, fin, pend>>
    BY <1>1, <1>2, <1>8 DEF FinishLock
  <2>2. ResultTrue(g)'
    BY <1>2, <2>1 DEF GameInv, ResultTrue
  <2>3. Recorded(g)' /\ TurnTrue(g)' /\ EpisodeTrue(g)'
    BY <1>5, <2>1, BoardKeep
  <2> QED
    BY <1>4, <1>6, <2>1, <2>2, <2>3 DEF GameInv
<1>9. CASE FinishReset(g) /\ fin[g].end = "0"
  <2>1. PICK a \in Algs : xo' = [xo EXCEPT ![g] = NewGame(a)]
    BY <1>9 DEF FinishReset
  <2>2. /\ pc[w] = "reset" /\ pc'[w] = "ready" /\ turn'[g] = "O"
        /\ xo'[g] = NewGame(a) /\ UNCHANGED <<episode, fin, pend>>
    BY <1>1, <1>2, <1>9, <2>1 DEF FinishReset, TypeOK, GamesType
  <2>3. a \in AllAlgs
    BY EngineAssumption
  <2>4. FinishOwns(g) /\ w \notin pend
    BY <2>2 DEF FinishOwns, Ownership, OneOwner
  <2>5. ~MidWrite(g) /\ ~MidWrite(g)'
    BY <1>1, <1>5, <2>2, MidWriteHolds DEF GameInv, Holds
  <2>6. RecordOf(g)' = NewGame(a) /\ NewGame(a).steps = 0
    BY <2>2, <2>5 DEF RecordOf, NewGame
  <2>7. Recorded(g)' /\ TurnTrue(g)' /\ EpisodeTrue(g)'
    <3>1. Recorded(g)'
      BY <2>3, <2>6, NewGameRecorded DEF Recorded, Replayable, Balanced
    <3> QED
      BY <2>2, <2>6, <3>1 DEF TurnTrue, EpisodeTrue
  <2>8. ResultTrue(g)'
    BY <2>2, <2>4 DEF ResultTrue
  <2> QED
    BY <1>4, <1>6, <2>4, <2>7, <2>8 DEF GameInv
<1>10. CASE FinishReset(g) /\ fin[g].end # "0"
  <2>1. /\ pc[w] = "reset" /\ pc'[w] = "unlock"
        /\ UNCHANGED <<xo, turn, episode, fin, pend>>
    BY <1>1, <1>2, <1>10 DEF FinishReset
  <2>2. ResultTrue(g)'
    BY <1>2, <2>1 DEF GameInv, ResultTrue
  <2>3. Recorded(g)' /\ TurnTrue(g)' /\ EpisodeTrue(g)'
    BY <1>5, <2>1, BoardKeep
  <2> QED
    BY <1>4, <1>6, <2>1, <2>2, <2>3 DEF GameInv
<1>11. CASE FinishReady(g)
  <2>1. /\ pc[w] = "ready" /\ pc'[w] = "learn"
        /\ UNCHANGED <<xo, turn, episode, fin, pend>>
    BY <1>1, <1>2, <1>11 DEF FinishReady
  <2>2. ResultTrue(g)'
    BY <1>2, <2>1 DEF GameInv, ResultTrue
  <2>3. Recorded(g)' /\ TurnTrue(g)' /\ EpisodeTrue(g)'
    BY <1>5, <2>1, BoardKeep
  <2> QED
    BY <1>4, <1>6, <2>1, <2>2, <2>3 DEF GameInv
<1>12. CASE FinishLearn(g)
  <2>1. /\ pc[w] = "learn" /\ pc'[w] = "unlock" /\ episode'[g] = {}
        /\ UNCHANGED <<xo, turn, fin, pend>>
    BY <1>1, <1>2, <1>12 DEF FinishLearn, TypeOK, GamesType
  <2>2. ResultTrue(g)'
    BY <1>2, <2>1 DEF GameInv, ResultTrue
  <2>3. ~MidWrite(g) /\ ~MidWrite(g)'
    BY <1>1, <1>5, <2>1, MidWriteHolds DEF GameInv, Holds
  <2>4. RecordOf(g)' = RecordOf(g) /\ RecordOf(g) = xo[g]
    BY <2>1, <2>3 DEF RecordOf
  <2>5. Recorded(g)' /\ TurnTrue(g)'
    BY <2>1, <2>4 DEF GameInv, Recorded, Replayable, Balanced, TurnTrue
  <2>6. EpisodeTrue(g)'
    <3>1. xo[g].steps = 0
      BY <2>1 DEF GameInv, EpisodeTrue
    <3>2. RlSteps(xo[g]) = {}
      BY <3>1 DEF RlSteps
    <3> QED
      BY <2>1, <2>4, <3>2 DEF EpisodeTrue, RlSteps
  <2> QED
    BY <1>4, <1>6, <2>1, <2>2, <2>5, <2>6 DEF GameInv
<1>13. CASE FinishUnlock(g)
  <2>1. /\ pc[w] = "unlock" /\ pc'[w] = "idle"
        /\ UNCHANGED <<xo, turn, episode, pend>>
    BY <1>1, <1>2, <1>13 DEF FinishUnlock
  <2>2. ResultTrue(g)'
    BY <1>2, <2>1 DEF GameInv, ResultTrue
  <2>3. Recorded(g)' /\ TurnTrue(g)' /\ EpisodeTrue(g)'
    BY <1>5, <2>1, BoardKeep
  <2> QED
    BY <1>4, <1>6, <2>1, <2>2, <2>3 DEF GameInv
<1> QED
  BY <1>7, <1>8, <1>9, <1>10, <1>11, <1>12, <1>13 DEF FinishStep

(* The timer handler that ends a game, and the tasklet.                    *)
LEMMA SoftirqGameStep ==
  ASSUME TypeOK, Ownership, NEW g \in Games, GameInv(g),
         EndedBy(g) \/ DispatchedBy(g) \/ DrawnBy(g)
  PROVE  GameInv(g)'
<1>1. UNCHANGED <<xo, turn, episode, locked, pc, snap, fin>>
  BY DEF EndedBy, DispatchedBy, DrawnBy
<1>2. MutexHeld(g)'
  BY <1>1 DEF GameInv, MutexHeld, Holds
<1>3. Recorded(g)' /\ TurnTrue(g)' /\ EpisodeTrue(g)'
  BY <1>1, BoardKeep DEF MidWrite
<1>4. ResultTrue(g)'
  <2>1. CASE EndedBy(g)
    <3>1. fw'[g] = check_win(xo[g].table) /\ fw'[g] # CELL_EMPTY
      BY <2>1 DEF EndedBy, TypeOK, WorkType
    <3> QED
      BY <1>1, <3>1 DEF GameInv, ResultTrue
  <2>2. CASE DispatchedBy(g) \/ DrawnBy(g)
    <3>1. fw' = fw /\ (<<"finish", g>> \in pend' <=> <<"finish", g>> \in pend)
      BY <2>2 DEF DispatchedBy, DrawnBy
    <3> QED
      BY <1>1, <3>1 DEF GameInv, ResultTrue
  <2> QED
    BY <2>1, <2>2
<1>5. ASSUME NEW k \in AiKind
      PROVE  SnapshotTrue(k, g)' /\ OwnersTurn(k, g)' /\ MoveOpen(k, g)'
  <2>1. SnapshotTrue(k, g)' /\ MoveOpen(k, g)'
    BY <1>1 DEF GameInv, SnapshotTrue, MoveOpen
  <2>2. <<k, g>> \in pend' /\ <<k, g>> \notin pend => turn[g] = IF k = "one" THEN "O" ELSE "X"
    BY DEF EndedBy, DispatchedBy, DrawnBy, AiKind, TypeOK, GamesType
  <2>3. OwnersTurn(k, g)'
    BY <1>1, <2>2 DEF GameInv, OwnersTurn
  <2> QED
    BY <2>1, <2>3
<1> QED
  BY <1>2, <1>3, <1>4, <1>5 DEF GameInv

(* BoardsInv is inductive.                                                 *)
LEMMA GameInvStep ==
  ASSUME BoardsInv, [Next]_vars, NEW g \in Games
  PROVE  GameInv(g)'
<1>1. TypeOK /\ Ownership /\ GameInv(g)
  BY DEF BoardsInv, OwnershipInv
<1>2. ASSUME NEW k \in AiKind, AiStep(k, g) PROVE GameInv(g)'
  <2>1. AiQuiet(k, g) \/ (AiWrite(k, g) /\ Played(snap[<<k, g>>].move)) \/ AiAttr(k, g)
    BY <1>2 DEF AiStep, AiQuiet
  <2> QED
    BY <1>1, <2>1, AiQuietStep, AiWriteStep, AiAttrStep
<1> QED
  BY <1>1, <1>2, GameFrame, GameSameInv, DrawGameStep, FinishGameStep, SoftirqGameStep

(* The boards are empty when the module is loaded.                         *)
LEMMA BoardsInit == Init => BoardsInv
<1> SUFFICES ASSUME Init PROVE BoardsInv
  OBVIOUS
<1> SUFFICES ASSUME NEW g \in Games PROVE GameInv(g)
  BY OwnershipInit DEF BoardsInv
<1>1. \A x \in Kind : pc[<<x, g>>] = "idle"
  BY DEF Init, Kind, Work
<1>2. PICK a \in Algs : xo[g] = NewGame(a)
  BY DEF Init
<1>3. a \in AllAlgs
  BY EngineAssumption
<1>4. "finish" \in Kind /\ AiKind \subseteq Kind
  BY DEF Kind, AiKind
<1>5. RecordOf(g) = NewGame(a) /\ NewGame(a).steps = 0
  BY <1>1, <1>2, <1>4 DEF RecordOf, MidWrite, NewGame
<1>6. turn[g] = "O" /\ episode[g] = {} /\ locked = {} /\ pend = {}
  BY DEF Init
<1>7. Recorded(g) /\ EpisodeTrue(g)
  BY <1>1, <1>3, <1>4, <1>5, <1>6, NewGameRecorded DEF Recorded, EpisodeTrue
<1>8. TurnTrue(g) /\ ResultTrue(g)
  BY <1>1, <1>2, <1>4, <1>5, <1>6 DEF TurnTrue, ResultTrue
<1>9. MutexHeld(g) /\ \A k \in AiKind : SnapshotTrue(k, g) /\ OwnersTurn(k, g) /\ MoveOpen(k, g)
  BY <1>1, <1>4, <1>6 DEF MutexHeld, Holds, SnapshotTrue, OwnersTurn, MoveOpen
<1> QED
  BY <1>7, <1>8, <1>9 DEF GameInv

(* No step breaks what is said of the games.                               *)
LEMMA BoardsInvStep ==
  ASSUME OpenOverlap = FALSE, SoftirqOverlap = FALSE
  PROVE  BoardsInv /\ [Next]_vars => BoardsInv'
<1> SUFFICES ASSUME BoardsInv, [Next]_vars PROVE BoardsInv'
  OBVIOUS
<1>1. OwnershipInv'
  BY OwnershipInvStep DEF BoardsInv
<1>2. \A g \in Games : GameInv(g)'
  BY GameInvStep
<1> QED
  BY <1>1, <1>2 DEF BoardsInv

(* The inductive invariant of the boards holds.                            *)
LEMMA BoardsInvariant ==
  ASSUME OpenOverlap = FALSE, SoftirqOverlap = FALSE
  PROVE  Spec => []BoardsInv
BY BoardsInit, BoardsInvStep, PTL DEF Spec

------------------------------------------------------------------------------
(* The attr and table an AI handler read before game->lock are those of    *)
(* the game when it writes the move.                                       *)
THEOREM SnapshotsFresh ==
  ASSUME OpenOverlap = FALSE, SoftirqOverlap = FALSE
  PROVE  Spec => []SnapshotFresh
<1>1. BoardsInv => SnapshotFresh
  BY DEF BoardsInv, GameInv, SnapshotTrue, SnapshotFresh
<1> QED
  BY <1>1, BoardsInvariant, PTL

(* Table, move list, step count and turn agree, on boards of every size    *)
(* and shape, whenever no handler is between its two stores.               *)
THEOREM BoardsConsistent ==
  ASSUME OpenOverlap = FALSE, SoftirqOverlap = FALSE
  PROVE  Spec => []BoardConsistent
<1>1. BoardsInv => BoardConsistent
  BY DEF BoardsInv, GameInv, Recorded, RecordOf, TurnTrue, BoardConsistent
<1> QED
  BY <1>1, BoardsInvariant, PTL

(* No reader of /dev/kxo is handed a half-written record: whoever copies   *)
(* one holds the mutex, and so nobody is between the two stores.           *)
THEOREM RecordsShownReplayable ==
  ASSUME OpenOverlap = FALSE, SoftirqOverlap = FALSE
  PROVE  Spec => []ShownReplayable
<1>1. BoardsInv => ShownReplayable
  <2> SUFFICES ASSUME BoardsInv, NEW g \in Games, NEW x \in {"draw", "finish"},
                      pc[<<x, g>>] \in {"fifo", "reset"}
               PROVE  Replayable(xo[g])
    BY DEF ShownReplayable
  <2>1. MutexHeld(g) /\ Recorded(g)
    BY DEF BoardsInv, GameInv
  <2>2. ~MidWrite(g)
    BY <2>1, MidWriteHolds DEF Holds, Kind
  <2> QED
    BY <2>1, <2>2 DEF Recorded, RecordOf
<1> QED
  BY <1>1, BoardsInvariant, PTL

(* The result that the timer handler leaves without a lock is that of the  *)
(* board that finish_game_work_func clears.                                *)
THEOREM ResultsTrue ==
  ASSUME OpenOverlap = FALSE, SoftirqOverlap = FALSE
  PROVE  Spec => []FinishTrue
<1>1. BoardsInv => FinishTrue
  BY DEF BoardsInv, GameInv, ResultTrue, FinishTrue
<1> QED
  BY <1>1, BoardsInvariant, PTL

(* update_state_value learns from the steps of the running game only.      *)
THEOREM EpisodesMatch ==
  ASSUME OpenOverlap = FALSE, SoftirqOverlap = FALSE
  PROVE  Spec => []EpisodeMatches
<1>1. BoardsInv => EpisodeMatches
  BY DEF BoardsInv, GameInv, EpisodeTrue, RecordOf, EpisodeMatches
<1> QED
  BY <1>1, BoardsInvariant, PTL

-----------------------------------------------------------------------------
(* The boards alone implement KxoPlay.                                     *)
Boards == [g \in Games |-> xo[g].table]

(* The two copies of the rules are the same.                               *)
LEMMA RulesSame ==
  /\ Play!Cells = Cells /\ Play!EmptyTable = EmptyTable
  /\ \A t : Play!check_win(t) = check_win(t)
  /\ \A t : Play!for_each_empty_grid(t) = for_each_empty_grid(t)
  /\ \A t, c, v : Play!VAL_SET_CELL(t, c, v) = VAL_SET_CELL(t, c, v)
  /\ Play!CELL_EMPTY = CELL_EMPTY /\ Play!CELL_O = CELL_O /\ Play!CELL_X = CELL_X
<1>1. Play!Cells = Cells /\ Play!EmptyTable = EmptyTable
  BY DEF Play!Cells, Cells, Play!EmptyTable, EmptyTable, Play!CELL_EMPTY, CELL_EMPTY
<1>2. \A t : Play!for_each_empty_grid(t) = for_each_empty_grid(t)
  BY <1>1 DEF Play!for_each_empty_grid, for_each_empty_grid, Play!CELL_EMPTY, CELL_EMPTY
<1>3. \A t, l, v : Play!Fills(t, l, v) = Fills(t, l, v)
  BY DEF Play!Fills, Fills
<1>4. \A t : Play!check_win(t) = check_win(t)
  BY <1>2, <1>3 DEF Play!check_win, check_win, Play!CELL_EMPTY, CELL_EMPTY, Play!CELL_O,
     CELL_O, Play!CELL_X, CELL_X, Play!CELL_D, CELL_D
<1> QED
  BY <1>1, <1>2, <1>4 DEF Play!VAL_SET_CELL, VAL_SET_CELL, Play!CELL_EMPTY, CELL_EMPTY,
     Play!CELL_O, CELL_O, Play!CELL_X, CELL_X

(* Only three steps change a record.                                       *)
LEMMA RecordSteps ==
  ASSUME [Next]_vars
  PROVE  \/ UNCHANGED xo
         \/ \E g \in Games :
              \/ \E k \in AiKind : AiWrite(k, g) /\ Played(snap[<<k, g>>].move)
              \/ \E k \in AiKind : AiAttr(k, g)
              \/ FinishReset(g) /\ fin[g].end = "0"
<1>1. CASE WorkStep
  <2>1. PICK g \in Games : (\E k \in AiKind : AiStep(k, g)) \/ DrawStep(g) \/ FinishStep(g)
    BY <1>1 DEF WorkStep
  <2>2. ASSUME NEW k \in AiKind, AiStep(k, g)
        PROVE  UNCHANGED xo \/ (AiWrite(k, g) /\ Played(snap[<<k, g>>].move)) \/ AiAttr(k, g)
    BY <2>2 DEF AiStep, AiBail, AiBegin, AiLock, AiAgentLock, AiSearch, AiWrite, AiReady,
       AiUnlock, gameVars
  <2>3. DrawStep(g) => UNCHANGED xo
    BY DEF DrawStep, DrawSkip, DrawBegin, DrawBusy, DrawLock, DrawFifo, gameVars
  <2>4. FinishStep(g) => UNCHANGED xo \/ (FinishReset(g) /\ fin[g].end = "0")
    BY DEF FinishStep, FinishBegin, FinishLock, FinishReset, FinishReady, FinishLearn,
       FinishUnlock, gameVars
  <2> QED
    BY <2>1, <2>2, <2>3, <2>4
<1>2. CASE TimerFire \/ TimerStep \/ TaskletRun \/ TaskletGame
  BY <1>2 DEF TimerFire, TimerStep, TimerScan, TimerCheck, TimerSchedule, TimerRearm,
     TaskletRun, TaskletGame, gameVars
<1>3. CASE UserStep
  BY <1>3 DEF UserStep, kxo_open, kxo_release, ReleaseStep, ReleaseDelTimer, ReleaseKill,
     ReleaseFlush, ReleaseFlushed, ReleaseGame, ReleaseStart, ReleaseAttr, gameVars
<1>4. CASE (\E s \in Settings : kxo_state_store(s[1], s[2])) \/ UNCHANGED vars
  BY <1>4 DEF kxo_state_store, vars, gameVars
<1> QED
  BY <1>1, <1>2, <1>3, <1>4, NextSplit

(* Likewise the number of elements of a set.                               *)
LEMMA CardinalitySame == \A S : Play!Cardinality(S) = Cardinality(S)
BY DEF Play!Cardinality, Cardinality

(* Whose turn it is by the marks of a record.                              *)
LEMMA MoverTrue ==
  ASSUME NEW r \in XoTable, Balanced(r), NEW k \in AiKind,
         k = "one" <=> r.steps % 2 = 0
  PROVE  Play!ToMove(r.table) = CellOf(k)
<1>1. r.steps \in Nat
  BY DEF XoTable
<1>2. (r.steps + 1) \div 2 = r.steps \div 2 <=> r.steps % 2 = 0
  BY <1>1
<1>3. Cardinality(Play!Marks(r.table, CELL_O)) = Cardinality(Play!Marks(r.table, CELL_X))
        <=> k = "one"
  BY <1>2 DEF Balanced
<1> QED
  BY <1>3, CardinalitySame DEF Play!ToMove, CellOf, Play!CELL_O, CELL_O, Play!CELL_X, CELL_X

(* Every step of the engine is a step of the game or leaves the boards.    *)
LEMMA PlayStep == BoardsInv /\ [Next]_vars => [Play!PlayNext]_Boards
<1> SUFFICES ASSUME BoardsInv, [Next]_vars PROVE [Play!PlayNext]_Boards
  OBVIOUS
<1>1. TypeOK /\ xo \in [Games -> XoTable]
  BY DEF BoardsInv, OwnershipInv, TypeOK, GamesType
<1>2. CASE UNCHANGED xo
  BY <1>2 DEF Boards
<1>3. ASSUME NEW k \in AiKind, NEW g \in Games, AiWrite(k, g), Played(snap[<<k, g>>].move)
      PROVE  Play!PlayNext
  <2> DEFINE w == <<k, g>>
             s == snap[w]
             r == xo[g]
  <2>1. GameInv(g) /\ w \in AiWork /\ k \in Kind /\ r \in XoTable
    BY <1>1 DEF BoardsInv, AiWork, Kind, AiKind
  <2>2. s \in Snapshot
    BY <1>1, <2>1 DEF TypeOK, WorkType
  <2>3. pc[w] = "write" /\ s.move # NoMove
    BY <1>3 DEF AiWrite, Played
  <2>4. /\ s.table = r.table /\ s.move \in Cells /\ r.table[s.move] = CELL_EMPTY
        /\ k = "one" <=> r.steps % 2 = 0
    BY <2>1, <2>2, <2>3 DEF GameInv, SnapshotTrue, MoveOpen, OwnersTurn, TurnTrue, Snapshot,
       AiKind
  <2>5. ~MidWrite(g)
    BY <2>1, <2>3, MidWriteHolds DEF GameInv, Holds
  <2>6. Balanced(r)
    BY <2>1, <2>5 DEF GameInv, Recorded, RecordOf
  <2>7. Play!ToMove(r.table) = CellOf(k)
    BY <2>1, <2>4, <2>6, MoverTrue
  <2>8. /\ xo'[g].table = VAL_SET_CELL(r.table, s.move, CellOf(k))
        /\ \A h \in Games : h # g => xo'[h] = xo[h]
    BY <1>1, <1>3, <2>1, <2>3, <2>4 DEF AiWrite, XoTable
  <2>9. Boards' = [Boards EXCEPT ![g] = Play!VAL_SET_CELL(@, s.move, Play!ToMove(@))]
    BY <2>7, <2>8, RulesSame DEF Boards
  <2>10. s.move \in Play!for_each_empty_grid(Boards[g])
    BY <2>4, RulesSame DEF Boards, for_each_empty_grid
  <2>11. Play!Move(g)
    BY <2>9, <2>10 DEF Play!Move, Boards
  <2> QED
    BY <2>11 DEF Play!PlayNext, Games
<1>4. ASSUME NEW k \in AiKind, NEW g \in Games, AiAttr(k, g)
      PROVE  UNCHANGED Boards
  <2>1. \A h \in Games : xo'[h].table = xo[h].table
    BY <1>1, <1>4 DEF AiAttr, XoTable
  <2> QED
    BY <2>1 DEF Boards
<1>5. ASSUME NEW g \in Games, FinishReset(g), fin[g].end = "0"
      PROVE  Play!PlayNext
  <2>1. pc[<<"finish", g>>] = "reset" /\ \E a \in Algs : xo' = [xo EXCEPT ![g] = NewGame(a)]
    BY <1>5 DEF FinishReset
  <2>2. check_win(xo[g].table) # CELL_EMPTY
    BY <2>1 DEF BoardsInv, GameInv, ResultTrue
  <2>3. Play!check_win(Boards[g]) # Play!CELL_EMPTY
    BY <2>2, RulesSame DEF Boards
  <2>4. /\ xo'[g].table = EmptyTable
        /\ \A h \in Games : h # g => xo'[h] = xo[h]
    BY <1>1, <2>1 DEF NewGame
  <2>5. Boards' = [Boards EXCEPT ![g] = Play!EmptyTable]
    BY <2>4, RulesSame DEF Boards
  <2>6. Play!Restart(g)
    BY <2>3, <2>5 DEF Play!Restart, Boards
  <2> QED
    BY <2>6 DEF Play!PlayNext, Games
<1> QED
  BY <1>2, <1>3, <1>4, <1>5, RecordSteps

(* kxo_init leaves empty boards.                                           *)
LEMMA PlayInitially == Init => Play!PlayInit
<1> SUFFICES ASSUME Init PROVE Play!PlayInit
  OBVIOUS
<1>1. \A g \in Games : xo[g].table = EmptyTable
  BY DEF Init, NewGame
<1> QED
  BY <1>1, RulesSame DEF Play!PlayInit, Games

(* The engine implements the game: seen through its boards alone, O and X  *)
(* mark empty cells in turn, and a board is cleared only when it is over,  *)
(* whatever timer, tasklet, work items and closes do in between.           *)
THEOREM EngineImplementsPlay ==
  ASSUME OpenOverlap = FALSE, SoftirqOverlap = FALSE
  PROVE  Spec => PlaySpec
<1>1. BoardsInv /\ [Next]_vars => [Play!PlayNext]_[g \in Games |-> xo[g].table]
  BY PlayStep DEF Boards
<1> QED
  BY <1>1, PlayInitially, BoardsInvariant, PTL DEF Spec, PlaySpec, Play!PlaySpec

-----------------------------------------------------------------------------
(* A step of an AI work item leaves every other one where it is.           *)
LEMMA AiItems ==
  ASSUME TypeOK, NEW k \in AiKind, NEW g \in Games, AiStep(k, g),
         NEW v \in AiWork, v # <<k, g>>
  PROVE  pc'[v] = pc[v] /\ snap'[v] = snap[v]
<1> DEFINE w == <<k, g>>
<1>1. pc \in [Work -> Stage] /\ snap \in [AiWork -> Snapshot] /\ v \in Work
  BY DEF TypeOK, WorkType, AiWork, Work, AiKind
<1>2. pc' = pc \/ \E stage : pc' = [pc EXCEPT ![w] = stage]
  BY DEF AiStep, AiBail, AiBegin, AiLock, AiAgentLock, AiSearch, AiWrite,
     AiAttr, AiReady, AiUnlock
<1>3. snap' = snap \/ \E s : snap' = [snap EXCEPT ![w] = s]
  BY DEF AiStep, AiBail, AiBegin, AiLock, AiAgentLock, AiSearch, AiWrite,
     AiAttr, AiReady, AiUnlock
<1> QED
  BY <1>1, <1>2, <1>3

SearchesAs(k, g, who) ==
  pc[<<k, g>>] = "search" /\ AgentOf(k, snap[<<k, g>>].alg) = who

(* An agent's mutex is released by the handler that searches with it.      *)
LEMMA AgentHeldStep == TypeOK /\ AgentHeld /\ [Next]_vars => AgentHeld'
<1> SUFFICES ASSUME TypeOK, AgentHeld, [Next]_vars, NEW who \in agentLocked'
             PROVE  \E k \in AiKind, g \in Games : SearchesAs(k, g, who)'
  BY DEF AgentHeld, SearchesAs
<1>1. who \in agentLocked => \E k \in AiKind, g \in Games : SearchesAs(k, g, who)
  BY DEF AgentHeld, SearchesAs
<1>2. ASSUME agentLocked' = agentLocked,
             \A v \in AiWork : pc'[v] = pc[v] /\ snap'[v] = snap[v]
      PROVE  \E k \in AiKind, g \in Games : SearchesAs(k, g, who)'
  BY <1>1, <1>2 DEF SearchesAs, AiWork
<1>3. ASSUME NEW j \in AiKind, NEW h \in Games, AiStep(j, h)
      PROVE  \E k \in AiKind, g \in Games : SearchesAs(k, g, who)'
  <2> DEFINE w == <<j, h>>
             own == AgentOf(j, snap[w].alg)
  <2>1. pc \in [Work -> Stage] /\ w \in Work
    BY DEF TypeOK, WorkType, Work, AiKind
  <2>2. CASE who \in agentLocked /\ (\E k \in AiKind, g \in Games : SearchesAs(k, g, who) /\ <<k, g>> # w)
    BY <1>3, <2>2, AiItems DEF SearchesAs, AiWork
  <2>3. CASE who \in agentLocked /\ SearchesAs(j, h, who)
    <3>1. AiSearch(j, h) /\ who = own
      BY <1>3, <2>3 DEF SearchesAs, AiStep, AiBail, AiBegin, AiLock, AiAgentLock, AiSearch,
         AiWrite, AiAttr, AiReady, AiUnlock, Startable
    <3> QED
      BY <3>1 DEF AiSearch
  <2>4. CASE who \notin agentLocked
    <3>1. AiAgentLock(j, h)
      BY <1>3, <2>4 DEF AiStep, AiBail, AiBegin, AiLock, AiAgentLock, AiSearch,
         AiWrite, AiAttr, AiReady, AiUnlock
    <3>2. pc'[w] = "search" /\ snap' = snap /\ who = own
      BY <2>1, <2>4, <3>1 DEF AiAgentLock
    <3> QED
      BY <3>2 DEF SearchesAs
  <2> QED
    BY <1>1, <2>2, <2>3, <2>4
<1>4. ASSUME NEW h \in Games, DrawStep(h) \/ FinishStep(h)
      PROVE  \E k \in AiKind, g \in Games : SearchesAs(k, g, who)'
  <2>1. PICK x \in {"draw", "finish"} : pc' = pc \/ \E stage : pc' = [pc EXCEPT ![<<x, h>>] = stage]
    BY <1>4 DEF DrawStep, DrawSkip, DrawBegin, DrawBusy, DrawLock, DrawFifo,
       FinishStep, FinishBegin, FinishLock, FinishReset, FinishReady, FinishLearn,
       FinishUnlock
  <2>2. agentLocked' = agentLocked /\ snap' = snap
    BY <1>4 DEF DrawStep, DrawSkip, DrawBegin, DrawBusy, DrawLock, DrawFifo,
       FinishStep, FinishBegin, FinishLock, FinishReset, FinishReady, FinishLearn,
       FinishUnlock
  <2>3. \A v \in AiWork : v # <<x, h>> /\ v \in Work
    BY DEF AiWork, Work, AiKind
  <2>4. \A v \in AiWork : pc'[v] = pc[v]
    BY <2>1, <2>3 DEF TypeOK, WorkType
  <2> QED
    BY <1>2, <2>2, <2>4
<1>5. CASE WorkStep
  BY <1>3, <1>4, <1>5 DEF WorkStep
<1>6. CASE TimerFire \/ TimerStep \/ TaskletRun \/ TaskletGame
  BY <1>2, <1>6 DEF TimerFire, TimerStep, TimerScan, TimerCheck, TimerSchedule, TimerRearm,
     TaskletRun, TaskletGame, workVars
<1>7. CASE UserStep
  BY <1>2, <1>7, UserFrame DEF UserStep, workVars
<1>8. CASE (\E s \in Settings : kxo_state_store(s[1], s[2])) \/ UNCHANGED vars
  BY <1>2, <1>8 DEF kxo_state_store, vars, workVars
<1> QED
  BY <1>5, <1>6, <1>7, <1>8, NextSplit

(* Steps of the softirqs and of sysfs change no file.                      *)
LEMMA SoftirqUsers ==
  TimerFire \/ TimerStep \/ TaskletRun \/ TaskletGame => UNCHANGED userVars
BY DEF TimerFire, TimerStep, TimerScan, TimerCheck, TimerSchedule, TimerRearm,
   TaskletRun, TaskletGame

(* A write to sysfs, or none, changes no file either.                      *)
LEMMA SysfsUsers ==
  (\E s \in Settings : kxo_state_store(s[1], s[2])) \/ UNCHANGED vars =>
    UNCHANGED <<gameVars, workVars, timerVars, taskletVars, userVars>>
BY DEF kxo_state_store, vars

(* kxo_stop_work goes up with the last close and down at its end.          *)
LEMMA StopRaisedStep ==
  ASSUME OpenOverlap = FALSE
  PROVE  OwnershipInv /\ StopRaised /\ [Next]_vars => StopRaised'
<1> SUFFICES ASSUME OwnershipInv, StopRaised, [Next]_vars PROVE StopRaised'
  OBVIOUS
<1>1. UNCHANGED userVars => StopRaised'
  BY DEF StopRaised, userVars
<1>2. CASE UserStep
  <2>1. PICK u \in Users : kxo_open(u) \/ kxo_release(u) \/ ReleaseStep(u)
    BY <1>2 DEF UserStep
  <2>2. upc' = [upc EXCEPT ![u] = upc'[u]] /\ upc \in [Users -> UserStage]
    BY <2>1, UserFrame DEF OwnershipInv, TypeOK, ControlType
  <2>3. CASE kxo_open(u)
    <3>1. upc[u] = "closed" /\ upc'[u] = "open" /\ stop' = stop
      BY <2>2, <2>3 DEF kxo_open
    <3> QED
      BY <2>2, <3>1 DEF StopRaised, ReleaseStage
  <2>4. CASE kxo_release(u)
    <3>1. \/ upc[u] = "open" /\ upc'[u] = "attr" /\ stop' = stop
          \/ upc'[u] = "deltimer" /\ stop' = TRUE
      BY <2>2, <2>4 DEF kxo_release
    <3> QED
      BY <2>2, <3>1 DEF StopRaised, ReleaseStage
  <2>5. CASE ReleaseStart(u)
    <3>1. upc[u] \in ReleaseStage /\ upc'[u] = "attr" /\ stop' = FALSE
      BY <2>2, <2>5 DEF ReleaseStart, ReleaseStage
    <3>2. \A v \in Users : v # u => upc[v] \notin ReleaseStage
      BY <3>1 DEF OwnershipInv, ReleaseAlone, ReleaseStage
    <3> QED
      BY <2>2, <3>1, <3>2 DEF StopRaised, ReleaseStage
  <2>6. CASE ReleaseAttr(u)
    <3>1. upc[u] = "attr" /\ upc'[u] = "closed" /\ stop' = stop
      BY <2>2, <2>6 DEF ReleaseAttr
    <3> QED
      BY <2>2, <3>1 DEF StopRaised, ReleaseStage
  <2>7. CASE ReleaseStep(u) /\ ~ReleaseStart(u) /\ ~ReleaseAttr(u)
    <3>1. upc[u] \in ReleaseStage /\ upc'[u] \in ReleaseStage /\ stop' = stop
      BY <2>2, <2>7 DEF ReleaseStep, ReleaseDelTimer, ReleaseKill, ReleaseFlush,
         ReleaseFlushed, ReleaseGame, ReleaseStage
    <3> QED
      BY <2>2, <3>1 DEF StopRaised
  <2> QED
    BY <2>1, <2>3, <2>4, <2>5, <2>6, <2>7
<1> QED
  BY <1>1, <1>2, NextSplit, WorkFrame, SoftirqUsers, SysfsUsers

(* With timer, tasklet and workqueue stopped, only files and sysfs move.   *)
LEMMA StoppedMoves ==
  ASSUME TimerStopped, TaskletStopped, WorkStopped, [Next]_vars
  PROVE  UserStep \/ UNCHANGED <<gameVars, workVars, timerVars, taskletVars, userVars>>
<1>1. ~(TimerFire \/ TimerStep \/ TaskletRun \/ TaskletGame)
  BY DEF TimerFire, TimerStep, TimerScan, TimerCheck, TimerSchedule, TimerRearm,
     TaskletRun, TaskletGame, TimerStopped, TaskletStopped
<1> QED
  BY <1>1, NextSplit, WorkNeeded, SysfsUsers

(* The games that the last close has passed stay ready until it returns.   *)
LEMMA HandedBackStep ==
  ASSUME OpenOverlap = FALSE
  PROVE  OwnershipInv /\ HandedBack /\ [Next]_vars => HandedBack'
<1> SUFFICES ASSUME OwnershipInv, HandedBack, [Next]_vars,
                    NEW v \in Users, NEW g \in Games, upc'[v] = "games", g < rgi'[v]
             PROVE  state'[g] = GAME_READY
  BY DEF HandedBack
<1>1. /\ TypeOK /\ StoppedFor(v) /\ ReleaseAlone
      /\ upc \in [Users -> UserStage] /\ rgi \in [Users -> 0 .. N_GAMES]
  BY DEF OwnershipInv, ReleaseStops, TypeOK, ControlType
<1>2. CASE upc[v] = "games"
  <2>1. TimerStopped /\ TaskletStopped /\ WorkStopped
    BY <1>1, <1>2 DEF StoppedFor
  <2>2. CASE UNCHANGED <<gameVars, userVars>>
    BY <1>2, <2>2 DEF HandedBack, gameVars, userVars
  <2>3. CASE UserStep
    <3>1. PICK u \in Users : kxo_open(u) \/ kxo_release(u) \/ ReleaseStep(u)
      BY <2>3 DEF UserStep
    <3>2. upc[u] \in {"closed", "attr"} \/ u = v
      BY <1>1, <1>2 DEF ReleaseAlone, ReleaseStage
    <3>3. upc[u] # "closed" \/ ~kxo_open(u)
      BY <1>2 DEF kxo_open, ReleaseStage
    <3>4. ReleaseAttr(u) \/ (u = v /\ ReleaseGame(v))
      BY <1>1, <1>2, <3>1, <3>2, <3>3 DEF kxo_open, kxo_release, ReleaseStep, ReleaseDelTimer,
         ReleaseKill, ReleaseFlush, ReleaseFlushed, ReleaseGame, ReleaseStart, ReleaseAttr
    <3>5. CASE ReleaseAttr(u)
      BY <1>2, <3>5 DEF ReleaseAttr, HandedBack, gameVars
    <3>6. CASE ReleaseGame(v)
      <4>1. /\ rgi' = [rgi EXCEPT ![v] = rgi[v] + 1]
            /\ state' = [state EXCEPT ![rgi[v]] = IF @ = GAME_DONE THEN GAME_READY ELSE @]
            /\ rgi[v] \in Nat /\ g \in Nat /\ state \in [Games -> {GAME_BUSY, GAME_READY, GAME_DONE}]
        BY <1>1, <3>6, GamesRange DEF ReleaseGame, TypeOK, GamesType
      <4>2. CASE g < rgi[v]
        BY <1>2, <4>1, <4>2 DEF HandedBack
      <4>3. CASE g = rgi[v]
        <5>1. ~AiOwns("one", g) /\ ~AiOwns("two", g)
          BY <2>1, WorkStages DEF WorkStopped, AiOwns, AiKind
        <5>2. state[g] # GAME_BUSY
          BY <5>1 DEF OwnershipInv, Ownership, OneOwner
        <5> QED
          BY <4>1, <4>3, <5>2
      <4> QED
        BY <1>1, <4>1, <4>2, <4>3
    <3> QED
      BY <3>4, <3>5, <3>6
  <2> QED
    BY <2>1, <2>2, <2>3, StoppedMoves
<1>3. CASE upc[v] # "games"
  <2>1. upc'[v] # upc[v]
    BY <1>3
  <2>2. UserStep
    BY <2>1, NextSplit, WorkFrame, SoftirqUsers, SysfsUsers DEF userVars
  <2>3. PICK u \in Users : kxo_open(u) \/ kxo_release(u) \/ ReleaseStep(u)
    BY <2>2 DEF UserStep
  <2>4. u = v
    BY <1>1, <2>1, <2>3, UserFrame
  <2>5. ReleaseFlushed(v)
    BY <1>1, <1>3, <2>3, <2>4 DEF kxo_open, kxo_release, ReleaseStep, ReleaseDelTimer,
       ReleaseKill, ReleaseFlush, ReleaseFlushed, ReleaseGame, ReleaseStart, ReleaseAttr
  <2>6. rgi'[v] = 0
    BY <1>1, <2>5 DEF ReleaseFlushed
  <2> QED
    BY <2>6, GamesRange
<1> QED
  BY <1>2, <1>3

(* The engine comes to rest with the last close, and stays there.          *)
LEMMA AtRestStep ==
  ASSUME OpenOverlap = FALSE
  PROVE  OwnershipInv /\ HandedBack /\ AtRest /\ [Next]_vars => AtRest'
<1> SUFFICES ASSUME OwnershipInv, HandedBack, AtRest, [Next]_vars, Closed'
             PROVE  /\ TimerStopped' /\ TaskletStopped' /\ WorkStopped'
                    /\ \A g \in Games : state'[g] = GAME_READY
  BY DEF AtRest
<1>1. /\ TypeOK /\ ReleaseStops
      /\ upc \in [Users -> UserStage]
  BY DEF OwnershipInv, TypeOK, ControlType
<1>2. ASSUME TimerStopped, TaskletStopped, WorkStopped, \A g \in Games : state[g] = GAME_READY,
             UNCHANGED <<state, workVars, timerVars, taskletVars>>
      PROVE  /\ TimerStopped' /\ TaskletStopped' /\ WorkStopped'
             /\ \A g \in Games : state'[g] = GAME_READY
  BY <1>2 DEF TimerStopped, TaskletStopped, WorkStopped, workVars, timerVars, taskletVars
<1>3. CASE Closed
  <2>1. /\ TimerStopped /\ TaskletStopped /\ WorkStopped
        /\ \A g \in Games : state[g] = GAME_READY
    BY <1>3 DEF AtRest
  <2>2. CASE UNCHANGED <<gameVars, workVars, timerVars, taskletVars, userVars>>
    BY <1>2, <2>1, <2>2 DEF gameVars
  <2>3. CASE UserStep
    <3>1. PICK u \in Users : kxo_open(u) \/ kxo_release(u) \/ ReleaseStep(u)
      BY <2>3 DEF UserStep
    <3>2. upc[u] \in {"closed", "attr"} /\ upc'[u] \in {"closed", "attr"}
      BY <1>3 DEF Closed
    <3>3. ReleaseAttr(u)
      BY <1>1, <3>1, <3>2 DEF kxo_open, kxo_release, ReleaseStep, ReleaseDelTimer,
         ReleaseKill, ReleaseFlush, ReleaseFlushed, ReleaseGame, ReleaseStart, ReleaseAttr
    <3> QED
      BY <1>2, <2>1, <3>3 DEF ReleaseAttr, gameVars
  <2> QED
    BY <2>1, <2>2, <2>3, StoppedMoves
<1>4. CASE ~Closed
  <2>1. PICK u \in Users : upc[u] \notin {"closed", "attr"}
    BY <1>4 DEF Closed
  <2>2. upc'[u] \in {"closed", "attr"} /\ upc'[u] # upc[u]
    BY <2>1 DEF Closed
  <2>3. UserStep
    BY <2>2, NextSplit, WorkFrame, SoftirqUsers, SysfsUsers DEF userVars
  <2>4. PICK v \in Users : kxo_open(v) \/ kxo_release(v) \/ ReleaseStep(v)
    BY <2>3 DEF UserStep
  <2>5. v = u /\ upc' = [upc EXCEPT ![u] = upc'[u]]
    BY <1>1, <2>2, <2>4, UserFrame
  <2>6. ~kxo_release(u)
    <3> SUFFICES ASSUME kxo_release(u) PROVE FALSE
      OBVIOUS
    <3>1. PICK o \in Users \ {u} : upc[o] = "open"
      BY <1>1, <2>2 DEF kxo_release
    <3>2. upc'[o] = "open"
      BY <1>1, <2>5, <3>1
    <3> QED
      BY <3>1, <3>2 DEF Closed
  <2>7. ReleaseStart(u)
    BY <1>1, <2>1, <2>2, <2>4, <2>5, <2>6 DEF kxo_open, ReleaseStep, ReleaseDelTimer,
       ReleaseKill, ReleaseFlush, ReleaseFlushed, ReleaseGame, ReleaseStart, ReleaseAttr
  <2>8. upc[u] = "games" /\ rgi[u] = N_GAMES /\ UNCHANGED <<gameVars, workVars, timerVars, taskletVars>>
    BY <2>7 DEF ReleaseStart
  <2>9. TimerStopped /\ TaskletStopped /\ WorkStopped
    BY <1>1, <2>8 DEF ReleaseStops, StoppedFor
  <2>10. \A g \in Games : g < N_GAMES
    BY GamesRange
  <2>11. \A g \in Games : state[g] = GAME_READY
    BY <2>8, <2>10 DEF HandedBack
  <2> QED
    BY <1>2, <2>8, <2>9, <2>11 DEF gameVars
<1> QED
  BY <1>3, <1>4

(* kxo_init leaves the engine at rest.                                     *)
LEMMA EngineInit == Init => EngineInv
<1> SUFFICES ASSUME Init PROVE EngineInv
  OBVIOUS
<1>1. BoardsInv
  BY BoardsInit
<1>2. AgentHeld /\ StopRaised /\ HandedBack
  BY DEF Init, AgentHeld, StopRaised, HandedBack, ReleaseStage
<1>3. AtRest
  BY DEF Init, AtRest, TimerStopped, TaskletStopped, WorkStopped
<1> QED
  BY <1>1, <1>2, <1>3 DEF EngineInv

(* All that the proofs know of the reachable states of the engine.         *)
THEOREM EngineInvariant ==
  ASSUME OpenOverlap = FALSE, SoftirqOverlap = FALSE
  PROVE  Spec => []EngineInv
<1>1. EngineInv /\ [Next]_vars => BoardsInv'
  BY BoardsInvStep DEF EngineInv
<1>2. EngineInv /\ [Next]_vars => AgentHeld' /\ StopRaised'
  BY AgentHeldStep, StopRaisedStep DEF EngineInv, BoardsInv, OwnershipInv
<1>3. EngineInv /\ [Next]_vars => HandedBack' /\ AtRest'
  BY HandedBackStep, AtRestStep DEF EngineInv, BoardsInv
<1>4. EngineInv /\ [Next]_vars => EngineInv'
  BY <1>1, <1>2, <1>3 DEF EngineInv
<1> QED
  BY <1>4, EngineInit, PTL DEF Spec

(* Between the return of the last close and the next open nothing of the   *)
(* engine is pending or running, no mutex is held and every game can be    *)
(* continued, for any number of games and files.                           *)
THEOREM ClosedIsQuiescent ==
  ASSUME OpenOverlap = FALSE, SoftirqOverlap = FALSE
  PROVE  Spec => []Quiescent
<1>1. EngineInv => Quiescent
  <2> SUFFICES ASSUME EngineInv, Closed
               PROVE  /\ ~armed /\ tpc = "idle" /\ ~sched /\ twork = {}
                      /\ pend = {} /\ \A w \in Work : pc[w] = "idle"
                      /\ locked = {} /\ agentLocked = {} /\ ~stop
                      /\ \A g \in Games : state[g] = GAME_READY
    BY DEF Quiescent
  <2>1. /\ TimerStopped /\ TaskletStopped /\ WorkStopped
        /\ \A g \in Games : state[g] = GAME_READY
    BY DEF EngineInv, AtRest
  <2>2. TypeOK /\ pend = {}
    BY <2>1 DEF EngineInv, BoardsInv, OwnershipInv, TypeOK, WorkType, WorkStopped
  <2>3. \A w \in Work : ~Holds(w) /\ pc[w] = "idle"
    BY <2>1 DEF WorkStopped, Holds
  <2>4. locked = {}
    <3>1. \A g \in Games : g \notin locked
      BY <2>3 DEF EngineInv, BoardsInv, GameInv, MutexHeld, Kind, Work
    <3> QED
      BY <2>2, <3>1 DEF TypeOK, GamesType
  <2>5. agentLocked = {}
    BY <2>3, WorkStages DEF EngineInv, AgentHeld
  <2>6. ~stop
    BY DEF EngineInv, StopRaised, Closed, ReleaseStage
  <2> QED
    BY <2>1, <2>2, <2>3, <2>4, <2>5, <2>6 DEF TimerStopped, TaskletStopped
<1> QED
  BY <1>1, EngineInvariant, PTL
==============================================================================
