# A verification development for kxo

kxo is a Linux kernel module that plays nine games of tic-tac-toe at once, and
a terminal viewer for them. This directory holds TLA+ models of its parts, the
TLC configurations that check them on small instances, and theorems about
them with proofs for TLAPS. Paths below are relative to the root of the
repository.

## 1. Inventory

### Game engine (`src/main.c`, `include/ai-game.h`)

*State*: nine `struct ai_game` (board record `xo_tlb`, `turn`, `state` in
BUSY/READY/DONE, a mutex, three work items), `finish_works[]`,
`episode_moves[]`, the game timer, the tasklet and its data word, the
workqueue "kxod", `kxo_stop_work`, `open_cnt`.

*Operations*: `timer_handler` scans the games every 100 ms, hands finished ones
to `finish_game_work_func` and the mask of the others to `game_tasklet_func`,
which marks a ready game busy and queues `ai_one_work_func` or
`ai_two_work_func`, and a `drawboard_work_func` for every game of the mask. An AI
handler plays one move and hands the game back. The first open arms the timer,
the last close stops everything in a fixed order.

*Hard*: timer, tasklet, four kinds of work item on any number of workers, open,
close and sysfs writes interleave freely. Timer and tasklet take no lock; the AI
handlers read `attr` and `table` before they take one, and store whole words
computed from what they read, seconds later. What keeps two handlers off one
game is only the protocol of `state`.

*Correct means*: a game has one owner at a time; what was read without a lock
is still true when it is used; boards change by legal moves only; readers never
see a half-written record; a close returns, and leaves nothing running; play
goes on while someone watches.

### Board and rules (`include/game.h`, `src/game.c`)

Packed boards, bit fields of the attribute word, win patterns. Pure. Correct
means: generated patterns are the lines of the board; the win test finds them.

### Agents

- *MCTS* (`src/mcts.c`): search tree, fixed-point UCT score, answers -1 when
  stopped or out of memory. Hard: allocation failures in the middle of an
  expansion, overflow of the fixed-point logarithm.
- *Negamax* (`src/negamax.c`) with the *Zobrist table* (`src/zobrist.c`): principal
  variation search with a transposition table. Hard: bounds stored as scores,
  collisions.
- *RL* (`src/rl.c`) with the *state store* (`src/rl-state.c`): a table of 2^14
  positions with a bitmap of slots, a hash table and a list in order of
  eviction. Correct means: list, bitmap and slots agree, nothing leaks, a slot is
  always free, eviction takes what should go.
- *Random numbers* (`src/xoroshiro.c`): vendored arithmetic.

### Character device, fifo, load average, sysfs (`src/main.c`)

`produce_board` puts 16-byte records into a kfifo under `consumer_lock`, `kxo_read`
takes them out under `read_lock`, sleeping on a wait queue; `kxo_poll`;
`kxo_ioctl` copies the load averages that `loadavg_handler` computes under
`avg_lock`; `kxo_state_show` and `kxo_state_store` exchange three characters. Hard:
a full fifo takes part of a record; reads of any length, even none, and faults in the
middle of one; a wakeup between test and sleep; averages copied without the lock;
overflow of the packed averages.

### Module load and unload (`kxo_init`, `kxo_exit`)

Builds eight resources with an error path, tears them down again.

### Viewer (`user/xo-user.c`, `user/tui.c`, `user/coro.c`)

A cooperative coroutine runtime (pool of 16, FIFO run queue, one buffered channel
with one remembered waiter on each side), a loop that starts three coroutines
per round, the keyboard's writes to sysfs, and the screen. Hard: a wakeup lost, a
waiter used after it was woken, the pool filling with coroutines nobody wakes, a
stack that cannot be mapped.

### How the parts meet

Timer, tasklet and work items share the games and call each other through
`tasklet_schedule`, `mod_timer` and `queue_work`. The engine calls an agent under
the game's mutex, and under the agent's for MCTS and negamax. It hands records to
the fifo, episodes to the RL store and times to the load average. The viewer
opens the device, reads records and writes `kxo_state`, which the engine polls
through `kxo_shutting_down`.

## 2. Modules

| module | what it is |
|---|---|
| `KxoBoard` | cells, win test, agent numbers |
| `KxoPlay` | abstract specification: what happens on the boards |
| `KxoEngine` | the engine: one action per stretch of handler code |
| `KxoEngineProps` | type invariant, safety, liveness, refinement of the engine |
| `KxoEngineInv` | the inductive invariants of the engine, in three layers |
| `KxoEngineOwnership` | proofs of `TypeCorrect` and of `OwnershipSafe`: `OwnershipInv` is inductive |
| `KxoEngineSafety` | proof that `BoardsInv` is inductive; the engine's safety theorems, its refinement of `KxoPlay`, and `ClosedIsQuiescent` |
| `KxoRlStore` | the RL agent's table of positions |
| `KxoRlProofs` | proofs: the table stays consistent, learnt values stay in range |
| `KxoStream` | abstract specification: a queue of whole records |
| `KxoFifo` | the kfifo between works and readers, with the wait queue |
| `KxoFifoProofs` | proofs: wakeups, every byte accounted for, whole records, refinement of `KxoStream` |
| `KxoChannel` | abstract specification: a bounded FIFO |
| `KxoCoro` | coroutine runtime and channel |
| `KxoViewer` | viewers on the device and on `kxo_state` |
| `KxoLifecycle` | load, opens and closes, unload |
| `KxoLifecycleProofs` | proofs: every path gives back what was taken, a closed device is quiet |
| `KxoLoadAvg` | load averages, from the works to the reader |
| `KxoLoadAvgProofs` | proofs: time is counted once, a copy mixes two publications, averages shown |
| `KxoLines` | winning lines and the score of a board, for any size |
| `KxoLinesProofs` | proofs: the lines generated are the straight runs of the board |
| `KxoPacked` | a game in packed words, implementing `KxoPlay` |
| `KxoNegamax` | the negamax search with its Zobrist table |
| `KxoFixed` | fixed-point square root, logarithm and UCT score |
| `KxoUct` | what the UCT score says of a child as visits go by |
| `KxoMcts` | the MCTS search tree, one iteration per step |
| `KxoRlLearn` | the values the RL agent learns |
| `KxoScreen` | what the viewer leaves on the terminal |
| `KxoOutbuf` | the viewer's output buffer |
| `KxoUserProofs` | proofs about coroutines, viewer and output buffer |
| `MC*` | values of the constants for TLC |

`KxoMcts` extends `KxoLines` and `KxoFixed`; `KxoNegamax` and `KxoPacked` extend
`KxoLines`; `KxoUct` extends `KxoFixed`. Abstract specifications and what implements them:
`KxoPlay` by `KxoEngine` and by `KxoPacked`, `KxoStream` by `KxoFifo`, `KxoChannel` by `KxoCoro`.

Operators marked `MUTANT` in a module are slightly wrong versions of the
definition that follows them. They take no part in a specification: replacing
the definition by its mutant must make TLC report the property PROJECT.json pairs it
with, which shows that the property depends on that line of the code.

### The engine and the code

A variable stands for each piece of shared state; `pc[w]` is where the handler of
work item `w` is, `snap` and `fin` hold its locals. The attribute word is its
fields `steps` and `alg`; the game number in it is constant. Boards are functions
from cells to marks.

| code | actions |
|---|---|
| `ai_one_work_func`, `ai_two_work_func` | `AiBail`, or `AiBegin` (unlocked reads), `AiLock`, `AiAgentLock`, `AiSearch`, `AiWrite` (table, moves, episode), `AiAttr` (attr, turn), `AiReady`, `AiUnlock` |
| `drawboard_work_func` | `DrawSkip`, or `DrawBegin`, then `DrawBusy`, or `DrawLock`, `DrawFifo` |
| `finish_game_work_func` | `FinishBegin`, `FinishLock`, `FinishReset`, `FinishReady`, `FinishLearn`, `FinishUnlock` |
| `timer_handler` | `TimerFire`, `TimerScan` and `TimerCheck` per game, `TimerSchedule`, `TimerRearm` |
| `game_tasklet_func` | `TaskletRun`, `TaskletGame` per game |
| `kxo_open` | `kxo_open` |
| `kxo_release` | `kxo_release`, `ReleaseDelTimer`, `ReleaseKill`, `ReleaseFlush`, `ReleaseFlushed`, `ReleaseGame` per game, `ReleaseStart`, `ReleaseAttr` |
| `kxo_state_store` | `kxo_state_store` |

An agent's answer is any empty cell, or -1 where its code can give -1: on a
finished board for MCTS and negamax, on a full one for RL, and for MCTS whenever
it is stopped or an allocation fails.

Granularity: two accesses of a handler are one step only if no other handler
can tell, that is when at most one of them touches shared words that someone
reads or writes without the same lock. Merged this way: the shutdown test
and the store of `state` in `AiBail`; the reads of `attr` and `table` in `AiBegin`
(the board has one owner between them); lock, test and unlock in `DrawBusy`; the
load-average accumulation in `AiUnlock`. `open_cnt` is the number of open files.
`TaskletRun` clears the data word, which the code leaves; it is always written
again before the tasklet is scheduled again.

The kernel's part is external: a work item already pending is not queued again, a
work item never runs on two workers at once, a pending item may be queued again
once it has started; `flush_workqueue` waits for the instances pending or running
when it began; `del_timer_sync` waits for the handler and cancels the timer;
`tasklet_kill` waits for a scheduled tasklet. Stores are seen in program order
(sequential consistency); the barriers in the code are not modelled.

Two constants are assumptions on the environment:

- `SoftirqOverlap = FALSE`: timer handler and tasklet do not run at the same
  time. The handler schedules the tasklet on its own CPU, where softirqs run one
  after the other; the timer could only expire elsewhere if that CPU starved
  the tasklet for 100 ms after it had begun to run.
- `OpenOverlap = FALSE`: nobody opens the device while the last close executes.
  The kernel does *not* guarantee this. All safety runs and all engine theorems but
  `TypeCorrect` assume it; the run `engine_reopen` shows what happens without it.

### The store and the code

`play_rl` and `update_state_value` take `rl_lock` and leave in `lookups` the positions their loop will look
up: those behind the empty cells of a board, or an episode, last step first. `LookUp` is one iteration:
`find_rl_state` of the next position, which is `Hit` (`list_move_tail`) or `Insert` (`clean_state` when
`Full`, `find_first_zero_bit`, `list_add`). `rl_lock` is free when `lookups` is empty. The hash chains always
hold the listed positions and are left out, as are the values. `older` (which of two listed positions
was used before the other) and `lru` are history variables.

### The fifo and the code

A byte is its producer and its place in the record; what the record says is the
engine's business (`ShownReplayable`). Reads ask for any of `Counts` bytes, 0 included, and those
of `Faulting` readers may stop at a fault (`ReadFault`): the index moves over what was
copied all the same, as in `kfifo_to_user`. A work goes through `LockConsumer`,
`produce_board` (copy), `Publish` (the index moves, `consumer_lock` is released) and
`wake_up`, a reader through `kxo_read`, `ReadCopy`, `ReadAdvance`, or `ReadTest` and sleep;
`kxo_poll` and `PollTest` are the same wait without the lock. Who holds a mutex
follows from the stages. A blocking read of 0 bytes alternates between `ReadCopy` and `ReadTest` while there is
data, as the loop of `kxo_read` does. Indices wrap at `IndexRange`, a multiple of the size as 2^32
is of PAGE_SIZE. That PAGE_SIZE is a multiple of `sizeof(struct xo_table)` is an
assumption (`FifoAssumption`); without it a full fifo would take half a record.

### The runtime and the code

`state`, `runq`, `current` are the pool and the run queue, `buf`, `head`, `tail`, `count`
the ring, `recv_waiter` and `send_waiter` the remembered coroutines. `body` is the
sequence of channel calls and yields a coroutine has left. `co_start` takes the first
free slot (`StartsOn`), or silently starts nothing (`StartsNothing`) for want of a slot or of a stack. A slot whose
first `mmap` failed is `broken`: its pointer is `MAP_FAILED`, which is not NULL, so that the next `co_start` which
comes to it writes below that address and the viewer has `crashed`. A step lasts until the next switch of
context, as everything runs on one thread. `Rounds` is what main starts before each
`co_run`; the viewer's round is print, send, receive. `missed` is a history variable: a `co_start` has
started nothing, for want of a slot or of a stack.

### The viewer and the code

A round of `main` is `Select` (task_io up to its branch), `Read` or `KeyRead`, then for the two
control keys `TogglePause` or `StopGames` (the write back), then `Draw` or `Quit`. The engine
is what matters to a viewer: a timer that stops when it finds `end` set, and draw works
that test `display` and later produce a record. `CloseFile` is `kxo_release`: it resets `kxo_state`, and is also
what the kernel does for a killed viewer. `alone` is a history variable: no second file was opened since there was
none. Reads of `kxo_state` and writes to it are steps of
their own, as they are system calls.

### Load, open, close, unload and the code

`kxo_init` takes the resources of `Taken` one by one; a failure (`Fail`) jumps to
the label `ErrorLabel` gives, which gives back what `UnwindOrder` lists from there on. Of
what runs, only whether it is pending is represented. `kxo_release` is one step per call. An
open that overlaps the last close is allowed here: the properties concern the time when no
handler of a file is under way.

### The load average and the code

A work is `AiStart`, `AiMoved`, `AiLockAvg`, `AiAdd`; `loadavg_handler` is `LoadavgStart` and then a step per word it
publishes (`PublishWord`), as `kxo_ioctl` copies words in between; `ArmLoadavg` and `DelLoadavg` are what the first open
and the last close do. Time is a number of ticks and passes while nobody holds `avg_lock`; every bound on it is in
`Tick`, none in an operation. A work's time begins before it has the agent's mutex. `calc_load`, `LOAD_INT` and
`LOAD_FRAC` are the kernel's. Fixed point and decay are small (2, 1/2), which makes averages move fast.

### Boards in words and the code

`KxoLines` generates the lines as `fill_win_patterns` does, from the four directions and
their bounds, for any size of board. `KxoPacked` keeps table, attr and moves as the sets of their bits that are set and
works on them by the bit operations of `game.h`, of which `set_bits` does not mask the value it stores. `Play` is what
the work functions write for a move, on a finished board too, as nothing in them looks at it.

### Agents and the code

`KxoNegamax`: a search is an operator from the memory (hash, table, history) to the result
and the memory it leaves; `Search` is one iteration of the loop of `negamax_predict` with its
`zobrist_clear`. A hash key is the set of marks put since the root: keys do not collide. Squares with
equal history may come in any order `TieOrders` allows, as heapsort is not stable.

`KxoMcts`: `Iterate` is one turn of the loop of `mcts`, from the root down to a score;
`kxo_stop_work` may be set between any two. A rollout ends in any result that moves lead to.
`expand` may be refused a node at any point, at most `MaxRefusals` times a search.

`KxoFixed`: words of 2 × `FIXED_SCALE_BITS` bits, with the code's unsigned arithmetic. `KxoUct`
follows one child and its parent through the iterations of a search.

`KxoRlLearn`: values of the positions of one player, updated backwards along an episode this player
won (only winners learn, main.c:504-506). A position may be evicted and start again at any time. The unit
`RL_FIXED_1` is a constant, 2^16 in the program.

### The screen and the code

A piece of the screen (a board's name, its grid, a line of moves, a tab's border, ...) has the cells
that its function computes and shows one number. `Paint` spoils every other piece with a cell in
common, so overlaps are found in whatever order they happen. `Io` is the end of `task_io`, `Tab*` are
`task_tab` and the clock of the next round. In `KxoOutbuf` a byte is its number; `outbuf_write` and
`outbuf_printf` are one step each.

## 3. Runs

The engine has runs of its own, because its properties need different instances. The other
components share nothing with each other in the models, so two runs hold them: a rigid variable
`moving` picks one part per behaviour, the others rest in an initial state. A property of a part is
checked in every behaviour in which that part moves, exactly as in a run of its own. A module with
proofs is extended, not instantiated, and its properties are checked as they stand, so that what TLC
checks and what is proved is the same definition. For the others the MC modules join the invariants
that a module states under separate names, and guard those that are dear to evaluate by `moving`.

The engine:

| run | instance | states | shows |
|---|---|---|---|
| `engine_play` | 1 game, 4 cells, 3 lines, 1 file, MCTS-RL and RL-negamax | 0.7 M | `TypeOK`; `SnapshotFresh`: unlocked reads stay true; `BoardConsistent`: table, move list, steps and turn agree; `ShownReplayable`: no half-written record reaches a reader; `EpisodeMatches`: RL learns from the running game only; `Ownership`: one owner per game; `FinishTrue`: the winner stored without a lock is the board's; `PlaySpec`: the boards implement `KxoPlay` |
| `engine_sessions` | 1 game, 2 cells, 2 files, sysfs writes | 0.2 M | `EngineInv`, the inductive invariant of all three layers; `Quiescent`: nothing runs after the last close |
| `engine_live` | 1 game, 2 cells, 1 file, sysfs writes, fairness | 49 k | `ReleaseReturns`, `BusyEnds`, `TimerGoesOn`, `GamesGoOn` |

`fifo_store` (1.0 M states), what several contexts enter at once or what fills up:

| part | instance | shows |
|---|---|---|
| `KxoFifo` | 2 works, 2 readers (one `O_NONBLOCK`), fifo of 2 records of 2 bytes, indices modulo 8; reads of whole records, or of 0 or 3 bytes with faults; fairness | `WholeRecords`: bytes are neither mixed nor overwritten; `BytesAccounted`: the fifo loses what a read copied to its caller, gains what a work copied in, and nothing else happens to it; `SleeperWoken`: no lost wakeup; `ReaderServed`: a blocking read of a byte or more returns once there is data; `StreamSpec`: implements `KxoStream`, so no record is read twice or skipped |
| `KxoRlStore` | 3 cells, 6 positions (`LastIsX`), 4 slots | `StoreTrue`: `StoreConsistent` (list, slots, bitmap) and `EvictionOrder` (what the list order means) |
| `KxoLoadAvg` | 1 game, periods of 2 to 3 ticks, moves of up to 2, or of 66 by one agent | `WorkCounted`, `ShownTrue`: nothing is lost by adding or packing but what four bits do not hold; `CopyMixesTwo` |

`parts` (0.16 M states), the parts that have their state to themselves:

| part | instance | shows |
|---|---|---|
| `KxoLifecycle` | 3 files, failures everywhere | `Unwound`: everything is given back in order; `QuietWhenClosed` |
| `KxoPacked` | 4x4, three in a row, one pair of agents, games of up to 16 moves from three openings (`OpeningsOnly`) | `GameTrue`: wins are found (`WinTrue`), moves replay to the table (`Replays`), fields keep their bits (`FieldsKept`), scores are zero-sum (`ScoreZeroSum`); `GamePlaysOn`: the words implement `KxoPlay` |
| `KxoNegamax` | 4x4 boards with 4 or 5 empty cells (`FiveOrFourLeft`), depths 2 and 4, two orders of equals | `NegamaxTrue`: `MoveLegal`, `HashRestored`, `ShallowExact` |
| `KxoMcts` | 4x4 boards with 2 or 3 empty cells (`ThreeOrTwoLeft`), 10 iterations, 1 refusal, stop at any time | `MctsTrue`: `TreeLegal`, `VisitsAddUp`, `ScoresAddUp`, `AnswerMade` |
| `KxoRlLearn` | 3 positions, 4 fraction bits, a rate of 1/4, a discount of 15/16 | `ValuesBounded`, `WinNeverLowered` |
| `KxoViewer` | two viewers, the control keys (the second one's only Ctrl-P), fifo of 1, fairness | `PauseAgrees`: `read_attr` is the module's display while no other file is open; `KeysServed`: keys are handled while records keep coming |
| `KxoScreen` | 9 boards, 2 neighbouring games live, 2 seconds | `ScreenTrue`: `BoardsTrue`, `StopTrue`, `TabTrue`, `LinesTrue` |
| `KxoOutbuf` | buffer of 5, threshold 3, texts of 1 to 6 bytes | `OutbufTrue`: `InOrder`, `LeavesClean` |
| `KxoCoro`, part `main` | pool of 4, channel of 2, the viewer's round again and again (`MainAgain`), mmap may fail and the viewer crash | `PoolConsistent`: queue and states agree; `ChannelSpec`: the ring implements `KxoChannel` |
| `KxoCoro`, part `rounds` | pool of 4, channel of 2, 3 messages per round, any rounds, no failure (`EveryStack`) | the same, and `ChannelDrains`, unless a `co_start` missed its body: `NoLostWakeup`, `RoundsDrain` |

Runs that end in a violation, each on a statement of the documentation:

| run | property | what the code does |
|---|---|---|
| `engine_played_on` | `NoMoveAfterWin` | The tasklet does not look at the board. A game that was busy when the timer scanned it, and won before the tasklet runs, is dispatched again; RL then plays on. MCTS and negamax answer -1 and nothing happens. The game still ends at the next tick, possibly with the other winner. |
| `engine_lost_timer` | `TimerAlive` | Any close sets `end` back to '0'. If the timer stopped meanwhile, a second reader is left with an idle engine until all files are closed. |
| `engine_reopen` | `BoardConsistent` | An open that overlaps the last close starts what the close is stopping; the close hands a finished game back to the timer while its finish work is pending, and an AI handler then stores words it read before the reset. |
| `rl_lru` | `LruEviction` | New positions enter the list at the end that is evicted first. |
| `viewer_requeststays` | `RequestStays` | `kxo_state` is read, changed and written back: one viewer's Ctrl-P undoes another's Ctrl-Q. |
| `viewer_terminate` | `TerminateWorks` | A viewer leaves right after its Ctrl-Q, and its close sets `end` back to '0'. If another file is open and no tick came in between, the games go on. |
| `uct_overflow` | `VisitsBalance` | From 32769 visits of a node on (65 in the instance, words of 14 bits) the logarithm takes its argument for negative and answers with its sign bit set: 32772 in place of 4. The exploration term jumps about ninetyfold and then falls with the visits of the siblings. |

### Limits of the properties that pass

What the code does that the properties above do not forbid. None of it contradicts a sentence of the
documentation plainly enough to be listed as a finding:

- A blocking read of 0 bytes that finds data never returns: `kfifo_to_user` copies nothing, the wait ends at once with 0,
  and the loop (main.c:600-611) goes on, holding `read_lock`; no signal ends it. The model has it (`Counts`), and
  `ReaderServed` is about reads of a byte or more. With O_NONBLOCK such a read gets -EAGAIN.
- A load average of 16 or more is shown modulo 16. A work's time includes its wait for `mcts_lock` behind as many as
  eight searches (main.c:238-280), and an average does not fall in periods in which its agent did nothing
  (main.c:427), so nothing keeps it below. `ShownTrue` says that the rest of the word is right.
- A viewer that `select` sent to a record which another one then took sleeps in `read` with its keyboard
  unwatched (xo-user.c:118). It wakes with the next record; `KeysServed` assumes that records keep coming, and once the
  games have stopped its keys are never read.
- When `mmap` fails, the slot keeps `MAP_FAILED` (coro.c:119-122) and the next `co_start` on it crashes the viewer (coro.c:226,
  231). `PoolConsistent` and `ChannelSpec` hold up to then.
- With two viewers, Ctrl-P may take `read_attr` and `display` out of step, so that nothing is shown before or
  after the key (xo-user.c:62-64). `PauseAgrees` is about a viewer that has been alone.
- `ShallowExact` is about searches two moves deep. In deeper ones the re-search after a null-window
  search finds the bound in the table and returns it as the value (negamax.c:61-65).
- `LinesTrue` lets the sixteenth move of a line stay when a shorter record follows, since a line is blanked by 77
  columns (tui.c:529).
- `LeavesClean` is about the end of the loop. When `select` fails, `exit` flushes the buffered texts after the alternate screen
  was left (xo-user.c:110).
- `WholeRecords` and `StreamSpec` are about user space that reads whole records into sound buffers (`careful`); after any
  other read, records come out of step, and only `BytesAccounted` holds.
- `CopyMixesTwo` takes a copy by `kxo_ioctl` to last one tick at most, less than a period; a reader that is preempted for longer may
  mix more publications.
- `uct_score` is not near the real score: below one, `fixed_sqrt` answers with all ones up to its argument's
  highest bit (mcts.c:44), and ten terms of the logarithm's series stay below 4.27.
- `ScoresAddUp` does not say whose score it is: a rollout is credited to the player to move, a finished
  game to the player who moved (mcts.c:185-192).
- `WorkCounted` does not promise that averages decay: that of an agent that did nothing in a period is not
  touched (main.c:427).
- `GamesGoOn` is checked with RL and negamax, which always move on an unfinished board. MCTS may answer -1 at every turn
  if memory stays short, and then its game stands.

### Bounds and why they are enough

Every instance is explored completely. Most are finite by themselves. The bounds that cut:

| bound | part | what it keeps |
|---|---|---|
| `MaxElapsed`, `MaxDelay`, `MaxSpan` | `KxoLoadAvg` | ticks followed after a run of the handler, of a late timer, of a work |
| `SpansBounded` | `KxoLoadAvg` in `fifo_store` | works of one or two ticks; or of exactly `MaxSpan`, by one agent and without copies |
| `LastIsX` | `KxoRlStore` | of twelve positions, the six where X has played on the last cell or nowhere |
| `Takes`, `Asks` | `KxoFifo` | user space that is not careful reads by its `Careless` readers alone, in counts that split a record or are 0 |
| `OpeningsOnly` | `KxoPacked` in `parts` | the first eight moves are one of three openings, then the marks of either player go up the board |
| `WithO`, `FiveOrFourLeft`, `ThreeOrTwoLeft` | `KxoNegamax`, `KxoMcts` | late boards, some of them, with either player to move |
| `MaxRefusals` | `KxoMcts` | allocations that fail in one search |
| `MaxRecords`, `SecondPauses` | `KxoViewer` | a fifo of one record; one of two viewers never types Ctrl-Q |
| `MaxSec`, `LiveSets`, `Steps` | `KxoScreen` | two seconds; two neighbouring games get records, the shortest and the longest |
| `MaxBytes` | `KxoOutbuf` | bytes written |

`fifo_store` has `CHECK_DEADLOCK FALSE` because the time of the load averages ends at its bounds; in `parts`, what may come to
an end (a search, a game at its bound, a viewer that has left or crashed, a module whose device stayed behind) stutters
there, and the rest is checked for deadlock.

*Engine.* One game suffices for what happens on a board, and all engine instances have one: games interact only through
the workqueue, the agents' mutexes and the timer's loop, and the theorems of section 4 say the same for any number of games.
Four cells with three lines let O win, X win and the game be drawn, on early and on late moves; the engine uses a
board only through `check_win` and the empty cells, so larger boards add moves, not cases. Two cells suffice
where only the state protocol matters. Two files give closes that are the last and closes that are not, and
opens in every phase. The agents chosen include one that plays on finished boards (RL), one with a mutex that may
give up (MCTS) and one that may not (negamax). `sysfs` writes range over pausing the display and stopping and
resuming the games.

*Kernel side.* A store of four slots evicts two (`CLEAN_N_STATES`) and fills after three positions, of six. The fifo holds
two records, so it fills, empties and wraps, and reads ask for one record, all there is, a part or nothing; two works and two readers
contend for each of the mutexes. `careful` is a choice of user space made once. In the load average works overlap
one or two runs of the handler, closes and opens included, at any length of the time without a file up to the bound;
66 ticks in a period of 2 take an average past 16 at once. Three files give an open and a close that overlap a third file's.

*Agents and rules.* Boards of 4x4 have lines in all four directions. The openings lead to games of O, of X, to draws, and to
boards played on to the sixteenth move after a win, where the field of the steps uses its fifth bit; the generator takes size and
goal as parameters. Depth 4 of 4 or 5 empty cells ends by depth and by finished games, with cuts,
re-searches and hits of the table; 10 iterations reach every node of the trees below 2 or 3 empty cells more than once.
The fixed-point words are shorter than the program's (14 bits, not 32); the logarithm overflows in them as it does in 32
bits, after 64 visits and not 32768, and `uct_overflow` has 100, as the program's 100000 are past its own limit.

*User space.* Two viewers are enough for what one does to another. The channel is smaller than the
traffic of a round, so both sides block. The screen has all nine boards, since overlaps depend on where they are. In
`KxoOutbuf` a text may fit without its terminator, exactly, not at all or be longer than the buffer.

### Fairness

`FairSpec` assumes only what the kernel's scheduling gives: a pending timer
expires, softirqs run, a worker eventually starts a pending item, and started code
proceeds (weak fairness). Strong fairness is used for taking a mutex, since a
kernel mutex hands itself to waiters that were passed over, and for starting
the tasklet, since pending softirqs of a CPU are served in turn. No user has to
open, close or write anything. `GamesGoOn` is about games that the timer finds idle
infinitely often: nothing in the code keeps a slow agent from being busy at
every tick of the timer, with each of its moves dispatched from the mask, and a
finished game is noticed only when a tick finds it idle.

`KxoFifo`'s `FairSpec`: a work that has begun and a thread in `kxo_read` go on. `KxoViewer`'s: timers, works and
viewers that can proceed do; a blocked `read` is fair in the strong sense, because `read_lock` is a mutex that
passes to waiters it passed over. Nobody has to type.

## 4. Proofs

Every safety property and refinement that a passing run checks of the engine, the fifo, the load averages,
the RL agent's store and values, the coroutines, the viewer's loop and its output buffer, and the module's
life is also a theorem, for every value of the constants; what is left to TLC is listed below. Each proof
follows one pattern: an inductive invariant, which TLC has checked on an instance first; one lemma per
action, and within it one step per part of the invariant that the action can disturb; frame lemmas for
what an action leaves alone (another game, another work item, another reader).

### Engine (`KxoEngineOwnership`, `KxoEngineSafety`)

For any number of games, cells and files, any winning lines and any pairs of agents that satisfy
`EngineAssumption` and `BoardAssumption` (what kind of value each constant is):

| theorem | property | rests on |
|---|---|---|
| `TypeCorrect` | `TypeOK` | itself; holds with overlap, too |
| `OwnershipSafe` | `Ownership` | `OwnershipInv` |
| `SnapshotsFresh`, `BoardsConsistent`, `RecordsShownReplayable`, `ResultsTrue`, `EpisodesMatch` | `SnapshotFresh`, `BoardConsistent`, `ShownReplayable`, `FinishTrue`, `EpisodeMatches` | `BoardsInv` |
| `EngineImplementsPlay` | `PlaySpec` | `BoardsInv` |
| `EngineInvariant`, `ClosedIsQuiescent` | `EngineInv`, `Quiescent` | `EngineInv` |

All but `TypeCorrect` assume `OpenOverlap = FALSE` and `SoftirqOverlap = FALSE`, as the safety runs do;
`engine_reopen` shows that the first cannot be dropped.

`Ownership` is not inductive. The tasklet may mark a ready game busy only if the
timer is not about to declare that very game finished (`CheckedReady`), which
needs the two to take turns (`SoftirqSerial`). The last close turns DONE into READY,
which is harmless only when no finish work is left: `StoppedFor` records what the
close has stopped at each of its stages (timer; tasklet; then the flush set
covers every live work item; then no work at all), and `ReleaseAlone` that no
other file opens meanwhile. `OwnershipInv` is the conjunction.

`BoardsInv` adds `GameInv` for each game. What a handler read without a lock stays true because only the
owner writes a board, and the owner is the one whose turn it is (`OwnersTurn`, from the moment its work is
queued); a move goes to an empty cell (`MoveOpen`); exactly one work item is past `mutex_lock`
(`MutexHeld`). The record is described by `RecordOf`, the record as it will be once a handler that is between
its store of `table` and its store of `attr` has made the second: `Recorded` says that this one replays and
has as many marks of either player as moves made (`Balanced`), which is why `turn` and the next mover agree.
`ResultTrue` and `EpisodeTrue` say the same of what was stored for the finish work and of the episode, with
the one stage between `FinishReset` and `FinishLearn` excepted. The refinement then needs no more: every step
changes the boards by one legal move, one reset of a finished game, or not at all.

`EngineInv` adds what a close leaves: an agent's mutex belongs to somebody who is searching
(`AgentHeld`), `kxo_stop_work` is raised exactly during the last close, the games looked at are ready, and with no
file open nothing is armed, scheduled, queued or running (`AtRest`).

### Fifo (`KxoFifoProofs`)

`SleepersWoken`, `EveryByteAccounted`, `RecordsStayWhole` and `DeviceIsStream`, for any number of works and readers
and any sizes with `FifoAssumption`: the fifo is a whole number of records, the range of the indices a whole
number of fifos, and larger. The sizes of the program satisfy it (16, 4096, 2^32). `At(i)` is the byte `i` places
behind the reader's index, wherever the indices have wrapped to; the proofs speak of `At` only, and the
lemmas `ProduceCopies`, `PublishAdds` and `AdvanceTakes` translate the three halves of copies into it, from a
few lemmas about remainders. `FillInv` is the key: what a writer has copied and not yet published fits into
what the reader has left, and what a reader has copied and not yet given back is still the oldest part
of the fifo, although the two share no lock. On it rest `DataInv` (what is copied and not yet published waits behind
the bytes published), from which `EveryByteAccounted` follows step by step, and, while `careful`, `WholeInv` (lengths are whole records and every byte
knows its record). A step of the device is then a record appended to the queue, some of the oldest
delivered, or nothing that the queue shows. A sleeper cannot be missed because it tests after it is on
`rx_wait`, and whoever publishes has a wakeup due.

### Load averages (`KxoLoadAvgProofs`)

- `TimeCounted` (`WorkCounted`): no time is lost or counted twice, because what a work read of `ai_avgs` is still
  there while it holds `avg_lock` (`AvgLocked`).
- `CopyOfTwo` (`CopyMixesTwo`): from `avg_period > 1`. A word published since a copy began was published in the
  one run of the handler that fits between its timer's expirations (`OnePublication`).
- `AveragesShown` (`ShownTrue`): no bound on any time is assumed, and the average may be of any size. What is left
  of it in the word is its whole part modulo 16 and its hundredths, as the remainders of packing and of unpacking
  combine.

### Coroutines (`KxoUserProofs`)

`PoolIsConsistent` and `ChannelIsQueue`, from `CoroAssumption`, for any pool, capacity, messages and bodies, with stacks
that may fail and the crash this may lead to. `PoolConsistent` needs that a coroutine is remembered on one side of the channel at most
(`WaiterTypes`), the refinement that the tail is where head and count say (`RingInv`).

`RoundsAreDrained` (`ChannelDrains`) needs more of the rounds: `PairedRounds` says that one body sends, another one
receives, as many times. The viewer's round is such a one, and so is every round of the run; with two
receivers, a second one that blocks would replace the first one in `recv_waiter`. `DrainInv` adds to `PoolInv`
that who is blocked is remembered and waits for what is not there (`Waits`), and `Balance`: what the sender has
still to send and the channel holds is what the receiver has still to receive, whether the two are in
slots or main has yet to start them (`HoldersOf`). So if nobody is ready, a blocked receiver finds that
somebody owes it messages and is blocked too, which it can be on a full channel only, and the channel is
empty (`Ended`).

### Viewer (`KxoUserProofs`)

`PauseFollowed` (`PauseAgrees`), for any number of viewers, any keys and any room in the fifo. `LoopInv` says that while
`alone` holds at most one file is open (`Single`), that whoever opens the first one finds the display on (`Fresh`), and, for each
stage of a key that was pressed, what the viewer has read of `kxo_state` and has not yet written back (`InStep`): nothing else
writes `display` meanwhile but the close that comes with the viewer's end. A second viewer may have done what it
likes before, as the last close puts the text back.

### Output buffer (`KxoUserProofs`)

`OutbufOrder` (`OutbufTrue`) is about any size, any threshold up to it and any texts. `OutbufInv` says that a call leaves
less than the threshold in the buffer (`Stays`), that what was written or lost is all there was (`Complete`), and, while the
buffer is in use, that the terminal's bytes followed by the buffer's are those written so far, in order.
A call moves bytes from one to the other and puts its own behind (`Behind`, `Regrouped`).

### RL store and values (`KxoRlProofs`)

- `StoreKept` (`StoreTrue`), from `StoreAssumption` (two slots at least): any board, any number of positions, any
  sequence of lookups. `StoreInv` strengthens `StoreConsistent` by the list having no duplicates, which is what makes
  its length the number of slots in use, so that `Full` is noticed with a slot to spare and an eviction
  frees as many slots as it takes entries. `EvictionOrder` is kept because a lookup is later than every other one.
- `LearnBounded` and `LearnWins` (`ValuesBounded`, `WinNeverLowered`), from `LearnAssumption`: any unit that is even, any discount,
  any learning rate that is even. Both products of `NewScore` are rounded down, and the lemmas say that
  what is lost is never more than the bound has to spare. From values at the lower end of the range an odd rate would lose
  one more: with `LEARNING_RATE = 3`, `GAMMA = 16` and initial values of -8, 0 and 16, TLC reports `ValuesBounded` in the unit
  of the run; the program's rate, 0x51e, is even. In that range each product, computed in 64 bits,
  and the sum of two fit into the 32 bits they are stored in. That initial values are in it is an assumption:
  `get_score` times 6, far less than a half.

### Lines (`KxoLinesProofs`)

For any size of the board and any goal that fits: `LinesOnBoard`, that the lines `fill_win_patterns` generates are
non-empty sets of cells of the board, which is what the engine's theorems assume of `Lines` (`BoardAssumption`);
`LinesComplete`, that they are all the straight runs of `GOAL` cells and nothing else. `Runs` is defined from a start, a
direction and the board's two sides, without the bounds of `lines`.

### Loading, opening, closing (`KxoLifecycleProofs`)

`LoadUnwinds` (no assumption): at each step of `kxo_init`, of its labels and of `kxo_exit`, `LoadInv` says exactly what is in
hand. `ClosedIsQuiet` (from `LifecycleAssumption`: finitely many files): `Attended` names, for whatever is pending, a file
that is counted in `open_cnt` or whose close has yet to stop it, so that with no file left nothing is
pending; `open_cnt` is the cardinality of those counted.

### Only model-checked

- Liveness (`ReleaseReturns`, `BusyEnds`, `TimerGoesOn`, `GamesGoOn`, `ReaderServed`, `KeysServed`): the prover has
  neither `ENABLED` nor fairness.
- `NegamaxTrue` and `MctsTrue`: their modules define algorithms by `RECURSIVE` operators, which the SMT backend does
  not take, and what a search answers needs an induction over its depth.
- `GameTrue` and `GamePlaysOn`: the bits of a number are its remainders by powers of two, and what `get_bits` adds up again
  is a fold over them; both need an induction over the bits.
- `ScreenTrue` is about the one layout of the program, which TLC enumerates.

## 5. Not modelled

- The random number generator (`src/xoroshiro.c`, vendored arithmetic) and `get_random_u32` are
  nondeterministic choices; the keys of the Zobrist table do not collide.
- Allocations fail in `kxo_init` and for the nodes of MCTS. `available_moves` and the Zobrist entries get
  their memory: the callers of the first read a NULL pointer, for which there is no next state.
- `kxo_state_store` of a string that `sscanf` cannot parse changes nothing. `resume` is stored and shown
  but read by nothing.
- An open before `kxo_init` has returned: the cdev is live shortly before the timers are set up.
- The values learnt from a game that was played on after its end (`engine_played_on`); which
  positions they touch is in `KxoRlStore`.
- The overflow of `nsecs * FIXED_1` after 104 days of work in one period, and of `history_score_sum`.
- A terminal that is too small, short writes to it, glyphs and colours, the logo's file. What the record
  tab shows before the first record was read is indeterminate, and not followed.
- The context switch of the coroutines is assembly. Weak memory order is not modelled.
- Tests, scripts and the build are not part of the running system.

## 6. Plan

In this order, most important first:

1. done: `KxoBoard`, `KxoPlay`, `KxoEngine` with properties, `TypeCorrect`,
   `OwnershipSafe`; `KxoRlStore`; `KxoFifo` with `KxoStream`; `KxoCoro` with `KxoChannel`.
2. done: `KxoFifo` with faulting reads, reads of any length, liveness of blocked reads.
3. done: sysfs show and store with the viewer's loop and keyboard (`KxoViewer`); the screen
   (`KxoScreen`, `KxoOutbuf`).
4. done: `KxoLoadAvg`.
5. done: `KxoLifecycle`.
6. done: `KxoLines`, `KxoPacked`, `KxoNegamax`, `KxoFixed`, `KxoUct`, `KxoMcts`, `KxoRlLearn`.
7. done: proofs of the safety of the engine and of its refinement of `KxoPlay`, of the fifo and its
   refinement of `KxoStream`, of the load averages, the coroutines with `KxoChannel`, and load and unload.
8. done: proofs about the store and the learnt values, the viewer's pause, its output buffer, the draining of
   its rounds, and the lines of the board.
9. What could follow: the bits of `KxoPacked` by induction, so that its refinement of `KxoPlay` can be proved; the
   trees of `KxoMcts` as recursive functions, for `VisitsAddUp`.
