----------------------------- MODULE KxoLoadAvg -----------------------------
(***************************************************************************)
(* The load averages (src/main.c): every AI work adds the time it took to  *)
(* ai_avgs, loadavg_handler turns what was added in a period into a decayed *)
(* average and publishes it in xo_avgs as 16-bit words, kxo_ioctl copies   *)
(* the words out.  avg_lock is between the works and the handler only.     *)
(*                                                                         *)
(* Time goes by in ticks while nobody holds avg_lock.                      *)
(***************************************************************************)
EXTENDS Integers, Sequences

CONSTANTS
  N_GAMES,
  FIXED_1, EXP_1,   (* the kernel's fixed point and its one-minute decay   *)
  avg_period,       (* ticks until the timer expires                       *)
  MaxDelay,         (* ticks by which it may be late                       *)
  MaxSpan,          (* ticks an AI work may take                           *)
  MaxElapsed        (* ticks followed after a run of the handler           *)

ASSUME LoadAvgAssumption ==
  /\ N_GAMES \in Nat \ {0} /\ FIXED_1 \in Nat \ {0} /\ EXP_1 \in 0 .. FIXED_1
  /\ avg_period \in Nat \ {0} /\ MaxDelay \in Nat /\ MaxSpan \in Nat \ {0}
  /\ MaxElapsed \in Nat

Games == 1 .. N_GAMES
Works == Games \X {"x", "o"}
Idle == <<0, "none">>
HANDLER == <<0, "handler">>

(* struct xo_avg of each game, in memory order.                            *)
Words == [k \in 1 .. 2 * N_GAMES |-> <<(k + 1) \div 2, IF k % 2 = 1 THEN "x" ELSE "o">>]

VARIABLES
  stage, span, read,   (* the works: stage, time taken, accumulator as read  *)
  nsecs, load_avg,   (* ai_avgs                                            *)
  xo_avgs,           (* the published words                                *)
  avg_lock,          (* who holds it                                       *)
  armed, wait,       (* loadavg_timer, ticks since it was armed            *)
  tv_end, elapsed,   (* is tv_end set? ticks since then (or since loading) *)
  delta, next,       (* the handler: its period, the next word it updates  *)
  copied, late,      (* kxo_ioctl: words copied (-1: none goes on), ticks  *)
  unpaid,            (* history: time of each agent not yet in an average  *)
  pubs, mixed        (* history: publications since the copy began; those  *)
                     (* that the words copied are from                     *)

workVars == <<stage, span, read>>
avgVars == <<nsecs, load_avg>>
timerVars == <<armed, wait, tv_end, elapsed>>
handlerVars == <<delta, next>>
copyVars == <<copied, late, mixed>>
loadAvgVars == <<workVars, avgVars, xo_avgs, avg_lock, timerVars, handlerVars,
          copyVars, unpaid, pubs>>

-----------------------------------------------------------------------------
(* The kernel's arithmetic.  An average rises to what is active, rounding  *)
(* up, and falls towards it rounding down.                                 *)
calc_load(load, active) ==
  (load * EXP_1 + active * (FIXED_1 - EXP_1)
     + IF active >= load THEN FIXED_1 - 1 ELSE 0) \div FIXED_1

LOAD_INT(x) == x \div FIXED_1
LOAD_FRAC(x) == LOAD_INT((x % FIXED_1) * 100)

(* (int << 7) + (frac & 0x7f), kept in 16 bits; how tui.c takes it apart.  *)
PackedShort(load) == (LOAD_INT(load) * 64 + (LOAD_FRAC(load) % 128)) % 65536
                                        \* MUTANT: shifted by 6
Packed(load) == (LOAD_INT(load) * 128 + (LOAD_FRAC(load) % 128)) % 65536
Shown(word) == <<(word \div 128) % 16, word % 128>>

-----------------------------------------------------------------------------
(* ai_one_work_func and ai_two_work_func from tv_start on; game->lock lets *)
(* one of them search at a time.                                           *)
AiStart(w) ==
  /\ armed /\ stage[w] = "idle" /\ \A v \in Works : v[1] = w[1] => stage[v] # "search"
  /\ stage' = [stage EXCEPT ![w] = "search"]
  /\ UNCHANGED <<span, read, avgVars, xo_avgs, avg_lock, timerVars, handlerVars,
                 copyVars, unpaid, pubs>>

AiMoved(w) ==
  /\ stage[w] = "search" /\ span[w] > 0
  /\ stage' = [stage EXCEPT ![w] = "account"]
  /\ UNCHANGED <<span, read, avgVars, xo_avgs, avg_lock, timerVars,
                 handlerVars, copyVars, unpaid, pubs>>

AiUnlockedAvg(w) ==                           \* MUTANT: avg_lock is not taken
  /\ stage[w] = "account"
  /\ read' = [read EXCEPT ![w] = nsecs[w]]
  /\ stage' = [stage EXCEPT ![w] = "add"]
  /\ UNCHANGED <<span, avgVars, xo_avgs, avg_lock, timerVars, handlerVars,
                 copyVars, unpaid, pubs>>
AiLockAvg(w) ==
  /\ stage[w] = "account" /\ avg_lock = Idle
  /\ avg_lock' = w
  /\ read' = [read EXCEPT ![w] = nsecs[w]]
  /\ stage' = [stage EXCEPT ![w] = "add"]
  /\ UNCHANGED <<span, avgVars, xo_avgs, timerVars, handlerVars, copyVars,
                 unpaid, pubs>>

AiAdd(w) ==
  /\ stage[w] = "add"
  /\ nsecs' = [nsecs EXCEPT ![w] = read[w] + span[w]]
  /\ unpaid' = [unpaid EXCEPT ![w] = @ + span[w]]
  /\ avg_lock' = IF avg_lock = w THEN Idle ELSE avg_lock
  /\ stage' = [stage EXCEPT ![w] = "idle"]
  /\ span' = [span EXCEPT ![w] = 0] /\ read' = [read EXCEPT ![w] = 0]
  /\ UNCHANGED <<load_avg, xo_avgs, timerVars, handlerVars, copyVars, pubs>>

-----------------------------------------------------------------------------
(* loadavg_handler: the first run only notes the time.                     *)
RearmAtOnce ==                            \* MUTANT: mod_timer(..., jiffies)
  /\ armed /\ wait >= 0 /\ avg_lock = Idle
  /\ wait' = 0 /\ elapsed' = 0 /\ tv_end' = TRUE
  /\ IF tv_end /\ elapsed > 0
     THEN avg_lock' = HANDLER /\ delta' = elapsed /\ next' = 1
     ELSE UNCHANGED <<avg_lock, handlerVars>>
  /\ UNCHANGED <<workVars, avgVars, xo_avgs, armed, copyVars, unpaid, pubs>>
LoadavgStart ==
  /\ armed /\ wait >= avg_period /\ avg_lock = Idle
  /\ wait' = 0 /\ elapsed' = 0 /\ tv_end' = TRUE
  /\ IF tv_end THEN avg_lock' = HANDLER /\ delta' = elapsed /\ next' = 1
               ELSE UNCHANGED <<avg_lock, handlerVars>>
  /\ UNCHANGED <<workVars, avgVars, xo_avgs, armed, copyVars, unpaid, pubs>>

(* Both averages of a game, then its two words.  An agent that did nothing *)
(* keeps its average.                                                      *)
Updated(w) ==
  IF nsecs[w] = 0 THEN load_avg[w]
  ELSE calc_load(load_avg[w], (nsecs[w] * FIXED_1) \div delta)

LoadavgGame ==
  LET game == {w \in Works : w[1] = Words[next][1]} IN
  /\ avg_lock = HANDLER /\ next % 2 = 1
  /\ load_avg' = [w \in Works |-> IF w \in game THEN Updated(w) ELSE load_avg[w]]
  /\ nsecs' = [w \in Works |-> IF w \in game THEN 0 ELSE nsecs[w]]
  /\ unpaid' = [w \in Works |-> IF w \in game THEN 0 ELSE unpaid[w]]

PublishWord ==
  LET w == Words[next] IN
  /\ avg_lock = HANDLER
  /\ xo_avgs' = [xo_avgs EXCEPT ![w] = Packed(load_avg'[w])]
  /\ pubs' = [pubs EXCEPT ![w] = IF copied = -1 \/ @ = 2 THEN @ ELSE @ + 1]
  /\ IF next = Len(Words) THEN avg_lock' = Idle /\ next' = 0 /\ delta' = 0
                          ELSE next' = next + 1 /\ UNCHANGED <<avg_lock, delta>>

loadavg_handler ==
  /\ \/ LoadavgGame
     \/ next % 2 = 0 /\ UNCHANGED <<avgVars, unpaid>>
  /\ PublishWord
  /\ UNCHANGED <<workVars, timerVars, copyVars>>

-----------------------------------------------------------------------------
(* kxo_ioctl: a copy word by word that takes no lock.                      *)
kxo_ioctl ==
  /\ armed /\ copied = -1 /\ copied' = 0
  /\ UNCHANGED <<workVars, avgVars, xo_avgs, avg_lock, timerVars, handlerVars,
                 late, mixed, unpaid, pubs>>

IoctlWord ==
  /\ copied \in 0 .. Len(Words) - 1 /\ copied' = copied + 1
  /\ mixed' = mixed \cup {pubs[Words[copied + 1]]}
  /\ UNCHANGED <<workVars, avgVars, xo_avgs, avg_lock, timerVars, handlerVars,
                 late, unpaid, pubs>>

IoctlReturns ==
  /\ copied = Len(Words) /\ copied' = -1
  /\ late' = 0 /\ mixed' = {} /\ pubs' = [w \in Works |-> 0]
  /\ UNCHANGED <<workVars, avgVars, xo_avgs, avg_lock, timerVars, handlerVars, unpaid>>

-----------------------------------------------------------------------------
(* The first open arms the timer and the last close deletes it; the works  *)
(* still queued then run to their end.  tv_end is not reset.               *)
ArmLoadavg ==
  /\ ~armed /\ armed' = TRUE /\ wait' = 0
  /\ UNCHANGED <<workVars, avgVars, xo_avgs, avg_lock, tv_end, elapsed, handlerVars,
                 copyVars, unpaid, pubs>>

DelLoadavg ==
  /\ armed /\ avg_lock # HANDLER /\ copied = -1
  /\ armed' = FALSE /\ wait' = 0
  /\ UNCHANGED <<workVars, avgVars, xo_avgs, avg_lock, tv_end, elapsed, handlerVars,
                 copyVars, unpaid, pubs>>

(* One tick.  Every bound on time is here: a search ends within MaxSpan,   *)
(* the timer expires within MaxDelay, kxo_ioctl copies within one tick, and *)
(* a time without the handler is followed for MaxElapsed ticks.            *)
Tick ==
  /\ avg_lock = Idle
  /\ \A w \in Works : stage[w] = "search" => span[w] < MaxSpan
  /\ \A w \in Works : stage[w] # "account"
  /\ armed => wait < avg_period + MaxDelay
  /\ elapsed < MaxElapsed
  /\ copied # -1 => late = 0
  /\ late' = IF copied = -1 THEN 0 ELSE 1
  /\ span' = [w \in Works |-> IF stage[w] = "search" THEN span[w] + 1 ELSE span[w]]
  /\ wait' = IF armed THEN wait + 1 ELSE 0
  /\ elapsed' = elapsed + 1
  /\ UNCHANGED <<stage, read, avgVars, xo_avgs, avg_lock, armed, tv_end,
                 handlerVars, copied, mixed, unpaid, pubs>>

LoadAvgInit ==
  /\ stage = [w \in Works |-> "idle"] /\ span = [w \in Works |-> 0]
  /\ read = [w \in Works |-> 0]
  /\ nsecs = [w \in Works |-> 0] /\ load_avg = [w \in Works |-> 0]
  /\ xo_avgs = [w \in Works |-> 0]
  /\ avg_lock = Idle /\ armed = FALSE /\ wait = 0
  /\ tv_end = FALSE /\ elapsed = 0
  /\ delta = 0 /\ next = 0
  /\ copied = -1 /\ late = 0 /\ mixed = {}
  /\ unpaid = [w \in Works |-> 0] /\ pubs = [w \in Works |-> 0]

LoadAvgNext ==
  \/ \E w \in Works : AiStart(w) \/ AiMoved(w) \/ AiLockAvg(w) \/ AiAdd(w)
  \/ LoadavgStart \/ loadavg_handler
  \/ kxo_ioctl \/ IoctlWord \/ IoctlReturns
  \/ ArmLoadavg \/ DelLoadavg \/ Tick

LoadAvgSpec == LoadAvgInit /\ [][LoadAvgNext]_loadAvgVars

-----------------------------------------------------------------------------
(* Every tick an agent works goes into one average, once: what ai_avgs     *)
(* holds is what was worked since the handler last took it, although the   *)
(* works add in process context and the handler clears in a softirq.       *)
WorkCounted == nsecs = unpaid

(* What the viewer makes of a word is the agent's average, hundredths      *)
(* included, modulo the sixteen that the four bits of its mask hold: what  *)
(* is lost of a larger one leaves the rest alone (loadavg_handler, tui.c). *)
ShownTrue ==
  \A k \in 1 .. Len(Words) :
    next = 0 \/ k < next =>
      Shown(xo_avgs[Words[k]]) =
        <<LOAD_INT(load_avg[Words[k]]) % 16, LOAD_FRAC(load_avg[Words[k]])>>

(* kxo_ioctl may return words of different publications, but of two that   *)
(* follow each other only, as the handler runs once in a period.           *)
CopyMixesTwo == mixed \subseteq {0, 1}
=============================================================================
