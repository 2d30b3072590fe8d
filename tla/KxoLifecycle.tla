---------------------------- MODULE KxoLifecycle ----------------------------
(***************************************************************************)
(* Loading, using and unloading the module (src/main.c): the resources     *)
(* kxo_init takes and the error labels that give them back, kxo_open and   *)
(* kxo_release as they start and stop whatever runs by itself, kxo_exit.   *)
(*                                                                         *)
(* Opens and closes overlap freely.  A file keeps the module loaded from   *)
(* before kxo_open until after kxo_release.                                *)
(***************************************************************************)
EXTENDS Integers, Sequences, FiniteSets

CONSTANT Files       (* processes that may have /dev/kxo open              *)

LifecycleAssumption == IsFiniteSet(Files)

VARIABLES
  phase,      (* "unloaded", "init", "unwind", "live" or "exit"            *)
  at,         (* which step of kxo_init or kxo_exit comes next             *)
  have,       (* the resources taken and not given back                    *)
  failed,     (* history: what could not be had in the last load           *)
  fpc,        (* where each file is: "closed", "open", or in a handler     *)
  owed,       (* closes whose flush waits for work queued before it        *)
  open_cnt,
  active,     (* of the timers, the tasklet and the works: what is pending *)
  stop        (* kxo_stop_work                                             *)

loadVars == <<phase, at, have, failed>>
runVars == <<fpc, owed, open_cnt, active, stop>>
lifecycleVars == <<loadVars, runVars>>

-----------------------------------------------------------------------------
(* kxo_init takes these from top to bottom.  It does not look at the       *)
(* result of device_create, nor do the agents report a failure.            *)
Taken == <<"fifo", "region", "cdev", "class", "device", "file",
           "fast_buf", "workqueue", "agents", "setup">>

(* The error label each failure jumps to, named by what is given back      *)
(* there; what follows the label is given back too.                        *)
ErrorLabelLate ==                     \* MUTANT: no vmalloc label
  [fifo |-> "out", region |-> "fifo", cdev |-> "region", class |-> "cdev",
   file |-> "class", fast_buf |-> "class", workqueue |-> "fast_buf"]
ErrorLabel ==
  [fifo |-> "out", region |-> "fifo", cdev |-> "region", class |-> "cdev",
   file |-> "class", fast_buf |-> "device", workqueue |-> "fast_buf"]
UnwindOrder == <<"fast_buf", "device", "class", "cdev", "region", "fifo", "out">>

(* kxo_exit, after it has stopped what runs.                               *)
ExitOrder ==
  <<"workqueue", "fast_buf", "device", "class", "cdev", "region", "agents",
    "fifo", "done">>

After(order, step) == order[1 + CHOOSE i \in 1 .. Len(order) : order[i] = step]

insmod ==
  /\ phase = "unloaded" /\ have = {}
  /\ phase' = "init" /\ at' = Taken[1] /\ failed' = "none"
  /\ UNCHANGED <<have, runVars>>

Take ==
  /\ phase = "init" /\ at # "setup"
  /\ have' = have \cup {at} /\ at' = After(Taken, at)
  /\ UNCHANGED <<phase, failed, runVars>>

Fail ==
  /\ phase = "init" /\ at \in DOMAIN ErrorLabel
  /\ failed' = at
  /\ phase' = "unwind" /\ at' = ErrorLabel[at]
  /\ UNCHANGED <<have, runVars>>

(* One step of giving back, and the end of it.                             *)
GiveBack(order, last) ==
  IF at = last THEN phase' = "unloaded" /\ UNCHANGED <<at, have>>
  ELSE /\ have' = have \ IF at = "device" THEN {"device", "file"} ELSE {at}
       /\ at' = After(order, at) /\ UNCHANGED phase

Unwind ==
  /\ phase = "unwind" /\ GiveBack(UnwindOrder, "out")
  /\ UNCHANGED <<failed, runVars>>

(* Games, works, kxo_stop_work, the timers and open_cnt.                   *)
Setup ==
  /\ phase = "init" /\ at = "setup"
  /\ phase' = "live" /\ stop' = FALSE /\ open_cnt' = 0
  /\ UNCHANGED <<at, have, failed, fpc, owed, active>>

-----------------------------------------------------------------------------
(* What runs by itself.  `end' of kxo_state may stop the games any time.   *)
Ends(what, then) ==
  /\ what \in active
  /\ active' = (active \ {what}) \cup then
  /\ UNCHANGED <<loadVars, fpc, open_cnt, stop>>

timer_handler ==
  /\ \E finished \in SUBSET {"work"} :
       \/ Ends("timer", finished)
       \/ ~stop /\ Ends("timer", finished \cup {"tasklet", "timer"})
       \/ ~stop /\ Ends("timer", finished \cup {"timer"})
  /\ UNCHANGED owed

loadavg_handler == Ends("loadavg_timer", {"loadavg_timer"}) /\ UNCHANGED owed

game_tasklet_func == Ends("tasklet", {"work"}) /\ UNCHANGED owed

(* The works that are queued run to their end.                             *)
works == Ends("work", {}) /\ owed' = {}

-----------------------------------------------------------------------------
To(f, pc) == fpc' = [fpc EXCEPT ![f] = pc]

(* Opens begin after kxo_init; the cdev is live a little earlier.          *)
kxo_open(f) ==
  /\ phase = "live" /\ fpc[f] = "closed"
  /\ open_cnt' = open_cnt + 1
  /\ To(f, IF open_cnt = 0 THEN "arm" ELSE "open")
  /\ UNCHANGED <<loadVars, owed, active, stop>>

OpenArm(f) ==
  \/ /\ fpc[f] = "arm" /\ To(f, "arm_loadavg")
     /\ active' = active \cup {"timer"}
     /\ UNCHANGED <<loadVars, owed, open_cnt, stop>>
  \/ /\ fpc[f] = "arm_loadavg" /\ To(f, "open")
     /\ active' = active \cup {"loadavg_timer"}
     /\ UNCHANGED <<loadVars, owed, open_cnt, stop>>

kxo_release(f) ==
  /\ fpc[f] = "open"
  /\ open_cnt' = open_cnt - 1
  /\ To(f, IF open_cnt = 1 THEN "stop" ELSE "attr")
  /\ UNCHANGED <<loadVars, owed, active, stop>>

ReleaseStop(f) ==
  /\ fpc[f] = "stop" /\ To(f, "del_timer")
  /\ stop' = TRUE
  /\ UNCHANGED <<loadVars, owed, open_cnt, active>>

(* del_timer_sync twice and tasklet_kill, in this order.                   *)
Stopper == [del_timer |-> "timer", del_loadavg |-> "loadavg_timer", kill |-> "tasklet"]
StopOrderKillFirst == <<"kill", "del_timer", "del_loadavg", "flush">>
                                      \* MUTANT: the tasklet before its timer
StopOrder == <<"del_timer", "del_loadavg", "kill", "flush">>

ReleaseDelete(f) ==
  /\ fpc[f] \in DOMAIN Stopper
  /\ active' = active \ {Stopper[fpc[f]]}
  /\ To(f, After(StopOrder, fpc[f]))
  /\ UNCHANGED <<loadVars, owed, open_cnt, stop>>

(* flush_workqueue waits for the works queued when it is called.           *)
ReleaseFlush(f) ==
  /\ fpc[f] = "flush" /\ To(f, "flushing")
  /\ owed' = IF "work" \in active THEN owed \cup {f} ELSE owed
  /\ UNCHANGED <<loadVars, open_cnt, active, stop>>

ReleaseStart(f) ==
  /\ fpc[f] = "flushing" /\ f \notin owed /\ To(f, "attr")
  /\ stop' = FALSE
  /\ UNCHANGED <<loadVars, owed, open_cnt, active>>

ReleaseAttr(f) ==
  /\ fpc[f] = "attr" /\ To(f, "closed")
  /\ UNCHANGED <<loadVars, owed, open_cnt, active, stop>>

-----------------------------------------------------------------------------
(* rmmod succeeds only while no file refers to the module.                 *)
kxo_exit ==
  /\ phase = "live" /\ \A f \in Files : fpc[f] = "closed"
  /\ phase' = "exit" /\ at' = ExitOrder[1]
  /\ stop' = TRUE /\ active' = {}
  /\ UNCHANGED <<have, failed, fpc, owed, open_cnt>>

ExitStep ==
  /\ phase = "exit" /\ GiveBack(ExitOrder, "done")
  /\ UNCHANGED <<failed, runVars>>

LifecycleInit ==
  /\ phase = "unloaded" /\ at = "none" /\ have = {} /\ failed = "none"
  /\ fpc = [f \in Files |-> "closed"] /\ owed = {}
  /\ open_cnt = 0 /\ active = {} /\ stop = FALSE

LifecycleNext ==
  \/ insmod \/ Take \/ Fail \/ Unwind \/ Setup \/ kxo_exit \/ ExitStep
  \/ timer_handler \/ loadavg_handler \/ game_tasklet_func \/ works
  \/ \E f \in Files :
       \/ kxo_open(f) \/ OpenArm(f)
       \/ kxo_release(f) \/ ReleaseStop(f) \/ ReleaseDelete(f)
       \/ ReleaseFlush(f) \/ ReleaseStart(f) \/ ReleaseAttr(f)

LifecycleSpec == LifecycleInit /\ [][LifecycleNext]_lifecycleVars

-----------------------------------------------------------------------------
(* What each resource is built on, and what anything running needs.        *)
BuiltOn ==
  [fifo |-> {}, region |-> {}, cdev |-> {"region"}, class |-> {},
   device |-> {"class", "region"}, file |-> {"device"}, fast_buf |-> {},
   workqueue |-> {}, agents |-> {}]
NeededToRun == {"fifo", "fast_buf", "workqueue", "agents"}
Leaked == IF failed = "file" THEN {"device"} ELSE {}

(* A load that fails and an unload give back everything that was taken, in *)
(* an order in which nothing loses what it is built on.  The one exception *)
(* in the code: a device whose sysfs file could not be created stays.      *)
Unwound ==
  /\ phase = "unloaded" => have = Leaked
  /\ \A res \in have \ Leaked : BuiltOn[res] \subseteq have

(* Nothing runs without what it uses, however opens and closes interleave: *)
(* once no file is open or being opened or closed, timers, tasklet and     *)
(* works are all still, although loadavg_handler always arms itself again. *)
QuietWhenClosed ==
  /\ active # {} => NeededToRun \subseteq have
  /\ (\A f \in Files : fpc[f] = "closed") => active = {}
=============================================================================
