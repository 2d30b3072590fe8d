-------------------------- MODULE KxoLifecycleProofs --------------------------
(***************************************************************************)
(* Proofs about loading, opening, closing and unloading, for any number of *)
(* files: what kxo_init took is given back on every path, and nothing runs *)
(* by itself once the last file is closed.                                 *)
(***************************************************************************)
EXTENDS KxoLifecycle, FiniteSetTheorems, TLAPS

-----------------------------------------------------------------------------
(* The invariant behind Unwound: what is in hand at each step of kxo_init, *)
(* of its labels and of kxo_exit.                                          *)
UpTo ==
  [fifo |-> {}, region |-> {"fifo"}, cdev |-> {"fifo", "region"},
   class |-> {"fifo", "region", "cdev"},
   device |-> {"fifo", "region", "cdev", "class"},
   file |-> {"fifo", "region", "cdev", "class", "device"},
   fast_buf |-> {"fifo", "region", "cdev", "class", "device", "file"},
   workqueue |-> {"fifo", "region", "cdev", "class", "device", "file", "fast_buf"},
   agents |-> {"fifo", "region", "cdev", "class", "device", "file", "fast_buf", "workqueue"},
   setup |-> {"fifo", "region", "cdev", "class", "device", "file", "fast_buf", "workqueue",
              "agents"}]

(* What a label still has to give back, and what kxo_exit still has to.    *)
Below ==
  [fast_buf |-> UpTo["workqueue"], device |-> UpTo["fast_buf"], class |-> UpTo["device"],
   cdev |-> UpTo["class"], region |-> UpTo["cdev"], fifo |-> UpTo["region"], out |-> {}]
Behind ==
  [workqueue |-> UpTo["setup"], fast_buf |-> UpTo["workqueue"] \cup {"agents"},
   device |-> UpTo["fast_buf"] \cup {"agents"}, class |-> UpTo["device"] \cup {"agents"},
   cdev |-> UpTo["class"] \cup {"agents"}, region |-> UpTo["cdev"] \cup {"agents"},
   agents |-> {"fifo", "agents"}, fifo |-> {"fifo"}, done |-> {}]

LoadInv ==
  /\ phase \in {"unloaded", "init", "unwind", "live", "exit"}
  /\ phase = "unloaded" => have = Leaked
  /\ phase = "init" => failed = "none" /\ at \in DOMAIN UpTo /\ have = UpTo[at]
  /\ phase = "unwind" =>
       /\ at \in DOMAIN Below /\ have = Below[at] \cup Leaked
       /\ failed = "file" => at \notin {"fast_buf", "device"}
  /\ phase = "live" => failed = "none" /\ have = UpTo["setup"]
  /\ phase = "exit" => failed = "none" /\ at \in DOMAIN Behind /\ have = Behind[at]

-----------------------------------------------------------------------------
(* The invariant behind QuietWhenClosed: of whatever is pending there is a *)
(* file that is counted in open_cnt, or whose close has yet to stop it.    *)
Counted == {f \in Files : fpc[f] \in {"arm", "arm_loadavg", "open"}}
InStage(stages) == \E f \in Files : fpc[f] \in stages

FileStages ==
  {"closed", "arm", "arm_loadavg", "open", "stop", "del_timer", "del_loadavg", "kill",
   "flush", "flushing", "attr"}
Running == {"arm", "arm_loadavg", "open", "stop", "del_timer"}

CountInv ==
  /\ fpc \in [Files -> FileStages]
  /\ phase # "live" => active = {} /\ \A f \in Files : fpc[f] = "closed"
  /\ phase = "live" => open_cnt = Cardinality(Counted)

Attended ==
  /\ "timer" \in active => InStage(Running)
  /\ "loadavg_timer" \in active => InStage(Running \cup {"del_loadavg"})
  /\ "tasklet" \in active => InStage(Running \cup {"del_loadavg", "kill"})
  /\ "work" \in active =>
       \/ InStage(Running \cup {"del_loadavg", "kill", "flush"})
       \/ \E f \in owed : f \in Files /\ fpc[f] = "flushing"

StopInv ==
  /\ active \subseteq {"timer", "loadavg_timer", "tasklet", "work"}
  /\ CountInv /\ Attended

-----------------------------------------------------------------------------
(* The step that follows another in an order that names no step twice.     *)
LEMMA AfterNext ==
  ASSUME NEW order, \A i, j \in 1 .. Len(order) : order[i] = order[j] => i = j,
         NEW k \in 1 .. Len(order)
  PROVE  After(order, order[k]) = order[1 + k]
<1>1. (CHOOSE i \in 1 .. Len(order) : order[i] = order[k]) = k
  OBVIOUS
<1> QED
  BY <1>1 DEF After

(* What kxo_init takes after each step of loading.                         *)
LEMMA AfterTaken ==
  \A k \in 1 .. 9 : After(Taken, Taken[k]) = Taken[k + 1]
<1>1. Len(Taken) = 10 /\ \A i, j \in 1 .. 10 : Taken[i] = Taken[j] => i = j
  BY DEF Taken
<1>2. ASSUME NEW k \in 1 .. 9 PROVE After(Taken, Taken[k]) = Taken[k + 1]
  <2>1. \A i, j \in 1 .. Len(Taken) : Taken[i] = Taken[j] => i = j
    BY <1>1
  <2>2. k \in 1 .. Len(Taken) /\ k + 1 = 1 + k
    BY <1>1
  <2> QED
    BY <2>1, <2>2, AfterNext
<1> QED
  BY <1>2

(* What the error labels give back after each label.                       *)
LEMMA AfterUnwind ==
  \A k \in 1 .. 6 : After(UnwindOrder, UnwindOrder[k]) = UnwindOrder[k + 1]
<1>1. Len(UnwindOrder) = 7 /\ \A i, j \in 1 .. 7 : UnwindOrder[i] = UnwindOrder[j] => i = j
  BY DEF UnwindOrder
<1>2. ASSUME NEW k \in 1 .. 6 PROVE After(UnwindOrder, UnwindOrder[k]) = UnwindOrder[k + 1]
  <2>1. \A i, j \in 1 .. Len(UnwindOrder) : UnwindOrder[i] = UnwindOrder[j] => i = j
    BY <1>1
  <2>2. k \in 1 .. Len(UnwindOrder) /\ k + 1 = 1 + k
    BY <1>1
  <2> QED
    BY <2>1, <2>2, AfterNext
<1> QED
  BY <1>2

(* What kxo_exit gives back after each step of unloading.                  *)
LEMMA AfterExit ==
  \A k \in 1 .. 8 : After(ExitOrder, ExitOrder[k]) = ExitOrder[k + 1]
<1>1. Len(ExitOrder) = 9 /\ \A i, j \in 1 .. 9 : ExitOrder[i] = ExitOrder[j] => i = j
  BY DEF ExitOrder
<1>2. ASSUME NEW k \in 1 .. 8 PROVE After(ExitOrder, ExitOrder[k]) = ExitOrder[k + 1]
  <2>1. \A i, j \in 1 .. Len(ExitOrder) : ExitOrder[i] = ExitOrder[j] => i = j
    BY <1>1
  <2>2. k \in 1 .. Len(ExitOrder) /\ k + 1 = 1 + k
    BY <1>1
  <2> QED
    BY <2>1, <2>2, AfterNext
<1> QED
  BY <1>2

(* What kxo_release stops after each step of the last close.               *)
LEMMA AfterStop ==
  /\ After(StopOrder, "del_timer") = "del_loadavg"
  /\ After(StopOrder, "del_loadavg") = "kill"
  /\ After(StopOrder, "kill") = "flush"
<1>1. Len(StopOrder) = 4 /\ \A i, j \in 1 .. 4 : StopOrder[i] = StopOrder[j] => i = j
  BY DEF StopOrder
<1>2. \A i, j \in 1 .. Len(StopOrder) : StopOrder[i] = StopOrder[j] => i = j
  BY <1>1
<1>3. /\ After(StopOrder, StopOrder[1]) = StopOrder[1 + 1]
      /\ After(StopOrder, StopOrder[2]) = StopOrder[1 + 2]
      /\ After(StopOrder, StopOrder[3]) = StopOrder[1 + 3]
  <2>1. 1 \in 1 .. Len(StopOrder) /\ 2 \in 1 .. Len(StopOrder) /\ 3 \in 1 .. Len(StopOrder)
    BY <1>1
  <2> QED
    BY <1>2, <2>1, AfterNext
<1> QED
  BY <1>3 DEF StopOrder

-----------------------------------------------------------------------------
(* Loading and unloading.                                                  *)
LEMMA TakeKeeps == LoadInv /\ Take => LoadInv'
<1> SUFFICES ASSUME LoadInv, Take PROVE LoadInv'
  OBVIOUS
<1>1. PICK k \in 1 .. 9 : at = Taken[k]
  BY DEF LoadInv, Take, UpTo, Taken
<1>2. at' = Taken[k + 1] /\ have' = have \cup {Taken[k]} /\ have = UpTo[Taken[k]]
  BY <1>1, AfterTaken DEF Take, LoadInv
<1>3. Taken[k + 1] \in DOMAIN UpTo /\ UpTo[Taken[k + 1]] = UpTo[Taken[k]] \cup {Taken[k]}
  BY <1>1 DEF UpTo, Taken
<1> QED
  BY <1>2, <1>3 DEF LoadInv, Take

(* A step that fails enters the labels where all it holds is given back.   *)
LEMMA FailKeeps == LoadInv /\ Fail => LoadInv'
<1> SUFFICES ASSUME LoadInv, Fail PROVE LoadInv'
  OBVIOUS
<1>1. have = UpTo[at] /\ at \in DOMAIN ErrorLabel /\ failed' = at
  BY DEF Fail, LoadInv
<1>2. /\ ErrorLabel[at] \in DOMAIN Below
      /\ UpTo[at] = Below[ErrorLabel[at]] \cup (IF at = "file" THEN {"device"} ELSE {})
      /\ at = "file" => ErrorLabel[at] \notin {"fast_buf", "device"}
  BY <1>1 DEF ErrorLabel, Below, UpTo
<1> QED
  BY <1>1, <1>2 DEF LoadInv, Fail, Leaked

(* A label gives back what it names, and falls into the next.              *)
LEMMA UnwindKeeps == LoadInv /\ Unwind => LoadInv'
<1> SUFFICES ASSUME LoadInv, Unwind PROVE LoadInv'
  OBVIOUS
<1>0. at \in DOMAIN Below /\ have = Below[at] \cup Leaked /\ failed' = failed /\ Leaked' = Leaked
  BY DEF Unwind, LoadInv, Leaked
<1>1. CASE at = "out"
  BY <1>0, <1>1 DEF Unwind, GiveBack, LoadInv, Below
<1>2. CASE at # "out"
  <2>1. PICK k \in 1 .. 6 : at = UnwindOrder[k]
    BY <1>0, <1>2 DEF UnwindOrder, Below
  <2>2. at' = UnwindOrder[k + 1] /\ phase' = phase
    BY <1>2, <2>1, AfterUnwind DEF Unwind, GiveBack
  <2>3. have' = have \ IF at = "device" THEN {"device", "file"} ELSE {at}
    BY <1>2 DEF Unwind, GiveBack
  <2>4. Leaked = {} \/ (Leaked = {"device"} /\ failed = "file")
    BY DEF Leaked
  <2>5. UnwindOrder[k + 1] \in DOMAIN Below
    BY DEF UnwindOrder, Below
  <2>6. Below[UnwindOrder[k + 1]]
          = Below[UnwindOrder[k]] \ IF at = "device" THEN {"device", "file"} ELSE {at}
    BY <2>1 DEF UnwindOrder, Below, UpTo
  <2>7. failed = "file" => at \notin {"fast_buf", "device"}
                             /\ UnwindOrder[k + 1] \notin {"fast_buf", "device"}
    BY <2>1 DEF LoadInv, Unwind, UnwindOrder
  <2>8. have' = Below[at'] \cup Leaked
    BY <1>0, <2>1, <2>2, <2>3, <2>4, <2>6, <2>7
  <2> QED
    BY <1>0, <2>2, <2>5, <2>7, <2>8 DEF LoadInv, Unwind
<1> QED
  BY <1>1, <1>2

(* kxo_exit gives back in turn.                                            *)
LEMMA ExitKeeps == LoadInv /\ ExitStep => LoadInv'
<1> SUFFICES ASSUME LoadInv, ExitStep PROVE LoadInv'
  OBVIOUS
<1>0. at \in DOMAIN Behind /\ have = Behind[at] /\ failed' = failed /\ failed = "none"
  BY DEF ExitStep, LoadInv
<1>1. CASE at = "done"
  BY <1>0, <1>1 DEF ExitStep, GiveBack, LoadInv, Behind, Leaked
<1>2. CASE at # "done"
  <2>1. PICK k \in 1 .. 8 : at = ExitOrder[k]
    BY <1>0, <1>2 DEF ExitOrder, Behind
  <2>2. at' = ExitOrder[k + 1] /\ phase' = phase
    BY <1>2, <2>1, AfterExit DEF ExitStep, GiveBack
  <2>3. have' = have \ IF at = "device" THEN {"device", "file"} ELSE {at}
    BY <1>2 DEF ExitStep, GiveBack
  <2>4. ExitOrder[k + 1] \in DOMAIN Behind
    BY DEF ExitOrder, Behind
  <2>5. Behind[ExitOrder[k + 1]]
          = Behind[ExitOrder[k]] \ IF at = "device" THEN {"device", "file"} ELSE {at}
    BY <2>1 DEF ExitOrder, Behind, UpTo
  <2> QED
    BY <1>0, <2>1, <2>2, <2>3, <2>4, <2>5 DEF LoadInv, ExitStep
<1> QED
  BY <1>1, <1>2

(* insmod, the end of kxo_init and the begin of kxo_exit; everything else  *)
(* takes and gives back nothing.                                           *)
LEMMA LoadStep == LoadInv /\ [LifecycleNext]_lifecycleVars => LoadInv'
<1> SUFFICES ASSUME LoadInv, [LifecycleNext]_lifecycleVars PROVE LoadInv'
  OBVIOUS
<1>1. CASE insmod
  BY <1>1 DEF insmod, LoadInv, Taken, UpTo
<1>2. CASE Setup
  BY <1>2 DEF Setup, LoadInv, UpTo
<1>3. CASE kxo_exit
  BY <1>3 DEF kxo_exit, LoadInv, ExitOrder, Behind
<1>4. CASE UNCHANGED loadVars
  BY <1>4 DEF loadVars, LoadInv, Leaked
<1>5. CASE Take \/ Fail \/ Unwind \/ ExitStep
  BY <1>5, TakeKeeps, FailKeeps, UnwindKeeps, ExitKeeps
<1>6. ASSUME NEW f \in Files,
             \/ kxo_open(f) \/ OpenArm(f)
             \/ kxo_release(f) \/ ReleaseStop(f) \/ ReleaseDelete(f)
             \/ ReleaseFlush(f) \/ ReleaseStart(f) \/ ReleaseAttr(f)
      PROVE  UNCHANGED loadVars
  BY <1>6 DEF kxo_open, OpenArm, kxo_release, ReleaseStop, ReleaseDelete, ReleaseFlush,
     ReleaseStart, ReleaseAttr
<1>7. CASE timer_handler \/ loadavg_handler \/ game_tasklet_func \/ works
  BY <1>4, <1>7 DEF timer_handler, loadavg_handler, game_tasklet_func, works, Ends
<1>8. CASE UNCHANGED lifecycleVars
  BY <1>4, <1>8 DEF lifecycleVars
<1> QED
  BY <1>1, <1>2, <1>3, <1>4, <1>5, <1>6, <1>7, <1>8 DEF LifecycleNext

(* On no path does a resource outlive what it is built on.                 *)
LEMMA BuiltInOrder ==
  /\ \A a \in DOMAIN UpTo : \A res \in UpTo[a] : BuiltOn[res] \subseteq UpTo[a]
  /\ \A a \in DOMAIN Below : \A res \in Below[a] : BuiltOn[res] \subseteq Below[a]
  /\ \A a \in DOMAIN Behind : \A res \in Behind[a] : BuiltOn[res] \subseteq Behind[a]
<1>1. ASSUME NEW a \in DOMAIN UpTo, NEW res \in UpTo[a] PROVE BuiltOn[res] \subseteq UpTo[a]
  BY DEF UpTo, BuiltOn
<1>2. ASSUME NEW a \in DOMAIN Below, NEW res \in Below[a] PROVE BuiltOn[res] \subseteq Below[a]
  BY DEF UpTo, Below, BuiltOn
<1>3. ASSUME NEW a \in DOMAIN Behind, NEW res \in Behind[a] PROVE BuiltOn[res] \subseteq Behind[a]
  BY DEF UpTo, Behind, BuiltOn
<1> QED
  BY <1>1, <1>2, <1>3

(* Everything taken is given back, wherever a load fails and however often *)
(* the module comes and goes, but for the one device.                      *)
THEOREM LoadUnwinds == LifecycleSpec => []Unwound
<1>1. LifecycleInit => LoadInv
  BY DEF LifecycleInit, LoadInv, Leaked
<1>2. LoadInv => Unwound
  <2> SUFFICES ASSUME LoadInv PROVE Unwound
    OBVIOUS
  <2>1. phase = "unloaded" => have = Leaked
    BY DEF LoadInv
  <2>2. ASSUME NEW res \in have \ Leaked PROVE BuiltOn[res] \subseteq have
    <3>1. CASE phase = "unloaded"
      BY <2>1, <3>1
    <3>2. CASE phase = "init"
      BY <3>2, BuiltInOrder DEF LoadInv
    <3>3. CASE phase = "unwind"
      BY <3>3, BuiltInOrder DEF LoadInv
    <3>4. CASE phase = "live"
      <4>1. "setup" \in DOMAIN UpTo
        BY DEF UpTo
      <4> QED
        BY <3>4, <4>1, BuiltInOrder DEF LoadInv
    <3>5. CASE phase = "exit"
      BY <3>5, BuiltInOrder DEF LoadInv
    <3> QED
      BY <3>1, <3>2, <3>3, <3>4, <3>5 DEF LoadInv
  <2> QED
    BY <2>1, <2>2 DEF Unwound
<1> QED
  BY <1>1, <1>2, LoadStep, PTL DEF LifecycleSpec

-----------------------------------------------------------------------------
(* Opening and closing.  How a file that moves changes what is counted.    *)
LEMMA CountedFinite ==
  ASSUME LifecycleAssumption
  PROVE  IsFiniteSet(Counted) /\ Cardinality(Counted) \in Nat
BY FS_Subset, FS_CardinalityType DEF LifecycleAssumption, Counted

(* A stage between the counter and the last close counts as before.        *)
LEMMA CountedStays ==
  ASSUME fpc \in [Files -> FileStages], NEW f \in Files, NEW to, To(f, to),
         fpc[f] \in {"arm", "arm_loadavg", "open"} <=> to \in {"arm", "arm_loadavg", "open"}
  PROVE  Counted' = Counted
BY DEF Counted, To

(* A file that opens counts one more.                                      *)
LEMMA CountedGrows ==
  ASSUME LifecycleAssumption, fpc \in [Files -> FileStages], NEW f \in Files, NEW to,
         To(f, to), fpc[f] = "closed", to \in {"arm", "open"}
  PROVE  Cardinality(Counted') = Cardinality(Counted) + 1
<1>1. Counted' = Counted \cup {f} /\ f \notin Counted
  BY DEF Counted, To
<1> QED
  BY <1>1, CountedFinite, FS_AddElement

(* A file that closes counts one less.                                     *)
LEMMA CountedShrinks ==
  ASSUME LifecycleAssumption, fpc \in [Files -> FileStages], NEW f \in Files, NEW to,
         To(f, to), fpc[f] = "open", to \in {"stop", "attr"}
  PROVE  /\ Cardinality(Counted') = Cardinality(Counted) - 1
         /\ Cardinality(Counted) # 1 => \E g \in Files \ {f} : g \in Counted
<1>1. Counted' = Counted \ {f} /\ f \in Counted
  BY DEF Counted, To
<1>2. Cardinality(Counted') = Cardinality(Counted) - 1 /\ IsFiniteSet(Counted')
  BY <1>1, CountedFinite, FS_RemoveElement
<1>3. Cardinality(Counted) # 1 => Counted' # {}
  BY <1>2, CountedFinite, FS_EmptySet
<1> QED
  BY <1>1, <1>2, <1>3 DEF Counted

(* What is pending stays so, or is new and attended as well.               *)
LEMMA HandlersAttended ==
  ASSUME StopInv, timer_handler \/ loadavg_handler \/ game_tasklet_func \/ works
  PROVE  StopInv'
<1>0. UNCHANGED <<loadVars, fpc, open_cnt>>
  BY DEF timer_handler, loadavg_handler, game_tasklet_func, works, Ends
<1>1. CountInv'
  BY <1>0 DEF StopInv, CountInv, Counted, loadVars, timer_handler, loadavg_handler,
     game_tasklet_func, works, Ends
<1>2. InStage(Running) => InStage(Running \cup {"del_loadavg", "kill"})
                          /\ InStage(Running \cup {"del_loadavg", "kill", "flush"})
  BY DEF InStage
<1>3. InStage(Running \cup {"del_loadavg", "kill"})
        => InStage(Running \cup {"del_loadavg", "kill", "flush"})
  BY DEF InStage
<1>4. \A stages : InStage(stages)' <=> InStage(stages)
  BY <1>0 DEF InStage
<1>5. CASE timer_handler
  <2>1. "timer" \in active /\ owed' = owed /\ active' \subseteq active \cup {"work", "tasklet", "timer"}
    BY <1>5 DEF timer_handler, Ends
  <2>2. InStage(Running)
    BY <2>1 DEF StopInv, Attended
  <2> QED
    BY <1>1, <1>2, <1>4, <2>1, <2>2 DEF StopInv, Attended
<1>6. CASE loadavg_handler
  <2>1. active' = active /\ owed' = owed
    BY <1>6 DEF loadavg_handler, Ends
  <2> QED
    BY <1>0, <1>1, <1>4, <2>1 DEF StopInv, Attended
<1>7. CASE game_tasklet_func
  <2>1. "tasklet" \in active /\ owed' = owed /\ active' \subseteq active \cup {"work"}
    BY <1>7 DEF game_tasklet_func, Ends
  <2>2. InStage(Running \cup {"del_loadavg", "kill", "flush"})
    BY <1>3, <2>1 DEF StopInv, Attended
  <2> QED
    BY <1>1, <1>4, <2>1, <2>2 DEF StopInv, Attended
<1>8. CASE works
  <2>1. active' = active \ {"work"}
    BY <1>8 DEF works, Ends
  <2> QED
    BY <1>1, <1>4, <2>1 DEF StopInv, Attended
<1> QED
  BY <1>5, <1>6, <1>7, <1>8

(* A file that opens counts before it arms the timers, and the last one    *)
(* that is counted goes through the stops.                                 *)
LEMMA FilesAttended ==
  ASSUME LifecycleAssumption, StopInv, NEW f \in Files,
         \/ kxo_open(f) \/ OpenArm(f)
         \/ kxo_release(f) \/ ReleaseStop(f) \/ ReleaseDelete(f)
         \/ ReleaseFlush(f) \/ ReleaseStart(f) \/ ReleaseAttr(f)
  PROVE  StopInv'
<1> USE LifecycleAssumption
<1>0. /\ fpc \in [Files -> FileStages] /\ CountInv /\ Attended
      /\ active \subseteq {"timer", "loadavg_timer", "tasklet", "work"}
  BY DEF StopInv, CountInv
<1>1. phase = "live" /\ phase' = "live"
  BY <1>0 DEF CountInv, kxo_open, OpenArm, kxo_release, ReleaseStop, ReleaseDelete,
     ReleaseFlush, ReleaseStart, ReleaseAttr, loadVars, Stopper
<1>2. open_cnt = Cardinality(Counted)
  BY <1>0, <1>1 DEF CountInv
<1>3. ASSUME NEW to \in FileStages, To(f, to), open_cnt' = Cardinality(Counted')
      PROVE  CountInv'
  BY <1>0, <1>1, <1>3 DEF CountInv, To
<1>4. ASSUME NEW to \in FileStages, To(f, to), open_cnt' = open_cnt,
             fpc[f] \in {"arm", "arm_loadavg", "open"} <=> to \in {"arm", "arm_loadavg", "open"}
      PROVE  CountInv'
  BY <1>0, <1>2, <1>3, <1>4, CountedStays
<1>5. ASSUME NEW to \in FileStages, To(f, to), active' = active, owed' = owed,
             \A stages \in {Running, Running \cup {"del_loadavg"},
                            Running \cup {"del_loadavg", "kill"},
                            Running \cup {"del_loadavg", "kill", "flush"}} :
               fpc[f] \in stages => to \in stages,
             fpc[f] # "flushing"
      PROVE  Attended'
  <2>1. \A stages \in {Running, Running \cup {"del_loadavg"},
                       Running \cup {"del_loadavg", "kill"},
                       Running \cup {"del_loadavg", "kill", "flush"}} :
          InStage(stages) => InStage(stages)'
    BY <1>0, <1>5 DEF InStage, To
  <2>2. \A g \in owed : g \in Files /\ fpc[g] = "flushing" => fpc'[g] = "flushing"
    BY <1>0, <1>5 DEF To
  <2> QED
    BY <1>0, <1>5, <2>1, <2>2 DEF Attended
<1>6. CASE kxo_open(f)
  <2>1. PICK to \in {"arm", "open"} : To(f, to)
    BY <1>6 DEF kxo_open
  <2>2. fpc[f] = "closed" /\ open_cnt' = open_cnt + 1 /\ active' = active /\ owed' = owed
    BY <1>6 DEF kxo_open
  <2>3. CountInv'
    BY <1>0, <1>2, <1>3, <2>1, <2>2, CountedGrows DEF FileStages
  <2>4. Attended'
    BY <1>5, <2>1, <2>2 DEF FileStages, Running
  <2> QED
    BY <1>0, <2>2, <2>3, <2>4 DEF StopInv
<1>7. CASE OpenArm(f)
  <2>1. PICK to \in {"arm_loadavg", "open"} : To(f, to) /\ owed' = owed /\ open_cnt' = open_cnt
    BY <1>7 DEF OpenArm
  <2>2. fpc[f] \in {"arm", "arm_loadavg"}
    BY <1>7 DEF OpenArm
  <2>3. CountInv'
    BY <1>4, <2>1, <2>2 DEF FileStages
  <2>4. fpc'[f] = to
    BY <1>0, <2>1 DEF To
  <2>5. InStage(Running)' /\ InStage(Running \cup {"del_loadavg"})'
        /\ InStage(Running \cup {"del_loadavg", "kill"})'
        /\ InStage(Running \cup {"del_loadavg", "kill", "flush"})'
    BY <2>1, <2>4 DEF InStage, Running
  <2>6. active' \subseteq {"timer", "loadavg_timer", "tasklet", "work"}
    BY <1>0, <1>7 DEF OpenArm
  <2> QED
    BY <2>3, <2>5, <2>6 DEF StopInv, Attended
<1>8. CASE kxo_release(f)
  <2>1. fpc[f] = "open" /\ open_cnt' = open_cnt - 1 /\ active' = active /\ owed' = owed
    BY <1>8 DEF kxo_release
  <2>2. PICK to \in {"stop", "attr"} : To(f, to) /\ (open_cnt = 1 <=> to = "stop")
    BY <1>8 DEF kxo_release
  <2>3. CountInv'
    BY <1>0, <1>2, <1>3, <2>1, <2>2, CountedShrinks DEF FileStages
  <2>4. CASE to = "stop"
    <3>1. Attended'
      BY <1>5, <2>1, <2>2, <2>4 DEF FileStages, Running
    <3> QED
      BY <1>0, <2>1, <2>3, <3>1 DEF StopInv
  <2>5. CASE to = "attr"
    <3>1. PICK g \in Files \ {f} : g \in Counted
      BY <1>0, <1>2, <2>1, <2>2, <2>5, CountedShrinks
    <3>2. fpc'[g] \in Running
      BY <1>0, <2>2, <3>1 DEF To, Counted, Running
    <3>3. InStage(Running)' /\ InStage(Running \cup {"del_loadavg"})'
          /\ InStage(Running \cup {"del_loadavg", "kill"})'
          /\ InStage(Running \cup {"del_loadavg", "kill", "flush"})'
      BY <3>2 DEF InStage
    <3> QED
      BY <1>0, <2>1, <2>3, <3>3 DEF StopInv, Attended
  <2> QED
    BY <2>2, <2>4, <2>5
<1>9. CASE ReleaseStop(f)
  <2>1. /\ fpc[f] = "stop" /\ To(f, "del_timer") /\ active' = active /\ owed' = owed
        /\ open_cnt' = open_cnt
    BY <1>9 DEF ReleaseStop
  <2>2. CountInv' /\ Attended'
    BY <1>4, <1>5, <2>1 DEF FileStages, Running
  <2> QED
    BY <1>0, <2>1, <2>2 DEF StopInv
<1>10. CASE ReleaseDelete(f)
  <2>1. PICK to \in {"del_loadavg", "kill", "flush"} :
          /\ To(f, to)
          /\ fpc[f] = CASE to = "del_loadavg" -> "del_timer" [] to = "kill" -> "del_loadavg"
                        [] OTHER -> "kill"
    BY <1>10, AfterStop DEF ReleaseDelete, Stopper
  <2>2. /\ owed' = owed /\ open_cnt' = open_cnt
        /\ active' = active \ {CASE to = "del_loadavg" -> "timer"
                                 [] to = "kill" -> "loadavg_timer" [] OTHER -> "tasklet"}
    BY <1>10, <2>1 DEF ReleaseDelete, Stopper
  <2>3. CountInv'
    BY <1>4, <2>1, <2>2 DEF FileStages
  <2>4. Attended'
    BY <1>0, <2>1, <2>2 DEF Attended, InStage, To, Running
  <2> QED
    BY <1>0, <2>2, <2>3, <2>4 DEF StopInv
<1>11. CASE ReleaseFlush(f)
  <2>1. /\ fpc[f] = "flush" /\ To(f, "flushing") /\ active' = active /\ open_cnt' = open_cnt
        /\ owed' = IF "work" \in active THEN owed \cup {f} ELSE owed
    BY <1>11 DEF ReleaseFlush
  <2>2. CountInv'
    BY <1>4, <2>1 DEF FileStages
  <2>3. Attended'
    BY <1>0, <2>1 DEF Attended, InStage, To, Running
  <2> QED
    BY <1>0, <2>1, <2>2, <2>3 DEF StopInv
<1>12. CASE ReleaseStart(f) \/ ReleaseAttr(f)
  <2>1. PICK to \in {"attr", "closed"} :
          /\ To(f, to) /\ active' = active /\ owed' = owed /\ open_cnt' = open_cnt
          /\ \/ fpc[f] = "flushing" /\ f \notin owed
             \/ fpc[f] = "attr"
    BY <1>12 DEF ReleaseStart, ReleaseAttr
  <2>2. CountInv'
    BY <1>4, <2>1 DEF FileStages
  <2>3. Attended'
    BY <1>0, <2>1 DEF Attended, InStage, To, Running
  <2> QED
    BY <1>0, <2>1, <2>2, <2>3 DEF StopInv
<1> QED
  BY <1>6, <1>7, <1>8, <1>9, <1>10, <1>11, <1>12

(* Loading and unloading happen while no file is open.                     *)
LEMMA StopStep ==
  LifecycleAssumption /\ StopInv /\ [LifecycleNext]_lifecycleVars => StopInv'
<1> SUFFICES ASSUME LifecycleAssumption, StopInv, [LifecycleNext]_lifecycleVars PROVE StopInv'
  OBVIOUS
<1>1. CASE Setup
  <2>1. /\ phase # "live" /\ phase' = "live" /\ open_cnt' = 0
        /\ UNCHANGED <<fpc, owed, active>>
    BY <1>1 DEF Setup
  <2>2. Counted' = {}
    BY <2>1 DEF StopInv, CountInv, Counted
  <2>3. Cardinality(Counted') = 0
    BY <2>2, FS_EmptySet
  <2> QED
    BY <2>1, <2>3 DEF StopInv, CountInv, Attended
<1>2. CASE kxo_exit
  BY <1>2 DEF kxo_exit, StopInv, CountInv, Attended
<1>3. CASE insmod \/ Take \/ Fail \/ Unwind \/ ExitStep
  <2>1. phase # "live" /\ phase' # "live" /\ UNCHANGED runVars
    BY <1>3 DEF insmod, Take, Fail, Unwind, ExitStep, GiveBack
  <2> QED
    BY <2>1 DEF runVars, StopInv, CountInv, Attended
<1>4. CASE timer_handler \/ loadavg_handler \/ game_tasklet_func \/ works
  BY <1>4, HandlersAttended
<1>5. ASSUME NEW f \in Files,
             \/ kxo_open(f) \/ OpenArm(f)
             \/ kxo_release(f) \/ ReleaseStop(f) \/ ReleaseDelete(f)
             \/ ReleaseFlush(f) \/ ReleaseStart(f) \/ ReleaseAttr(f)
      PROVE  StopInv'
  BY <1>5, FilesAttended
<1>6. CASE UNCHANGED lifecycleVars
  BY <1>6 DEF lifecycleVars, loadVars, runVars, StopInv, CountInv, Attended, Counted, InStage
<1> QED
  BY <1>1, <1>2, <1>3, <1>4, <1>5, <1>6 DEF LifecycleNext

(* Once the last file is closed nothing runs by itself, however opens and  *)
(* closes of any number of files overlap, and nothing ever runs without    *)
(* what it uses.                                                           *)
THEOREM ClosedIsQuiet ==
  ASSUME LifecycleAssumption
  PROVE  LifecycleSpec => []QuietWhenClosed
<1>1. LifecycleInit => LoadInv /\ StopInv
  <2> SUFFICES ASSUME LifecycleInit PROVE LoadInv /\ StopInv
    OBVIOUS
  <2>1. LoadInv
    BY DEF LifecycleInit, LoadInv, Leaked
  <2>2. StopInv
    BY DEF LifecycleInit, StopInv, CountInv, Attended, FileStages
  <2> QED
    BY <2>1, <2>2
<1>2. LoadInv /\ StopInv => QuietWhenClosed
  <2> SUFFICES ASSUME LoadInv, StopInv PROVE QuietWhenClosed
    OBVIOUS
  <2>1. active # {} => NeededToRun \subseteq have
    BY DEF StopInv, CountInv, LoadInv, NeededToRun, UpTo
  <2>2. (\A f \in Files : fpc[f] = "closed") => active = {}
    BY DEF StopInv, Attended, InStage, Running
  <2> QED
    BY <2>1, <2>2 DEF QuietWhenClosed
<1>3. LoadInv /\ StopInv /\ [LifecycleNext]_lifecycleVars => (LoadInv /\ StopInv)'
  BY LoadStep, StopStep
<1> QED
  BY <1>1, <1>2, <1>3, PTL DEF LifecycleSpec
=============================================================================
