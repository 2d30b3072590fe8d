------------------------------ MODULE KxoViewer -------------------------------
(***************************************************************************)
(* Viewers (user/xo-user.c) on the device and on kxo_state (src/main.c).   *)
(* A round of main is one pass of task_io and task_tab: wait for a key or  *)
(* a record, handle one of them, draw the tab.  A key is handled by reading *)
(* kxo_state, changing one of its three characters and writing it back.    *)
(* The engine is only what it puts into the fifo and when it stops.        *)
(***************************************************************************)
EXTENDS Naturals, FiniteSets

CONSTANTS
  Viewers,
  Keys,           (* the keys typed: of ctrl_p, ctrl_q, q and w            *)
  MaxRecords      (* records the fifo holds (256 in the program)           *)

ViewerAssumption ==
  /\ IsFiniteSet(Viewers) /\ MaxRecords \in Nat \ {0}
  /\ Keys \subseteq {"ctrl_p", "ctrl_q", "q", "w"}

VARIABLES
  attr_obj,               (* display and end; resume is read by nothing    *)
  ticking,                (* the game timer                                *)
  drawing,                (* a draw work has seen display and will produce *)
  records,                (* in the fifo                                   *)
  vpc,                    (* where each viewer is                          *)
  key,                    (* typed and not yet read                        *)
  bufs,                   (* kxo_state as each viewer read it              *)
  read_attrs, end_attr, tabs,
  alone                   (* no second file was opened since there was     *)
                          (* none: history                                 *)

kernelVars == <<attr_obj, ticking, drawing, records>>
viewerVars == <<bufs, read_attrs, end_attr, tabs>>
loopVars == <<kernelVars, vpc, key, viewerVars, alone>>

Goto(v, pc) == vpc' = [vpc EXCEPT ![v] = pc]
Open == {v \in Viewers : vpc[v] # "closed"}

-----------------------------------------------------------------------------
(* The engine.  The timer goes on unless it finds end set.                 *)
TimerStops ==
  /\ ticking /\ attr_obj.end # "0" /\ ticking' = FALSE
  /\ UNCHANGED <<attr_obj, drawing, records, vpc, key, viewerVars, alone>>

DrawTest ==
  /\ ticking /\ ~drawing /\ attr_obj.display # "0" /\ drawing' = TRUE
  /\ UNCHANGED <<attr_obj, ticking, records, vpc, key, viewerVars, alone>>

Produced == IF drawing /\ records < MaxRecords THEN records + 1 ELSE records

DrawProduce ==
  /\ drawing /\ drawing' = FALSE /\ records' = Produced
  /\ UNCHANGED <<attr_obj, ticking, vpc, key, viewerVars, alone>>

-----------------------------------------------------------------------------
(* main up to its loop; the first kxo_open starts the timer.               *)
Start(v) ==
  /\ vpc[v] = "closed" /\ Goto(v, "select")
  /\ ticking' = (ticking \/ Open = {})
  /\ alone' = (Open = {})
  /\ read_attrs' = [read_attrs EXCEPT ![v] = TRUE]
  /\ UNCHANGED <<attr_obj, drawing, records, key, bufs, end_attr, tabs>>

(* kxo_release: the last close stops the timer and lets the works finish;  *)
(* every close resets kxo_state.  The viewer's own state goes with it.     *)
InitialText == [display |-> "1", end |-> "0"]

LastClose(v) == Open = {v}

CloseFile(v) ==
  /\ IF LastClose(v) THEN ticking' = FALSE /\ drawing' = FALSE /\ records' = Produced
                   ELSE UNCHANGED <<ticking, drawing, records>>
  /\ attr_obj' = InitialText
  /\ key' = [key EXCEPT ![v] = "none"]
  /\ Goto(v, "closed")
  /\ bufs' = [bufs EXCEPT ![v] = InitialText]
  /\ read_attrs' = [read_attrs EXCEPT ![v] = FALSE]
  /\ end_attr' = [end_attr EXCEPT ![v] = FALSE]
  /\ tabs' = [tabs EXCEPT ![v] = "record"]
  /\ UNCHANGED alone

(* A signal ends the viewer wherever it is; the kernel closes its file.    *)
Killed(v) == vpc[v] # "closed" /\ CloseFile(v)

Press(v, k) ==
  /\ vpc[v] # "closed" /\ key[v] = "none"
  /\ key' = [key EXCEPT ![v] = k]
  /\ UNCHANGED <<kernelVars, vpc, viewerVars, alone>>

(* task_io: the keyboard comes first; a record that nobody wants makes     *)
(* select return all the same.                                             *)
SelectedDevice(v) ==                      \* MUTANT: the device comes first
  IF read_attrs[v] /\ records > 0 THEN "read" ELSE IF key[v] # "none" THEN "key" ELSE "tab"
Selected(v) == IF key[v] # "none" THEN "key" ELSE IF read_attrs[v] THEN "read" ELSE "tab"

Select(v) ==
  /\ vpc[v] = "select" /\ (key[v] # "none" \/ records > 0)
  /\ Goto(v, Selected(v))
  /\ UNCHANGED <<kernelVars, key, viewerVars, alone>>

(* The device is read in blocking mode.                                    *)
Read(v) ==
  /\ vpc[v] = "read" /\ records > 0 /\ Goto(v, "tab")
  /\ records' = records - 1
  /\ UNCHANGED <<attr_obj, ticking, drawing, key, viewerVars, alone>>

(* listen_keyboard_handler, up to the read of kxo_state.                   *)
KeyRead(v) ==
  /\ vpc[v] = "key"
  /\ Goto(v, IF key[v] \in {"ctrl_p", "ctrl_q"} THEN key[v] ELSE "tab")
  /\ bufs' = IF key[v] \in {"ctrl_p", "ctrl_q"} THEN [bufs EXCEPT ![v] = attr_obj] ELSE bufs
  /\ tabs' = CASE key[v] = "q" -> [tabs EXCEPT ![v] = "record"]
              [] key[v] = "w" -> [tabs EXCEPT ![v] = "loadavg"]
              [] OTHER -> tabs
  /\ key' = [key EXCEPT ![v] = "none"]
  /\ UNCHANGED <<kernelVars, read_attrs, end_attr, alone>>

(* kxo_state_store takes all three characters; buf is the handler's own.   *)
FlipNothing(c) == "0"                     \* MUTANT: Ctrl-P always pauses
Flip(c) == IF c = "0" THEN "1" ELSE "0"

TogglePause(v) ==
  /\ vpc[v] = "ctrl_p" /\ Goto(v, "tab")
  /\ attr_obj' = [bufs[v] EXCEPT !.display = Flip(@)]
  /\ bufs' = [bufs EXCEPT ![v] = InitialText]
  /\ read_attrs' = [read_attrs EXCEPT ![v] = ~@]
  /\ UNCHANGED <<ticking, drawing, records, key, end_attr, tabs, alone>>

StopGames(v) ==
  /\ vpc[v] = "ctrl_q" /\ Goto(v, "tab")
  /\ attr_obj' = [bufs[v] EXCEPT !.end = "1"]
  /\ bufs' = [bufs EXCEPT ![v] = InitialText]
  /\ read_attrs' = [read_attrs EXCEPT ![v] = FALSE]
  /\ end_attr' = [end_attr EXCEPT ![v] = TRUE]
  /\ UNCHANGED <<ticking, drawing, records, key, tabs, alone>>

(* task_tab and the test of main's loop.                                   *)
Draw(v) ==
  /\ vpc[v] = "tab" /\ ~end_attr[v] /\ Goto(v, "select")
  /\ UNCHANGED <<kernelVars, key, viewerVars, alone>>

Quit(v) == vpc[v] = "tab" /\ end_attr[v] /\ CloseFile(v)

-----------------------------------------------------------------------------
LoopInit ==
  /\ attr_obj = InitialText
  /\ ticking = FALSE /\ drawing = FALSE /\ records = 0
  /\ vpc = [v \in Viewers |-> "closed"] /\ key = [v \in Viewers |-> "none"]
  /\ bufs = [v \in Viewers |-> InitialText]
  /\ read_attrs = [v \in Viewers |-> FALSE] /\ end_attr = [v \in Viewers |-> FALSE]
  /\ tabs = [v \in Viewers |-> "record"] /\ alone = TRUE

Round(v) ==
  \/ Select(v) \/ Read(v) \/ KeyRead(v) \/ TogglePause(v) \/ StopGames(v)
  \/ Draw(v) \/ Quit(v)

LoopNext ==
  \/ TimerStops \/ DrawTest \/ DrawProduce
  \/ \E v \in Viewers :
       Start(v) \/ Killed(v) \/ (\E k \in Keys : Press(v, k)) \/ Round(v)

LoopSpec == LoopInit /\ [][LoopNext]_loopVars

(* The engine and a viewer that can proceed do; nobody has to type.  A     *)
(* reader passed over by others gets its turn at read_lock.                *)
LoopFairness ==
  /\ WF_loopVars(DrawTest) /\ WF_loopVars(DrawProduce) /\ WF_loopVars(TimerStops)
  /\ \A v \in Viewers : WF_loopVars(Round(v)) /\ SF_loopVars(Read(v))

LoopFairSpec == LoopSpec /\ LoopFairness

-----------------------------------------------------------------------------
(* The viewer's own read_attr follows the module's display while no other  *)
(* file has been open beside it: when it waits for input it reads records  *)
(* exactly when the module produces them, after any keys, kills, restarts  *)
(* and other viewers before it.                                            *)
PauseAgrees ==
  alone => \A v \in Viewers :
             vpc[v] = "select" => (read_attrs[v] <=> attr_obj.display = "1")

(* While records keep coming every key typed is handled, though a record   *)
(* that select reported may be another viewer's by the time of the read,   *)
(* which then sleeps with the keyboard unwatched (kxo_poll, task_io).      *)
KeysServed ==
  []<>(records > 0) => \A v \in Viewers : (key[v] # "none") ~> (key[v] = "none")

(* "Ctrl+Q: Terminate all kernel-space games" (README.md): the timer of    *)
(* the games stops after a viewer has asked for it.                        *)
TerminateWorks == (\E v \in Viewers : end_attr[v]) ~> ~ticking

(* The same line of the README, of the request itself: nothing but a close *)
(* takes it back.                                                          *)
RequestStays ==
  [][attr_obj.end = "1" /\ attr_obj'.end = "0" =>
       \E v \in Viewers : vpc'[v] = "closed" /\ vpc[v] # "closed"]_loopVars
=============================================================================
