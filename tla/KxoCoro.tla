-------------------------------- MODULE KxoCoro -------------------------------
(***************************************************************************)
(* The coroutine runtime of the viewer (user/coro.c): a pool of CO_MAX     *)
(* coroutines, a FIFO run queue and one buffered channel, driven by a loop *)
(* like the one of user/xo-user.c that starts a round of coroutines and    *)
(* then calls co_run.  Everything runs on one thread: a step is what one   *)
(* call does up to the next switch of context.                             *)
(*                                                                         *)
(* A coroutine's body is the sequence of calls it still has to make.       *)
(***************************************************************************)
EXTENDS Integers, Sequences, SequencesExt, FiniteSets

CONSTANTS
  CO_MAX,      (* coroutines in the pool (16 in the program)               *)
  Cap,         (* capacity of the channel (16 in the program)              *)
  Messages,    (* values sent over the channel                             *)
  Rounds,      (* the rounds main may start: sequences of bodies           *)
  StackFails   (* may mmap fail to give a coroutine its stack?             *)

Slots == 0 .. CO_MAX - 1
NoCo == -1
Call == {"send", "recv", "yield"}

CoroAssumption ==
  /\ CO_MAX \in Nat \ {0}
  /\ Cap \in Nat \ {0}
  /\ Messages # {}
  /\ Rounds # {} /\ Rounds \subseteq Seq(Seq(Call))
  /\ StackFails \in BOOLEAN

VARIABLES
  state,         (* enum co_state of every slot; CO_DONE never outlives a switch *)
  stacks,        (* slots that have a stack                                *)
  broken,        (* slots whose stack pointer is MAP_FAILED                *)
  body,          (* calls a coroutine still has to make                    *)
  runq, current, (* run queue, running coroutine                           *)
  buf, head, tail, count,    (* the channel's ring                         *)
  recv_waiter, send_waiter,  (* the one coroutine remembered on each side  *)
  data,          (* what co_chan_recv stored last                          *)
  starting,      (* bodies main has still to start in this round           *)
  running,       (* co_run is executing                                    *)
  missed,        (* a co_start has started nothing: history                *)
  crashed        (* co_start has built a context on MAP_FAILED             *)

schedVars == <<state, stacks, broken, body, runq, current>>
ringVars == <<buf, head, tail, count, data>>
waitVars == <<recv_waiter, send_waiter>>
mainVars == <<starting, running, missed, crashed>>
coroVars == <<schedVars, ringVars, waitVars, mainVars>>

-----------------------------------------------------------------------------
(* co_start takes the first free slot.  It starts nothing, without a word, *)
(* if there is none or if the slot's first stack cannot be mapped; mmap has *)
(* then left a pointer in the slot that is not NULL, and the next co_start *)
(* that comes to it writes below MAP_FAILED: the viewer is killed, in the  *)
(* middle of its round.                                                    *)
FreeSlots == {s \in Slots : state[s] = "free"}
FirstFree == CHOOSE s \in FreeSlots : \A t \in FreeSlots : s <= t

StartsNothing ==
  /\ \/ FreeSlots = {} /\ UNCHANGED broken
     \/ /\ StackFails /\ FreeSlots # {} /\ FirstFree \notin stacks \cup broken
        /\ broken' = broken \cup {FirstFree}
  /\ missed' = TRUE
  /\ starting' = Tail(starting)
  /\ UNCHANGED <<state, body, stacks, runq, crashed>>

StartsOn(s) ==
  /\ state' = [state EXCEPT ![s] = "ready"]
  /\ body' = [body EXCEPT ![s] = Head(starting)]
  /\ stacks' = stacks \cup {s}
  /\ runq' = Append(runq, s)
  /\ starting' = Tail(starting)
  /\ UNCHANGED <<broken, missed, crashed>>

co_start ==
  /\ starting # <<>> /\ ~crashed
  /\ \/ StartsNothing
     \/ FreeSlots # {} /\ FirstFree \notin broken /\ StartsOn(FirstFree)
     \/ /\ FreeSlots # {} /\ FirstFree \in broken /\ crashed' = TRUE
        /\ UNCHANGED <<state, body, stacks, broken, runq, starting, missed>>
  /\ UNCHANGED <<current, ringVars, waitVars, running>>

co_run ==
  /\ ~running /\ starting = <<>>
  /\ running' = TRUE
  /\ UNCHANGED <<schedVars, ringVars, waitVars, starting, missed, crashed>>

(* co_run gives the thread to the head of the run queue.                   *)
Dispatch ==
  /\ running /\ current = NoCo /\ runq # <<>>
  /\ current' = Head(runq) /\ runq' = Tail(runq)
  /\ state' = [state EXCEPT ![Head(runq)] = "running"]
  /\ UNCHANGED <<stacks, broken, body, ringVars, waitVars, mainVars>>

(* With nothing ready co_run returns, whether or not a coroutine is        *)
(* blocked, and main begins its next round.                                *)
RunReturns ==
  /\ running /\ current = NoCo /\ runq = <<>>
  /\ running' = FALSE
  /\ starting' \in Rounds
  /\ UNCHANGED <<schedVars, ringVars, waitVars, missed, crashed>>

(* The body returns: co_proxy marks it CO_DONE, co_run makes it CO_FREE.   *)
co_proxy ==
  /\ current # NoCo /\ body[current] = <<>>
  /\ state' = [state EXCEPT ![current] = "free"]
  /\ current' = NoCo
  /\ UNCHANGED <<stacks, broken, body, runq, ringVars, waitVars, mainVars>>

Calls(c) == current # NoCo /\ body[current] # <<>> /\ Head(body[current]) = c
Called == body' = [body EXCEPT ![current] = Tail(@)]

co_yield ==
  /\ Calls("yield") /\ Called
  /\ state' = [state EXCEPT ![current] = "ready"]
  /\ runq' = Append(runq, current)
  /\ current' = NoCo
  /\ UNCHANGED <<stacks, broken, ringVars, waitVars, mainVars>>

-----------------------------------------------------------------------------
(* The channel.  The coroutine a call blocks replaces the one remembered   *)
(* on its side; when it is resumed it makes the test again.                *)
Wake(w) ==
  IF w = NoCo THEN UNCHANGED <<state, runq>>
  ELSE state' = [state EXCEPT ![w] = "ready"] /\ runq' = Append(runq, w)

FullLate == count > Cap             \* MUTANT: off by one
Full == count >= Cap

SendBlocks ==
  /\ Calls("send") /\ Full
  /\ send_waiter' = current
  /\ state' = [state EXCEPT ![current] = "blocked"]
  /\ current' = NoCo
  /\ UNCHANGED <<stacks, broken, body, runq, recv_waiter, ringVars, mainVars>>

co_chan_send_no_wake ==             \* MUTANT: the blocked receiver is not woken
  /\ Calls("send") /\ ~Full /\ Called
  /\ \E m \in Messages : buf' = [buf EXCEPT ![tail] = m]
  /\ tail' = (tail + 1) % Cap /\ count' = count + 1
  /\ UNCHANGED <<state, stacks, broken, runq, current, head, data, waitVars, mainVars>>

co_chan_send ==
  /\ Calls("send") /\ ~Full /\ Called
  /\ \E m \in Messages : buf' = [buf EXCEPT ![tail] = m]
  /\ tail' = (tail + 1) % Cap /\ count' = count + 1
  /\ Wake(recv_waiter) /\ recv_waiter' = NoCo
  /\ UNCHANGED <<stacks, broken, current, head, data, send_waiter, mainVars>>

RecvBlocks ==
  /\ Calls("recv") /\ count = 0
  /\ recv_waiter' = current
  /\ state' = [state EXCEPT ![current] = "blocked"]
  /\ current' = NoCo
  /\ UNCHANGED <<stacks, broken, body, runq, send_waiter, ringVars, mainVars>>

co_chan_recv_keeps_waiter ==        \* MUTANT: send_waiter is not cleared
  /\ Calls("recv") /\ count > 0 /\ Called
  /\ data' = buf[head]
  /\ head' = (head + 1) % Cap /\ count' = count - 1
  /\ Wake(send_waiter)
  /\ UNCHANGED <<stacks, broken, current, buf, tail, waitVars, mainVars>>

co_chan_recv ==
  /\ Calls("recv") /\ count > 0 /\ Called
  /\ data' = buf[head]
  /\ head' = (head + 1) % Cap /\ count' = count - 1
  /\ Wake(send_waiter) /\ send_waiter' = NoCo
  /\ UNCHANGED <<stacks, broken, current, buf, tail, recv_waiter, mainVars>>

-----------------------------------------------------------------------------
(* co_sched_init, co_chan_make and the first round.                        *)
CoroInit ==
  /\ state = [s \in Slots |-> "free"] /\ stacks = {} /\ broken = {}
  /\ body = [s \in Slots |-> <<>>]
  /\ runq = <<>> /\ current = NoCo
  /\ data \in Messages
  /\ \E m \in Messages : buf = [i \in 0 .. Cap - 1 |-> m]
  /\ head = 0 /\ tail = 0 /\ count = 0
  /\ recv_waiter = NoCo /\ send_waiter = NoCo
  /\ starting \in Rounds /\ running = FALSE
  /\ missed = FALSE /\ crashed = FALSE

CoroNext ==
  \/ co_start \/ co_run \/ Dispatch \/ RunReturns \/ co_proxy \/ co_yield
  \/ SendBlocks \/ co_chan_send \/ RecvBlocks \/ co_chan_recv

CoroSpec == CoroInit /\ [][CoroNext]_coroVars

-----------------------------------------------------------------------------
(* The run queue and the states agree: a coroutine is ready exactly when   *)
(* it is queued, once, and running exactly when it is current.  A waiter   *)
(* remembered after it was woken would be queued twice or after its slot   *)
(* went to another coroutine (enqueue, co_chan_send, co_chan_recv).        *)
PoolConsistent ==
  /\ IsInjective(runq)
  /\ \A s \in Slots :
       /\ state[s] = "ready" <=> s \in ToSet(runq)
       /\ state[s] = "running" <=> s = current
       /\ s \in {recv_waiter, send_waiter} => state[s] = "blocked"

(* No wakeup is lost: a coroutine that is blocked is the one its side of   *)
(* the channel remembers, and what it waits for has not come: a blocked    *)
(* receiver means an empty channel, a blocked sender a full one.           *)
NoLostWakeup ==
  \A s \in Slots :
    state[s] = "blocked" =>
      \/ Head(body[s]) = "recv" /\ recv_waiter = s /\ count = 0
      \/ Head(body[s]) = "send" /\ send_waiter = s /\ Full

(* co_run never gives up on a blocked coroutine ("This shouldn't happen in *)
(* our usage pattern", coro.c): when it returns, the whole round has ended, *)
(* every slot is free again and every message was received.                *)
RoundsDrain ==
  running /\ current = NoCo /\ runq = <<>> => FreeSlots = Slots /\ count = 0

(* Where every co_start found a slot and a stack and a round sends what it *)
(* receives, no coroutine is left blocked (coro.c, co_run).                *)
ChannelDrains == ~missed => NoLostWakeup /\ RoundsDrain

(* Rounds like the viewer's: one body sends, another one receives, the     *)
(* same number of times.  Calls are counted from the last one.             *)
Outstanding(b, c) == Cardinality({k \in 1 .. Len(b) : b[Len(b) + 1 - k] = c})
Sole(round, i, c) == \A j \in DOMAIN round : j # i => Outstanding(round[j], c) = 0
Paired(round) ==
  \E p, q \in DOMAIN round :
    /\ p # q /\ Outstanding(round[p], "send") = Outstanding(round[q], "recv")
    /\ Sole(round, p, "send") /\ Sole(round, q, "recv")
PairedRounds == \A round \in Rounds : Paired(round)

(* The ring delivers every message once and in the order of the sends.     *)
Queue == [i \in 1 .. count |-> buf[(head + i - 1) % Cap]]
Channel == INSTANCE KxoChannel WITH queue <- Queue
ChannelSpec == Channel!ChannelSpec
=============================================================================
