--------------------------- MODULE KxoUserProofs ----------------------------
(***************************************************************************)
(* Proofs about the viewer: its coroutines' run queue and their channel,   *)
(* for any pool, any bodies and any round; that rounds like its own end,   *)
(* with nobody blocked; its copy of the display attribute, while it is the *)
(* only one; and the order of what it writes to the terminal, for any      *)
(* buffer.                                                                 *)
(***************************************************************************)
EXTENDS KxoCoro, KxoViewer, KxoOutbuf, FiniteSetTheorems, SequenceTheorems, TLAPS

-----------------------------------------------------------------------------
(* The invariants.  A coroutine is remembered on one side of the channel   *)
(* at most, as it has to be woken before it can block again; the ring's    *)
(* tail is where its count says.                                           *)
PoolTypes ==
  /\ state \in [Slots -> {"free", "ready", "running", "blocked"}]
  /\ body \in [Slots -> Seq(Call)]
  /\ runq \in Seq(Slots) /\ current \in Slots \cup {NoCo}
  /\ starting \in Seq(Seq(Call))

WaiterTypes ==
  /\ recv_waiter \in Slots \cup {NoCo} /\ send_waiter \in Slots \cup {NoCo}
  /\ recv_waiter = send_waiter => recv_waiter = NoCo

PoolInv == PoolTypes /\ WaiterTypes /\ PoolConsistent

RingInv ==
  /\ buf \in [0 .. Cap - 1 -> Messages] /\ data \in Messages
  /\ head \in 0 .. Cap - 1 /\ count \in 0 .. Cap
  /\ tail = (head + count) % Cap

-----------------------------------------------------------------------------
(* The run queue as enqueue and dequeue change it.                         *)
LEMMA Enqueued ==
  ASSUME NEW S, NEW q \in Seq(S), NEW s \in S, IsInjective(q), s \notin ToSet(q)
  PROVE  /\ Append(q, s) \in Seq(S) /\ IsInjective(Append(q, s))
         /\ ToSet(Append(q, s)) = ToSet(q) \cup {s}
<1> DEFINE a == Append(q, s)
<1>1. a \in Seq(S) /\ Len(a) = Len(q) + 1
  OBVIOUS
<1>2. \A i \in 1 .. Len(q) : a[i] = q[i] /\ a[i] # s
  BY DEF ToSet
<1>3. a[Len(q) + 1] = s
  OBVIOUS
<1> HIDE DEF a
<1>4. DOMAIN a = 1 .. Len(q) + 1 /\ DOMAIN q = 1 .. Len(q) /\ Len(q) \in Nat
  BY <1>1
<1>5. IsInjective(a)
  BY <1>2, <1>3, <1>4 DEF IsInjective
<1>6. ToSet(a) = ToSet(q) \cup {s}
  BY <1>2, <1>3, <1>4 DEF ToSet
<1> QED
  BY <1>1, <1>5, <1>6 DEF a

(* run_queue_pop takes the first entry: the others keep their order.       *)
LEMMA Dequeued ==
  ASSUME NEW S, NEW q \in Seq(S), q # <<>>, IsInjective(q)
  PROVE  /\ Tail(q) \in Seq(S) /\ Head(q) \in S /\ IsInjective(Tail(q))
         /\ ToSet(Tail(q)) = ToSet(q) \ {Head(q)} /\ Head(q) \in ToSet(q)
<1> DEFINE r == Tail(q)
<1>1. /\ r \in Seq(S) /\ Len(r) = Len(q) - 1 /\ Len(q) \in Nat \ {0}
      /\ DOMAIN r = 1 .. Len(r) /\ DOMAIN q = 1 .. Len(q)
      /\ Head(q) = q[1] /\ q[1] \in S
  OBVIOUS
<1>2. \A i \in 1 .. Len(q) - 1 : r[i] = q[i + 1]
  OBVIOUS
<1> HIDE DEF r
<1>3. IsInjective(r)
  <2> SUFFICES ASSUME NEW i \in DOMAIN r, NEW k \in DOMAIN r, r[i] = r[k] PROVE i = k
    BY DEF IsInjective
  <2>1. i + 1 \in DOMAIN q /\ k + 1 \in DOMAIN q /\ q[i + 1] = q[k + 1]
    BY <1>1, <1>2
  <2>2. i + 1 = k + 1
    BY <2>1 DEF IsInjective
  <2> QED
    BY <1>1, <2>2
<1>4. Head(q) \in ToSet(q)
  BY <1>1 DEF ToSet
<1>5. ASSUME NEW s \in ToSet(r) PROVE s \in ToSet(q) \ {Head(q)}
  <2>1. PICK i \in 1 .. Len(q) - 1 : s = q[i + 1]
    BY <1>1, <1>2 DEF ToSet
  <2>2. i + 1 \in DOMAIN q /\ 1 \in DOMAIN q /\ i + 1 # 1
    BY <1>1
  <2> QED
    BY <1>1, <2>1, <2>2 DEF ToSet, IsInjective
<1>6. ASSUME NEW s \in ToSet(q) \ {Head(q)} PROVE s \in ToSet(r)
  <2>1. PICK i \in 2 .. Len(q) : q[i] = s
    BY <1>1 DEF ToSet
  <2>2. i - 1 \in DOMAIN r /\ r[i - 1] = s
    BY <1>1, <1>2, <2>1
  <2> QED
    BY <2>2 DEF ToSet
<1> QED
  BY <1>1, <1>3, <1>4, <1>5, <1>6 DEF r

(* co_start finds the first free slot.                                     *)
LEMMA FirstFreeIsFree ==
  ASSUME CoroAssumption, FreeSlots # {}
  PROVE  FirstFree \in Slots /\ state[FirstFree] = "free"
<1> DEFINE below == {0 .. s : s \in FreeSlots}
           Smaller == StrictSubsetOrdering(Slots)
<1>1. CO_MAX \in Nat /\ FreeSlots \subseteq Slots /\ Slots \subseteq Nat
  BY DEF FreeSlots, Slots, CoroAssumption
<1>2. IsWellFoundedOn(Smaller, SUBSET Slots)
  <2>1. IsFiniteSet(Slots)
    BY <1>1, FS_Interval DEF Slots
  <2> QED
    BY <2>1, FS_FiniteSubsetsOfFinite, FS_StrictSubsetOrderingWellFounded
<1>3. below \subseteq SUBSET Slots /\ below # {}
  <2>1. \A s \in FreeSlots : 0 .. s \in SUBSET Slots
    BY <1>1 DEF Slots
  <2> QED
    BY <2>1
<1>4. \E x \in below : \A y \in below : <<y, x>> \notin Smaller
  <2> HIDE DEF below, Smaller
  <2> QED
    BY <1>2, <1>3, WFMin
<1>5. PICK s \in FreeSlots : \A t \in FreeSlots : <<0 .. t, 0 .. s>> \notin Smaller
  BY <1>4
<1>6. ASSUME NEW t \in FreeSlots PROVE s <= t
  <2> SUFFICES ASSUME t < s PROVE FALSE
    BY <1>1
  <2>1. 0 .. t \subseteq 0 .. s /\ 0 .. t # 0 .. s /\ 0 .. s \subseteq Slots
    BY <1>1 DEF Slots
  <2>2. <<0 .. t, 0 .. s>> \in Smaller
    BY <2>1 DEF StrictSubsetOrdering
  <2> QED
    BY <1>5, <2>2
<1> QED
  BY <1>6 DEF FirstFree, FreeSlots

-----------------------------------------------------------------------------
(* The pool.                                                               *)
LEMMA PoolInit == CoroAssumption /\ CoroInit => PoolInv
<1> SUFFICES ASSUME CoroAssumption, CoroInit PROVE PoolInv
  OBVIOUS
<1>1. NoCo \notin Slots
  BY DEF NoCo, Slots
<1>2. PoolTypes
  BY DEF CoroInit, PoolTypes, CoroAssumption
<1>3. WaiterTypes
  BY DEF CoroInit, WaiterTypes
<1>4. PoolConsistent
  BY <1>1 DEF CoroInit, PoolConsistent, IsInjective, ToSet
<1> QED
  BY <1>2, <1>3, <1>4 DEF PoolInv

(* A coroutine that calls enters no queue but at the end, and only the     *)
(* current one blocks.                                                     *)
LEMMA PoolStep == CoroAssumption /\ PoolInv /\ [CoroNext]_coroVars => PoolInv'
<1> SUFFICES ASSUME CoroAssumption, PoolInv, [CoroNext]_coroVars PROVE PoolInv'
  OBVIOUS
<1>0. /\ PoolTypes /\ WaiterTypes /\ PoolConsistent /\ NoCo \notin Slots
      /\ IsInjective(runq)
  BY DEF PoolInv, PoolConsistent, NoCo, Slots
<1>1. CASE co_start
  <2>1. Head(starting) \in Seq(Call) /\ starting' \in Seq(Seq(Call))
    <3>1. starting' \in {starting, Tail(starting)} /\ starting # <<>>
      BY <1>1 DEF co_start, StartsNothing, StartsOn
    <3>2. starting \in Seq(Seq(Call))
      BY <1>0 DEF PoolTypes
    <3>3. Head(starting) \in Seq(Call) /\ Tail(starting) \in Seq(Seq(Call))
      BY <3>1, <3>2
    <3> QED
      BY <3>1, <3>2, <3>3
  <2>2. CASE UNCHANGED <<state, body, stacks, runq>>
    BY <1>0, <1>1, <2>1, <2>2 DEF co_start, PoolInv, PoolTypes, WaiterTypes, PoolConsistent,
       waitVars
  <2>3. ASSUME FreeSlots # {}, state' = [state EXCEPT ![FirstFree] = "ready"],
               body' = [body EXCEPT ![FirstFree] = Head(starting)],
               runq' = Append(runq, FirstFree)
        PROVE  PoolInv'
    <3>1. FirstFree \in Slots /\ state[FirstFree] = "free"
      BY <2>3, FirstFreeIsFree
    <3>2. FirstFree \notin ToSet(runq) /\ FirstFree # current
          /\ FirstFree \notin {recv_waiter, send_waiter}
      BY <1>0, <3>1 DEF PoolConsistent
    <3>3. /\ runq' \in Seq(Slots) /\ IsInjective(runq')
          /\ ToSet(runq') = ToSet(runq) \cup {FirstFree}
      BY <1>0, <2>3, <3>1, <3>2, Enqueued DEF PoolTypes
    <3>4. PoolTypes'
      BY <1>0, <1>1, <2>1, <2>3, <3>1, <3>3 DEF co_start, PoolTypes
    <3>5. WaiterTypes'
      BY <1>0, <1>1 DEF co_start, WaiterTypes, waitVars
    <3>6. PoolConsistent'
      BY <1>0, <1>1, <2>3, <3>1, <3>2, <3>3 DEF co_start, PoolConsistent, PoolTypes, waitVars
    <3> QED
      BY <3>4, <3>5, <3>6 DEF PoolInv
  <2> QED
    BY <1>1, <2>2, <2>3 DEF co_start, StartsNothing, StartsOn
<1>2. CASE co_run
  BY <1>0, <1>2 DEF co_run, PoolInv, PoolTypes, WaiterTypes, PoolConsistent, schedVars, waitVars
<1>3. CASE Dispatch
  <2>1. /\ runq' \in Seq(Slots) /\ IsInjective(runq') /\ Head(runq) \in Slots
        /\ ToSet(runq') = ToSet(runq) \ {Head(runq)} /\ Head(runq) \in ToSet(runq)
    BY <1>0, <1>3, Dequeued DEF Dispatch, PoolTypes
  <2>2. PoolTypes' /\ WaiterTypes'
    BY <1>0, <1>3, <2>1 DEF Dispatch, PoolTypes, WaiterTypes, mainVars, waitVars
  <2>3. PoolConsistent'
    BY <1>0, <1>3, <2>1 DEF Dispatch, PoolConsistent, PoolTypes, waitVars
  <2> QED
    BY <2>2, <2>3 DEF PoolInv
<1>4. CASE RunReturns
  BY <1>0, <1>4 DEF RunReturns, CoroAssumption, PoolInv, PoolTypes, WaiterTypes,
     PoolConsistent, schedVars, waitVars
<1>5. CASE co_proxy
  <2>1. PoolTypes' /\ WaiterTypes'
    BY <1>0, <1>5 DEF co_proxy, PoolTypes, WaiterTypes, mainVars, waitVars
  <2>2. PoolConsistent'
    BY <1>0, <1>5 DEF co_proxy, PoolConsistent, PoolTypes, waitVars
  <2> QED
    BY <2>1, <2>2 DEF PoolInv
<1>6. ASSUME Called, current \in Slots, body[current] # <<>>
      PROVE  body' \in [Slots -> Seq(Call)]
  BY <1>0, <1>6 DEF Called, PoolTypes
<1>7. CASE co_yield
  <2>1. current \in Slots /\ current \notin ToSet(runq)
    BY <1>0, <1>7 DEF co_yield, Calls, PoolTypes, PoolConsistent
  <2>2. /\ runq' \in Seq(Slots) /\ IsInjective(runq')
        /\ ToSet(runq') = ToSet(runq) \cup {current}
    BY <1>0, <1>7, <2>1, Enqueued DEF co_yield, PoolTypes
  <2>3. PoolTypes' /\ WaiterTypes'
    BY <1>0, <1>6, <1>7, <2>1, <2>2 DEF co_yield, Calls, PoolTypes, WaiterTypes, mainVars, waitVars
  <2>4. PoolConsistent'
    BY <1>0, <1>7, <2>1, <2>2 DEF co_yield, PoolConsistent, PoolTypes, waitVars
  <2> QED
    BY <2>3, <2>4 DEF PoolInv
<1>8. CASE SendBlocks \/ RecvBlocks
  <2>1. current \in Slots /\ state[current] = "running"
    BY <1>0, <1>8 DEF SendBlocks, RecvBlocks, Calls, PoolTypes, PoolConsistent
  <2>2. current \notin {recv_waiter, send_waiter} /\ current \notin ToSet(runq)
    BY <1>0, <2>1 DEF PoolConsistent
  <2>3. PoolTypes' /\ WaiterTypes'
    BY <1>0, <1>8, <2>1, <2>2 DEF SendBlocks, RecvBlocks, PoolTypes, WaiterTypes, mainVars
  <2>4. PoolConsistent'
    BY <1>0, <1>8, <2>1, <2>2 DEF SendBlocks, RecvBlocks, PoolConsistent, PoolTypes
  <2> QED
    BY <2>3, <2>4 DEF PoolInv
<1>9. ASSUME NEW w \in Slots \cup {NoCo}, Wake(w), Called, current' = current,
             current \in Slots, body[current] # <<>>, starting' = starting,
             \/ w = recv_waiter /\ recv_waiter' = NoCo /\ send_waiter' = send_waiter
             \/ w = send_waiter /\ send_waiter' = NoCo /\ recv_waiter' = recv_waiter
      PROVE  PoolInv'
  <2>1. body' \in [Slots -> Seq(Call)]
    BY <1>6, <1>9
  <2>2. WaiterTypes'
    BY <1>0, <1>9 DEF WaiterTypes
  <2>3. CASE w = NoCo
    BY <1>0, <1>9, <2>1, <2>2, <2>3 DEF Wake, PoolInv, PoolTypes, PoolConsistent
  <2>4. CASE w # NoCo
    <3>1. w \in Slots /\ state[w] = "blocked" /\ w # current /\ w \notin ToSet(runq)
      BY <1>0, <1>9, <2>4 DEF PoolConsistent
    <3>2. /\ runq' \in Seq(Slots) /\ IsInjective(runq')
          /\ ToSet(runq') = ToSet(runq) \cup {w}
      <4>1. runq' = Append(runq, w) /\ runq \in Seq(Slots)
        BY <1>0, <1>9, <2>4 DEF Wake, PoolTypes
      <4> QED
        BY <1>0, <3>1, <4>1, Enqueued
    <3>3. PoolTypes'
      BY <1>0, <1>9, <2>1, <2>4, <3>1, <3>2 DEF Wake, PoolTypes
    <3>4. w \notin {recv_waiter', send_waiter'}
      BY <1>0, <1>9, <2>4 DEF WaiterTypes
    <3>5. PoolConsistent'
      BY <1>0, <1>9, <2>4, <3>1, <3>2, <3>4 DEF Wake, PoolConsistent, PoolTypes
    <3> QED
      BY <2>2, <3>3, <3>5 DEF PoolInv
  <2> QED
    BY <2>3, <2>4
<1>10. CASE co_chan_send
  BY <1>0, <1>9, <1>10 DEF co_chan_send, Calls, PoolTypes, WaiterTypes, mainVars
<1>11. CASE co_chan_recv
  BY <1>0, <1>9, <1>11 DEF co_chan_recv, Calls, PoolTypes, WaiterTypes, mainVars
<1>12. CASE UNCHANGED coroVars
  BY <1>0, <1>12 DEF coroVars, schedVars, waitVars, mainVars, PoolInv, PoolTypes, WaiterTypes,
     PoolConsistent
<1> QED
  BY <1>1, <1>2, <1>3, <1>4, <1>5, <1>7, <1>8, <1>10, <1>11, <1>12 DEF CoroNext

(* Nobody is queued twice, or after its slot went to another coroutine,    *)
(* for any size of the pool and any bodies.                                *)
THEOREM PoolIsConsistent ==
  ASSUME CoroAssumption
  PROVE  CoroSpec => []PoolConsistent
<1>1. PoolInv => PoolConsistent
  BY DEF PoolInv
<1> QED
  BY <1>1, PoolInit, PoolStep, PTL DEF CoroSpec

-----------------------------------------------------------------------------
(* The ring.                                                               *)
Reduced(n) == IF n < Cap THEN n ELSE n - Cap

(* Indices less than two rounds from the start are reduced by one round at *)
(* most.                                                                   *)
LEMMA RingIndex ==
  ASSUME Cap \in Nat \ {0}
  PROVE  \A n \in 0 .. 2 * Cap - 1 : n % Cap = Reduced(n)
<1> SUFFICES ASSUME NEW n \in 0 .. 2 * Cap - 1 PROVE n % Cap = Reduced(n)
  OBVIOUS
<1>1. CASE n < Cap
  BY <1>1 DEF Reduced
<1>2. CASE n >= Cap
  <2>1. n - Cap \in 0 .. Cap - 1 /\ n = Cap * 1 + (n - Cap)
    BY <1>2
  <2> QED
    BY <1>2, <2>1 DEF Reduced
<1> QED
  BY <1>1, <1>2

(* An empty ring is the empty queue.                                       *)
LEMMA RingInit == CoroAssumption /\ CoroInit => RingInv /\ Channel!ChannelInit
<1> SUFFICES ASSUME CoroAssumption, CoroInit PROVE RingInv /\ Channel!ChannelInit
  OBVIOUS
<1>0. Cap \in Nat \ {0}
  BY DEF CoroAssumption
<1>1. (0 + 0) % Cap = 0
  BY <1>0
<1>2. RingInv
  BY <1>0, <1>1 DEF CoroInit, RingInv
<1>3. Queue = <<>>
  BY DEF CoroInit, Queue
<1>4. data \in Messages
  BY DEF CoroInit
<1> QED
  BY <1>2, <1>3, <1>4 DEF Channel!ChannelInit

(* The queue has as many messages as the ring counts.                      *)
LEMMA QueueType ==
  ASSUME CoroAssumption, RingInv
  PROVE  Queue \in Seq(Messages) /\ Len(Queue) = count
<1>0. Cap \in Nat \ {0} /\ count \in Nat
  BY DEF CoroAssumption, RingInv
<1>1. \A i \in 1 .. count : (head + i - 1) % Cap \in 0 .. Cap - 1
  BY <1>0 DEF RingInv
<1>2. \A i \in 1 .. count : buf[(head + i - 1) % Cap] \in Messages
  BY <1>1 DEF RingInv
<1> QED
  BY <1>0, <1>2 DEF Queue

(* Append as a function of the index.                                      *)
LEMMA AppendIs ==
  ASSUME NEW S, NEW q \in Seq(S), NEW e
  PROVE  Append(q, e) = [i \in 1 .. Len(q) + 1 |-> IF i <= Len(q) THEN q[i] ELSE e]
<1> DEFINE a == Append(q, e)
<1>1. a \in Seq(S \cup {e}) /\ Len(a) = Len(q) + 1 /\ Len(q) \in Nat
  OBVIOUS
<1>2. \A i \in 1 .. Len(q) + 1 : a[i] = IF i <= Len(q) THEN q[i] ELSE e
  OBVIOUS
<1> HIDE DEF a
<1>3. a = [i \in 1 .. Len(q) + 1 |-> a[i]]
  BY <1>1
<1>4. [i \in 1 .. Len(q) + 1 |-> a[i]]
        = [i \in 1 .. Len(q) + 1 |-> IF i <= Len(q) THEN q[i] ELSE e]
  BY <1>2
<1> QED
  BY <1>3, <1>4 DEF a

(* co_chan_send puts its message behind all that are in the ring.          *)
LEMMA SendImplements ==
  ASSUME CoroAssumption, RingInv, co_chan_send
  PROVE  RingInv' /\ Channel!Send
<1>0. /\ Cap \in Nat \ {0} /\ head \in 0 .. Cap - 1 /\ count \in 0 .. Cap - 1
      /\ buf \in [0 .. Cap - 1 -> Messages] /\ tail = (head + count) % Cap
  BY DEF CoroAssumption, RingInv, co_chan_send, Full
<1>1. tail = IF head + count < Cap THEN head + count ELSE head + count - Cap
  <2>1. head + count \in 0 .. 2 * Cap - 1
    BY <1>0
  <2>2. (head + count) % Cap = Reduced(head + count)
    BY <1>0, <2>1, RingIndex
  <2> QED
    BY <1>0, <2>2 DEF Reduced
<1>2. PICK m \in Messages : buf' = [buf EXCEPT ![tail] = m]
  BY DEF co_chan_send
<1>3. head' = head /\ data' = data /\ count' = count + 1 /\ tail' = (tail + 1) % Cap
  BY DEF co_chan_send
<1>4. tail \in 0 .. Cap - 1 /\ tail' = (head' + count') % Cap
  <2>1. tail \in 0 .. Cap - 1
    BY <1>0, <1>1
  <2>2. (tail + 1) % Cap = IF tail + 1 < Cap THEN tail + 1 ELSE tail + 1 - Cap
    <3>1. tail + 1 \in 0 .. 2 * Cap - 1
      BY <1>0, <2>1
    <3>2. (tail + 1) % Cap = Reduced(tail + 1)
      BY <1>0, <3>1, RingIndex
    <3> QED
      BY <1>0, <3>1, <3>2 DEF Reduced
  <2>3. head + count + 1 \in 0 .. 2 * Cap - 1
    BY <1>0
  <2>4. (head + count + 1) % Cap
          = IF head + count + 1 < Cap THEN head + count + 1 ELSE head + count + 1 - Cap
    <3>1. (head + count + 1) % Cap = Reduced(head + count + 1)
      BY <1>0, <2>3, RingIndex
    <3> QED
      BY <1>0, <2>3, <3>1 DEF Reduced
  <2> QED
    BY <1>0, <1>1, <1>3, <2>1, <2>2, <2>4
<1>5. RingInv'
  BY <1>0, <1>2, <1>3, <1>4 DEF RingInv
<1>6. \A i \in 1 .. count : (head + i - 1) % Cap \in 0 .. Cap - 1 /\ (head + i - 1) % Cap # tail
  <2> SUFFICES ASSUME NEW i \in 1 .. count
               PROVE  (head + i - 1) % Cap \in 0 .. Cap - 1 /\ (head + i - 1) % Cap # tail
    OBVIOUS
  <2>1. head + i - 1 \in 0 .. 2 * Cap - 1
    BY <1>0
  <2>2. (head + i - 1) % Cap = IF head + i - 1 < Cap THEN head + i - 1 ELSE head + i - 1 - Cap
    <3>1. (head + i - 1) % Cap = Reduced(head + i - 1)
      BY <1>0, <2>1, RingIndex
    <3> QED
      BY <1>0, <2>1, <3>1 DEF Reduced
  <2> QED
    BY <1>0, <1>1, <2>2
<1>7. Queue' = Append(Queue, m)
  <2>1. Queue \in Seq(Messages) /\ Len(Queue) = count /\ count \in Nat
    BY <1>0, QueueType
  <2>2. Queue' = [i \in 1 .. count + 1 |-> buf'[(head + i - 1) % Cap]]
    BY <1>3 DEF Queue
  <2>3. \A i \in 1 .. count : buf'[(head + i - 1) % Cap] = Queue[i]
    BY <1>0, <1>2, <1>6 DEF Queue
  <2>4. buf'[(head + (count + 1) - 1) % Cap] = m
    BY <1>0, <1>2, <1>4
  <2>5. Append(Queue, m) = [i \in 1 .. count + 1 |-> IF i <= count THEN Queue[i] ELSE m]
    <3> HIDE DEF Queue
    <3> QED
      BY <2>1, AppendIs
  <2>6. \A i \in 1 .. count + 1 :
          buf'[(head + i - 1) % Cap] = IF i <= count THEN Queue[i] ELSE m
    BY <2>1, <2>3, <2>4
  <2> QED
    BY <2>2, <2>5, <2>6
<1>8. Len(Queue) < Cap
  BY <1>0, QueueType
<1> QED
  BY <1>3, <1>5, <1>7, <1>8 DEF Channel!Send

(* co_chan_recv takes the oldest message.                                  *)
LEMMA RecvImplements ==
  ASSUME CoroAssumption, RingInv, co_chan_recv
  PROVE  RingInv' /\ Channel!Receive
<1>0. /\ Cap \in Nat \ {0} /\ head \in 0 .. Cap - 1 /\ count \in 1 .. Cap
      /\ buf \in [0 .. Cap - 1 -> Messages] /\ tail = (head + count) % Cap
  BY DEF CoroAssumption, RingInv, co_chan_recv
<1>1. /\ buf' = buf /\ tail' = tail /\ data' = buf[head]
      /\ head' = (head + 1) % Cap /\ count' = count - 1
  BY DEF co_chan_recv
<1>2. head' = IF head + 1 < Cap THEN head + 1 ELSE head + 1 - Cap
  <2>1. head + 1 \in 0 .. 2 * Cap - 1
    BY <1>0
  <2> QED
    BY <1>0, <1>1, <2>1, RingIndex DEF Reduced
<1>3. ASSUME NEW i \in 0 .. count - 1
      PROVE  (head' + i) % Cap = (head + i + 1) % Cap
  <2>1. head + i + 1 \in 0 .. 2 * Cap - 1 /\ head' + i \in 0 .. 2 * Cap - 1
    BY <1>0, <1>2
  <2>2. (head + i + 1) % Cap = IF head + i + 1 < Cap THEN head + i + 1 ELSE head + i + 1 - Cap
    <3>1. (head + i + 1) % Cap = Reduced(head + i + 1)
      BY <1>0, <2>1, RingIndex
    <3> QED
      BY <1>0, <2>1, <3>1 DEF Reduced
  <2>3. (head' + i) % Cap = IF head' + i < Cap THEN head' + i ELSE head' + i - Cap
    <3>1. (head' + i) % Cap = Reduced(head' + i)
      BY <1>0, <2>1, RingIndex
    <3> QED
      BY <1>0, <1>2, <2>1, <3>1 DEF Reduced
  <2> QED
    BY <1>0, <1>2, <2>2, <2>3
<1>4. RingInv'
  <2>1. head' \in 0 .. Cap - 1 /\ count' \in 0 .. Cap
    BY <1>0, <1>1, <1>2
  <2>2. tail' = (head' + count') % Cap
    <3>1. (head' + (count - 1)) % Cap = (head + (count - 1) + 1) % Cap
      BY <1>0, <1>3
    <3>2. head + (count - 1) + 1 = head + count
      BY <1>0
    <3> QED
      BY <1>0, <1>1, <3>1, <3>2
  <2>3. data' \in Messages
    BY <1>0, <1>1
  <2> QED
    BY <1>0, <1>1, <2>1, <2>2, <2>3 DEF RingInv
<1>5. Queue \in Seq(Messages) /\ Len(Queue) = count /\ Queue # <<>>
  BY <1>0, QueueType
<1>6. data' = Head(Queue)
  <2>1. Queue[1] = buf[(head + 1 - 1) % Cap]
    BY <1>0 DEF Queue
  <2>2. (head + 1 - 1) % Cap = head
    BY <1>0
  <2> QED
    BY <1>1, <1>5, <2>1, <2>2
<1>7. Queue' = Tail(Queue)
  <2>1. Queue' = [i \in 1 .. count - 1 |-> buf[(head' + i - 1) % Cap]]
    BY <1>1 DEF Queue
  <2>2. Tail(Queue) = [i \in 1 .. count - 1 |-> Queue[i + 1]]
    BY <1>0, <1>5
  <2>3. ASSUME NEW i \in 1 .. count - 1
        PROVE  buf[(head' + i - 1) % Cap] = Queue[i + 1]
    <3>1. Queue[i + 1] = buf[(head + (i + 1) - 1) % Cap]
      BY <1>0 DEF Queue
    <3>2. (head' + (i - 1)) % Cap = (head + (i - 1) + 1) % Cap
      BY <1>0, <1>3
    <3>3. /\ head' + i - 1 = head' + (i - 1)
          /\ head + (i + 1) - 1 = head + (i - 1) + 1
      BY <1>0, <1>2
    <3> QED
      BY <3>1, <3>2, <3>3
  <2> QED
    BY <2>1, <2>2, <2>3
<1> QED
  BY <1>4, <1>5, <1>6, <1>7 DEF Channel!Receive

(* Refinement: whatever the scheduler does, the channel is the bounded     *)
(* queue of KxoChannel: every message is delivered once, in order.         *)
THEOREM ChannelIsQueue ==
  ASSUME CoroAssumption
  PROVE  CoroSpec => ChannelSpec
<1>1. RingInv /\ [CoroNext]_coroVars => RingInv' /\ [Channel!Send \/ Channel!Receive]_<<Queue, data>>
  <2> SUFFICES ASSUME RingInv, [CoroNext]_coroVars
               PROVE  RingInv' /\ [Channel!Send \/ Channel!Receive]_<<Queue, data>>
    OBVIOUS
  <2>1. CASE co_chan_send
    BY <2>1, SendImplements
  <2>2. CASE co_chan_recv
    BY <2>2, RecvImplements
  <2>3. CASE UNCHANGED ringVars
    BY <2>3 DEF ringVars, RingInv, Queue
  <2> QED
    BY <2>1, <2>2, <2>3 DEF CoroNext, co_start, co_run, Dispatch, RunReturns, co_proxy, co_yield,
       SendBlocks, RecvBlocks, coroVars
<1>2. CoroInit => RingInv /\ Channel!ChannelInit
  BY RingInit
<1> QED
  BY <1>1, <1>2, PTL DEF CoroSpec, ChannelSpec, Channel!ChannelSpec

-----------------------------------------------------------------------------
(* Who still has calls to make: the slots, and -i for the i-th body that   *)
(* main has still to start.                                                *)
HoldersOf(st) == Slots \cup {-i : i \in 1 .. Len(st)}
OwedBy(bd, st, h, c) == Outstanding(IF h \in Slots THEN bd[h] ELSE st[-h], c)

(* Only a still sends and only b still receives: as much as a will send    *)
(* and the channel already holds.                                          *)
BalancedOf(bd, st, n, a, b) ==
  /\ a \in HoldersOf(st) /\ b \in HoldersOf(st)
  /\ \A g \in HoldersOf(st) : g # a => OwedBy(bd, st, g, "send") = 0
  /\ \A g \in HoldersOf(st) : g # b => OwedBy(bd, st, g, "recv") = 0
  /\ OwedBy(bd, st, a, "send") + n = OwedBy(bd, st, b, "recv")
  /\ a = b => OwedBy(bd, st, b, "recv") = 0

(* What a body still has to do after its next call.                        *)
LEMMA OutstandingFacts ==
  ASSUME NEW b \in Seq(Call), NEW c
  PROVE  /\ Outstanding(b, c) \in Nat
         /\ b = <<>> => Outstanding(b, c) = 0
         /\ b # <<>> => Outstanding(b, c) = Outstanding(Tail(b), c) + IF Head(b) = c THEN 1 ELSE 0
<1> DEFINE K(q) == {k \in 1 .. Len(q) : q[Len(q) + 1 - k] = c}
<1>1. ASSUME NEW q \in Seq(Call)
      PROVE  IsFiniteSet(K(q)) /\ Cardinality(K(q)) \in Nat
  <2>1. IsFiniteSet(1 .. Len(q)) /\ K(q) \subseteq 1 .. Len(q)
    BY FS_Interval
  <2> QED
    BY <2>1, FS_Subset, FS_CardinalityType
<1>2. CASE b = <<>>
  <2>1. K(b) = {}
    BY <1>2
  <2> QED
    BY <1>2, <2>1, FS_EmptySet DEF Outstanding
<1>3. CASE b # <<>>
  <2>1. PICK n \in Nat : Len(b) = n + 1
    <3>1. Len(b) - 1 \in Nat /\ Len(b) = (Len(b) - 1) + 1
      BY <1>3
    <3> QED
      BY <3>1
  <2>2. /\ Tail(b) \in Seq(Call) /\ Len(Tail(b)) = n /\ Head(b) = b[1]
        /\ \A i \in 1 .. n : Tail(b)[i] = b[i + 1]
    BY <1>3, <2>1
  <2>3. K(Tail(b)) = K(b) \ {n + 1}
    <3>1. ASSUME NEW k \in 1 .. n
          PROVE  Tail(b)[n + 1 - k] = b[(n + 1) + 1 - k]
      <4>1. PICK i \in 1 .. n : i = n + 1 - k /\ i + 1 = (n + 1) + 1 - k
        OBVIOUS
      <4> QED
        BY <2>2, <4>1
    <3>2. 1 .. n = (1 .. n + 1) \ {n + 1}
      OBVIOUS
    <3> QED
      BY <2>1, <2>2, <3>1, <3>2
  <2>4. n + 1 \in K(b) <=> Head(b) = c
    BY <2>1, <2>2
  <2>7. PICK x \in Nat, y \in Nat :
          /\ x = Outstanding(b, c) /\ y = Outstanding(Tail(b), c)
          /\ x = Cardinality(K(b)) /\ y = Cardinality(K(b) \ {n + 1})
    <3>1. Outstanding(b, c) = Cardinality(K(b)) /\ Outstanding(Tail(b), c) = Cardinality(K(Tail(b)))
      BY DEF Outstanding
    <3> QED
      BY <1>1, <2>2, <2>3, <3>1, Zenon
  <2>5. CASE Head(b) = c
    <3>1. Cardinality(K(b) \ {n + 1}) = Cardinality(K(b)) - 1
      BY <1>1, <2>4, <2>5, FS_RemoveElement
    <3> QED
      BY <1>3, <2>5, <2>7, <3>1
  <2>6. CASE Head(b) # c
    <3>1. K(b) \ {n + 1} = K(b)
      BY <2>4, <2>6
    <3>2. x = y
      BY <2>7, <3>1, Zenon
    <3> HIDE DEF K
    <3> QED
      BY <1>3, <2>6, <2>7, <3>2
  <2> QED
    BY <2>5, <2>6
<1> QED
  BY <1>2, <1>3

(* A round that main is about to start, with nothing left of the last one. *)
LEMMA RoundBalanced ==
  ASSUME NEW bd, \A s \in Slots : bd[s] = <<>>,
         NEW st \in Seq(Seq(Call)), Paired(st)
  PROVE  \E a, b \in HoldersOf(st) : BalancedOf(bd, st, 0, a, b)
<1>1. PICK p \in 1 .. Len(st), q \in 1 .. Len(st) :
        /\ p # q /\ Outstanding(st[p], "send") = Outstanding(st[q], "recv")
        /\ Sole(st, p, "send") /\ Sole(st, q, "recv")
  <2>1. DOMAIN st = 1 .. Len(st)
    OBVIOUS
  <2> QED
    BY <2>1 DEF Paired
<1>8. ASSUME NEW i \in 1 .. Len(st)
      PROVE  /\ i # p => Outstanding(st[i], "send") = 0
             /\ i # q => Outstanding(st[i], "recv") = 0
  <2>1. i \in DOMAIN st
    OBVIOUS
  <2> QED
    BY <1>1, <2>1 DEF Sole
<1>2. PICK a, b : a = -p /\ b = -q
  OBVIOUS
<1>3. a \in HoldersOf(st) /\ b \in HoldersOf(st) /\ a # b
  BY <1>1, <1>2 DEF HoldersOf
<1>4. ASSUME NEW c, NEW s \in Slots PROVE OwedBy(bd, st, s, c) = 0
  <2>1. <<>> \in Seq(Call) /\ bd[s] = <<>>
    BY EmptySeq
  <2> QED
    BY <2>1, OutstandingFacts DEF OwedBy
<1>5. ASSUME NEW c, NEW i \in 1 .. Len(st)
      PROVE  OwedBy(bd, st, -i, c) = Outstanding(st[i], c)
  <2>1. -i \notin Slots /\ -(-i) = i
    BY DEF Slots
  <2> QED
    BY <2>1 DEF OwedBy
<1>6. ASSUME NEW g \in HoldersOf(st)
      PROVE  /\ g # a => OwedBy(bd, st, g, "send") = 0
             /\ g # b => OwedBy(bd, st, g, "recv") = 0
  <2>1. CASE g \in Slots
    BY <1>4, <2>1
  <2>2. CASE g \notin Slots
    <3>1. PICK i \in 1 .. Len(st) : g = -i
      BY <2>2 DEF HoldersOf
    <3> QED
      BY <1>2, <1>5, <1>8, <3>1
  <2> QED
    BY <2>1, <2>2
<1>7. OwedBy(bd, st, a, "send") + 0 = OwedBy(bd, st, b, "recv")
  <2>1. st[p] \in Seq(Call)
    OBVIOUS
  <2>2. Outstanding(st[p], "send") \in Nat
    BY <2>1, OutstandingFacts
  <2> QED
    BY <1>1, <1>2, <1>5, <2>2
<1> QED
  BY <1>3, <1>6, <1>7 DEF BalancedOf

(* main starts the first of its bodies in slot f.                          *)
LEMMA StartBalanced ==
  ASSUME NEW bd \in [Slots -> Seq(Call)], NEW st \in Seq(Seq(Call)), st # <<>>,
         NEW f \in Slots, bd[f] = <<>>, NEW a, NEW b, BalancedOf(bd, st, 0, a, b)
  PROVE  \E d, e \in HoldersOf(Tail(st)) :
           BalancedOf([bd EXCEPT ![f] = Head(st)], Tail(st), 0, d, e)
<1>1. PICK n \in Nat : Len(st) = n + 1
  <2>1. Len(st) - 1 \in Nat /\ Len(st) = (Len(st) - 1) + 1
    OBVIOUS
  <2> QED
    BY <2>1
<1>2. PICK tl, be : tl = Tail(st) /\ be = [bd EXCEPT ![f] = Head(st)]
  OBVIOUS
<1>3. /\ tl \in Seq(Seq(Call)) /\ Len(tl) = n /\ Head(st) = st[1] /\ st[1] \in Seq(Call)
      /\ \A i \in 1 .. n : tl[i] = st[i + 1]
  BY <1>1, <1>2
<1>4. \A s \in Slots : be[s] = IF s = f THEN st[1] ELSE bd[s]
  BY <1>2, <1>3
<1>5. /\ HoldersOf(tl) = Slots \cup {-i : i \in 1 .. n}
      /\ HoldersOf(st) = Slots \cup {-i : i \in 1 .. n + 1}
  BY <1>1, <1>3 DEF HoldersOf
<1> DEFINE From(g) == IF g = f THEN -1 ELSE IF g \in Slots THEN g ELSE g - 1
           Move(h) == IF h \in Slots THEN h ELSE IF h = -1 THEN f ELSE h + 1
<1>6. ASSUME NEW g \in HoldersOf(tl)
      PROVE  /\ From(g) \in HoldersOf(st) /\ Move(From(g)) = g
             /\ \A c : OwedBy(be, tl, g, c) = OwedBy(bd, st, From(g), c)
  <2>1. CASE g = f
    <3>1. -1 \notin Slots /\ -1 \in HoldersOf(st) /\ -(-1) = 1
      <4>1. PICK i \in 1 .. n + 1 : i = 1
        OBVIOUS
      <4>2. -i \notin Slots /\ -(-i) = i
        BY DEF Slots
      <4> QED
        BY <1>5, <4>1, <4>2, Zenon
    <3>2. \A c : OwedBy(be, tl, f, c) = Outstanding(st[1], c)
      BY <1>4 DEF OwedBy
    <3>3. \A c : OwedBy(bd, st, -1, c) = Outstanding(st[1], c)
      BY <3>1 DEF OwedBy
    <3> QED
      BY <2>1, <3>1, <3>2, <3>3
  <2>2. CASE g # f /\ g \in Slots
    BY <1>4, <1>5, <2>2 DEF OwedBy
  <2>3. CASE g \notin Slots
    <3>1. PICK i \in 1 .. n : g = -i
      BY <1>5, <2>3
    <3>2. /\ -i - 1 = -(i + 1) /\ i + 1 \in 1 .. n + 1 /\ -(i + 1) \notin Slots
          /\ -(i + 1) + 1 = -i /\ -i \notin Slots /\ -(i + 1) # -1
          /\ -(-i) = i /\ -(-(i + 1)) = i + 1
      BY DEF Slots
    <3>3. \A c : OwedBy(be, tl, -i, c) = Outstanding(st[i + 1], c)
      BY <1>3, <3>2 DEF OwedBy
    <3>4. \A c : OwedBy(bd, st, -(i + 1), c) = Outstanding(st[i + 1], c)
      BY <3>2 DEF OwedBy
    <3>5. From(g) = -(i + 1) /\ Move(-(i + 1)) = -i
      BY <2>3, <3>1, <3>2
    <3> QED
      BY <1>5, <3>1, <3>2, <3>3, <3>4, <3>5
  <2> QED
    BY <2>1, <2>2, <2>3
<1>7. ASSUME NEW h \in HoldersOf(st)
      PROVE  Move(h) \in HoldersOf(tl) /\ (h # f => From(Move(h)) = h)
  <2>1. CASE h \in Slots
    BY <1>5, <2>1
  <2>2. CASE h \notin Slots
    <3>1. PICK i \in 1 .. n + 1 : h = -i
      BY <1>5, <2>2
    <3>2. CASE i = 1
      BY <1>5, <2>2, <3>1, <3>2
    <3>3. CASE i # 1
      <4>1. /\ i - 1 \in 1 .. n /\ h + 1 = -(i - 1) /\ -(i - 1) \notin Slots /\ h # -1
            /\ -(i - 1) - 1 = h
        BY <3>1, <3>3 DEF Slots
      <4> QED
        BY <1>5, <2>2, <4>1
    <3> QED
      BY <3>2, <3>3
  <2> QED
    BY <2>1, <2>2
<1>8. \A c : OwedBy(bd, st, f, c) = 0
  <2>1. <<>> \in Seq(Call)
    BY EmptySeq
  <2> QED
    BY <2>1, OutstandingFacts DEF OwedBy
<1> HIDE DEF From, Move
<1>9. ASSUME NEW h \in HoldersOf(st), NEW c,
             \A g \in HoldersOf(st) : g # h => OwedBy(bd, st, g, c) = 0
      PROVE  /\ \A g \in HoldersOf(tl) : g # Move(h) => OwedBy(be, tl, g, c) = 0
             /\ OwedBy(be, tl, Move(h), c) = OwedBy(bd, st, h, c)
  <2>1. \A g \in HoldersOf(tl) : g # Move(h) => OwedBy(be, tl, g, c) = 0
    BY <1>6, <1>9, Zenon
  <2>2. CASE h # f
    <3>1. Move(h) \in HoldersOf(tl) /\ From(Move(h)) = h
      BY <1>7, <2>2, Zenon
    <3>2. OwedBy(be, tl, Move(h), c) = OwedBy(bd, st, From(Move(h)), c)
      BY <1>6, <3>1, Zenon
    <3> QED
      BY <2>1, <3>1, <3>2, Zenon
  <2>3. CASE h = f
    <3>1. Move(f) = f /\ From(f) = -1 /\ f # -1 /\ -1 \in HoldersOf(st)
      BY <1>5 DEF Move, From, Slots
    <3>2. f \in HoldersOf(tl)
      BY <1>5
    <3> QED
      BY <1>6, <1>8, <1>9, <2>3, <3>1, <3>2, Zenon
  <2> QED
    BY <2>1, <2>2, <2>3
<1>10. a \in HoldersOf(st) /\ b \in HoldersOf(st)
  BY DEF BalancedOf
<1>11. /\ OwedBy(be, tl, Move(a), "send") = OwedBy(bd, st, a, "send")
       /\ OwedBy(be, tl, Move(b), "recv") = OwedBy(bd, st, b, "recv")
       /\ \A g \in HoldersOf(tl) : g # Move(a) => OwedBy(be, tl, g, "send") = 0
       /\ \A g \in HoldersOf(tl) : g # Move(b) => OwedBy(be, tl, g, "recv") = 0
  BY <1>9, <1>10, Zenon DEF BalancedOf
<1>12. OwedBy(bd, st, a, "send") \in Nat
  BY OutstandingFacts, <1>10 DEF OwedBy, HoldersOf
<1>13. Move(a) = Move(b) => OwedBy(bd, st, b, "recv") = 0
  <2>1. CASE a = f
    BY <1>8, <1>12, <2>1 DEF BalancedOf
  <2>2. CASE b = f
    BY <1>8, <2>2
  <2>3. CASE a # f /\ b # f
    BY <1>7, <1>10, <2>3, Zenon DEF BalancedOf
  <2> QED
    BY <2>1, <2>2, <2>3
<1>14. BalancedOf(be, tl, 0, Move(a), Move(b))
  BY <1>7, <1>10, <1>11, <1>13 DEF BalancedOf
<1> QED
  BY <1>2, <1>7, <1>10, <1>14, Zenon

(* What is left after the coroutine in slot s made its next call.          *)
After(bd, s) == [bd EXCEPT ![s] = Tail(@)]

(* Who makes a call is the one that owes it.                               *)
LEMMA CallBalanced ==
  ASSUME body \in [Slots -> Seq(Call)], starting \in Seq(Seq(Call)), count \in Nat,
         NEW s \in Slots, body[s] # <<>>, NEW a, NEW b,
         BalancedOf(body, starting, count, a, b)
  PROVE  /\ Head(body[s]) = "yield" => BalancedOf(After(body, s), starting, count, a, b)
         /\ Head(body[s]) = "send" =>
              a = s /\ BalancedOf(After(body, s), starting, count + 1, a, b)
         /\ Head(body[s]) = "recv" =>
              /\ b = s
              /\ count > 0 => BalancedOf(After(body, s), starting, count - 1, a, b)
<1> DEFINE Owed(h, c) == OwedBy(body, starting, h, c)
           Left(h, c) == OwedBy(After(body, s), starting, h, c)
<1>1. ASSUME NEW h \in HoldersOf(starting), NEW c
      PROVE  Owed(h, c) \in Nat
  <2>1. CASE h \in Slots
    BY <2>1, OutstandingFacts DEF OwedBy
  <2>2. CASE h \notin Slots
    <3>1. PICK i \in 1 .. Len(starting) : h = -i /\ -h = i
      BY <2>2 DEF HoldersOf
    <3>2. starting[i] \in Seq(Call)
      OBVIOUS
    <3> QED
      BY <2>2, <3>1, <3>2, OutstandingFacts DEF OwedBy
  <2> QED
    BY <2>1, <2>2
<1>2. ASSUME NEW h, NEW c, h # s
      PROVE  Left(h, c) = Owed(h, c)
  BY <1>2 DEF OwedBy, After
<1>3. ASSUME NEW c
      PROVE  /\ Left(s, c) \in Nat
             /\ Owed(s, c) = Left(s, c) + IF Head(body[s]) = c THEN 1 ELSE 0
  <2>1. body[s] \in Seq(Call) /\ After(body, s)[s] = Tail(body[s]) /\ Tail(body[s]) \in Seq(Call)
    BY DEF After
  <2>2. Outstanding(Tail(body[s]), c) \in Nat
    BY <2>1, OutstandingFacts
  <2>3. Outstanding(body[s], c) = Outstanding(Tail(body[s]), c) + IF Head(body[s]) = c THEN 1 ELSE 0
    BY <2>1, OutstandingFacts
  <2> QED
    BY <2>1, <2>2, <2>3 DEF OwedBy
<1>4. s \in HoldersOf(starting) /\ a \in HoldersOf(starting) /\ b \in HoldersOf(starting)
  BY DEF HoldersOf, BalancedOf
<1>5. ASSUME NEW c, NEW h \in HoldersOf(starting), h # s \/ Head(body[s]) # c
      PROVE  Left(h, c) = Owed(h, c)
  <2>1. CASE h # s
    BY <1>2, <2>1
  <2>2. CASE h = s /\ Head(body[s]) # c
    <3>1. /\ Left(s, c) \in Nat
          /\ Owed(s, c) = Left(s, c) + 0
      BY <1>3, <2>2
    <3> QED
      BY <2>2, <3>1
  <2> QED
    BY <1>5, <2>1, <2>2
<1>6. CASE Head(body[s]) = "yield"
  BY <1>4, <1>5, <1>6 DEF BalancedOf
<1>7. CASE Head(body[s]) = "send"
  <2>1. Owed(s, "send") = Left(s, "send") + 1 /\ Left(s, "send") \in Nat
    BY <1>3, <1>7
  <2>2. a = s
    BY <1>4, <2>1 DEF BalancedOf
  <2>3. a # b
    BY <1>1, <1>4, <2>1, <2>2 DEF BalancedOf
  <2>4. /\ \A g \in HoldersOf(starting) : g # a => Left(g, "send") = 0
        /\ \A g \in HoldersOf(starting) : g # b => Left(g, "recv") = 0
        /\ Left(b, "recv") = Owed(b, "recv")
    BY <1>4, <1>5, <1>7, <2>2 DEF BalancedOf
  <2>5. Left(a, "send") + (count + 1) = Left(b, "recv")
    BY <2>1, <2>2, <2>4 DEF BalancedOf
  <2> QED
    BY <1>4, <1>7, <2>2, <2>3, <2>4, <2>5 DEF BalancedOf
<1>8. CASE Head(body[s]) = "recv"
  <2>1. Owed(s, "recv") = Left(s, "recv") + 1 /\ Left(s, "recv") \in Nat
    BY <1>3, <1>8
  <2>2. b = s
    BY <1>4, <2>1 DEF BalancedOf
  <2>3. a # b
    BY <2>1, <2>2 DEF BalancedOf
  <2>4. /\ \A g \in HoldersOf(starting) : g # a => Left(g, "send") = 0
        /\ \A g \in HoldersOf(starting) : g # b => Left(g, "recv") = 0
        /\ Left(a, "send") = Owed(a, "send")
    BY <1>4, <1>5, <1>8, <2>2 DEF BalancedOf
  <2>5. Owed(a, "send") \in Nat
    BY <1>1, <1>4
  <2>6. count > 0 => Left(a, "send") + (count - 1) = Left(b, "recv")
    <3>1. PICK x \in Nat, y \in Nat, z \in Nat :
         /\ x = Owed(a, "send")
         /\ y = Owed(b, "recv")
         /\ z = Left(b, "recv") /\ y = z + 1
      BY <2>1, <2>2, <2>5
    <3>2. x + count = y /\ Left(a, "send") = x
      BY <2>4, <3>1 DEF BalancedOf
    <3>3. ASSUME count > 0 PROVE x + (count - 1) = z
      <4>1. PICK m \in Nat : m = count
        OBVIOUS
      <4>2. x + m = z + 1
        BY <3>1, <3>2, <4>1
      <4>3. x + (m - 1) = z
        BY <4>2
      <4> QED
        BY <4>1, <4>3
    <3> QED
      BY <3>1, <3>2, <3>3
  <2> QED
    BY <1>4, <1>8, <2>2, <2>3, <2>4, <2>6 DEF BalancedOf
<1>9. Head(body[s]) \in Call
  OBVIOUS
<1> QED
  BY <1>6, <1>7, <1>8, <1>9 DEF Call

-----------------------------------------------------------------------------
(* Whoever is blocked is remembered and waits for what is not there, and   *)
(* the calls that are left balance.                                        *)
Settled ==
  /\ count \in Nat
  /\ \A s \in Slots : state[s] = "free" => body[s] = <<>>
  /\ running => starting = <<>>
  /\ ~running => current = NoCo

Waits(s) ==
  /\ body[s] # <<>>
  /\ \/ Head(body[s]) = "recv" /\ recv_waiter = s /\ count = 0
     \/ Head(body[s]) = "send" /\ send_waiter = s /\ Full

Balance == \E a, b : BalancedOf(body, starting, count, a, b)

Draining ==
  /\ ~running => count = 0
  /\ \A s \in Slots : state[s] = "blocked" => Waits(s)
  /\ Balance

DrainInv == PoolInv /\ Settled /\ (~missed => Draining)

(* What a blocked coroutine tells of the balance.                          *)
LEMMA BlockedOwes ==
  ASSUME PoolInv, Settled, Draining, NEW a, NEW b,
         BalancedOf(body, starting, count, a, b),
         NEW s \in Slots, state[s] = "blocked"
  PROVE  \/ Head(body[s]) = "recv" /\ b = s /\ recv_waiter = s /\ count = 0
         \/ Head(body[s]) = "send" /\ a = s /\ send_waiter = s /\ Full
<1>1. body \in [Slots -> Seq(Call)] /\ starting \in Seq(Seq(Call)) /\ count \in Nat
  BY DEF PoolInv, PoolTypes, Settled
<1>2. Waits(s)
  BY DEF Draining
<1>4. /\ Head(body[s]) = "send" => a = s
      /\ Head(body[s]) = "recv" => b = s
  <2>1. body[s] # <<>>
    BY <1>2 DEF Waits
  <2> QED
    BY <1>1, <2>1, CallBalanced
<1> QED
  BY <1>2, <1>4 DEF Waits

(* When nobody is ready, everybody has ended.                              *)
LEMMA Ended ==
  ASSUME CoroAssumption, DrainInv, ~missed, running, current = NoCo, runq = <<>>
  PROVE  count = 0 /\ \A s \in Slots : state[s] = "free" /\ body[s] = <<>>
<1>1. /\ PoolInv /\ Settled /\ Draining /\ starting = <<>> /\ count \in Nat
      /\ Cap \in Nat \ {0} /\ body \in [Slots -> Seq(Call)] /\ starting \in Seq(Seq(Call))
  BY DEF DrainInv, Settled, CoroAssumption, PoolInv, PoolTypes
<1>2. PICK a, b : BalancedOf(body, starting, count, a, b)
  BY <1>1 DEF Draining, Balance
<1>3. HoldersOf(starting) = Slots /\ a \in Slots /\ b \in Slots
  BY <1>1, <1>2 DEF HoldersOf, BalancedOf
<1>4. ASSUME NEW s \in Slots
      PROVE  state[s] = "free" \/ state[s] = "blocked"
  BY <1>1 DEF PoolInv, PoolTypes, PoolConsistent, ToSet, Slots, NoCo
<1>5. ASSUME NEW s \in Slots, NEW c
      PROVE  /\ OwedBy(body, starting, s, c) \in Nat
             /\ state[s] = "free" => OwedBy(body, starting, s, c) = 0
  <2>1. body[s] \in Seq(Call) /\ (state[s] = "free" => body[s] = <<>>)
    BY <1>1 DEF Settled
  <2>2. Outstanding(body[s], c) \in Nat /\ (body[s] = <<>> => Outstanding(body[s], c) = 0)
    BY <2>1, OutstandingFacts
  <2> QED
    BY <2>1, <2>2 DEF OwedBy
<1>6. ASSUME NEW s \in Slots, state[s] = "blocked", Head(body[s]) = "recv"
      PROVE  OwedBy(body, starting, s, "recv") > 0
  <2>1. body[s] \in Seq(Call) /\ body[s] # <<>> /\ Tail(body[s]) \in Seq(Call)
    BY <1>1, <1>6 DEF Draining, Waits
  <2>2. Outstanding(Tail(body[s]), "recv") \in Nat
    BY <2>1, OutstandingFacts
  <2>3. Outstanding(body[s], "recv") = Outstanding(Tail(body[s]), "recv") + 1
    BY <1>6, <2>1, OutstandingFacts
  <2> QED
    BY <2>2, <2>3 DEF OwedBy
<1>7. ASSUME NEW s \in Slots, state[s] = "blocked"
      PROVE  FALSE
  <2>1. CASE Head(body[s]) = "recv"
    <3>1. b = s /\ count = 0 /\ OwedBy(body, starting, b, "recv") > 0
      BY <1>1, <1>2, <1>6, <1>7, <2>1, BlockedOwes
    <3>2. OwedBy(body, starting, a, "send") > 0 /\ a # b
      BY <1>2, <1>3, <1>5, <3>1 DEF BalancedOf
    <3>3. state[a] = "blocked"
      BY <1>3, <1>4, <1>5, <3>2
    <3>4. Full
      BY <1>1, <1>2, <1>3, <3>2, <3>3, BlockedOwes
    <3> QED
      BY <1>1, <3>1, <3>4 DEF Full
  <2>2. CASE Head(body[s]) = "send"
    <3>1. a = s /\ Full
      BY <1>1, <1>2, <1>7, <2>2, BlockedOwes
    <3>2. count > 0
      BY <1>1, <3>1 DEF Full
    <3>3. OwedBy(body, starting, b, "recv") > 0 /\ a # b
      BY <1>1, <1>2, <1>3, <1>5, <3>2 DEF BalancedOf
    <3>4. state[b] = "blocked"
      BY <1>3, <1>4, <1>5, <3>3
    <3>5. count = 0
      BY <1>1, <1>2, <1>3, <3>1, <3>3, <3>4, BlockedOwes
    <3> QED
      BY <3>2, <3>5
  <2> QED
    BY <1>1, <1>2, <1>7, <2>1, <2>2, BlockedOwes
<1>8. \A s \in Slots : state[s] = "free" /\ body[s] = <<>>
  BY <1>1, <1>4, <1>7 DEF Settled
<1>9. count = 0
  BY <1>1, <1>2, <1>3, <1>5, <1>8 DEF BalancedOf
<1> QED
  BY <1>8, <1>9

(* A step that makes no call and starts nothing leaves the balance.        *)
LEMMA BalanceKept ==
  ASSUME Balance, body' = body, starting' = starting, count' = count
  PROVE  Balance'
BY Zenon DEF Balance

(* A round begins.                                                         *)
LEMMA BalanceBegins ==
  ASSUME CoroAssumption, PairedRounds, NEW bd, \A s \in Slots : bd[s] = <<>>, NEW st \in Rounds
  PROVE  \E a, b : BalancedOf(bd, st, 0, a, b)
<1>1. st \in Seq(Seq(Call)) /\ Paired(st)
  BY DEF CoroAssumption, PairedRounds
<1> QED
  BY <1>1, RoundBalanced, Zenon

(* The first round is like every other.                                    *)
LEMMA DrainInitially == CoroAssumption /\ PairedRounds /\ CoroInit => DrainInv
<1> SUFFICES ASSUME CoroAssumption, PairedRounds, CoroInit PROVE DrainInv
  OBVIOUS
<1>1. PoolInv
  BY PoolInit
<1>2. Settled
  BY DEF CoroInit, Settled
<1>3. Balance
  <2>1. count = 0 /\ starting \in Rounds /\ \A s \in Slots : body[s] = <<>>
    BY DEF CoroInit
  <2> QED
    BY <2>1, BalanceBegins, Zenon DEF Balance
<1>4. Draining
  BY <1>3 DEF CoroInit, Draining
<1> QED
  BY <1>1, <1>2, <1>4 DEF DrainInv

(* co_start gives the round's first body to a slot that is free, or has    *)
(* missed it.                                                              *)
LEMMA StartDrains ==
  ASSUME CoroAssumption, DrainInv, co_start
  PROVE  Settled' /\ (~missed' => Draining')
<1>1. /\ body \in [Slots -> Seq(Call)]
      /\ state \in [Slots -> {"free", "ready", "running", "blocked"}]
      /\ starting \in Seq(Seq(Call)) /\ starting # <<>> /\ Settled
      /\ UNCHANGED <<current, count, running, recv_waiter, send_waiter>>
  BY DEF DrainInv, PoolInv, PoolTypes, co_start, ringVars, waitVars
<1>2. ~running
  BY <1>1 DEF Settled
<1>3. CASE StartsNothing
  BY <1>1, <1>2, <1>3 DEF StartsNothing, Settled
<1>5. CASE crashed' = TRUE /\ UNCHANGED <<state, body, starting, missed>>
  <2>1. Settled'
    BY <1>1, <1>2, <1>5 DEF Settled
  <2>2. ASSUME ~missed PROVE Draining'
    <3>1. Draining
      BY <2>2 DEF DrainInv
    <3>2. Balance => Balance'
      BY <1>1, <1>5, BalanceKept
    <3> QED
      BY <1>1, <1>2, <1>5, <3>1, <3>2 DEF Draining, Waits, Full
  <2> QED
    BY <1>5, <2>1, <2>2
<1>4. ASSUME FreeSlots # {}, starting' = Tail(starting), state' = [state EXCEPT ![FirstFree] = "ready"],
             body' = [body EXCEPT ![FirstFree] = Head(starting)], missed' = missed
      PROVE  Settled' /\ (~missed' => Draining')
  <2>1. FirstFree \in Slots /\ state[FirstFree] = "free" /\ body[FirstFree] = <<>>
    BY <1>1, <1>4, FirstFreeIsFree DEF Settled
  <2>2. \A s \in Slots : s # FirstFree => state'[s] = state[s] /\ body'[s] = body[s]
    BY <1>1, <1>4
  <2>3. state'[FirstFree] = "ready"
    BY <1>1, <1>4, <2>1
  <2>4. Settled'
    BY <1>1, <1>2, <2>2, <2>3 DEF Settled
  <2>5. ASSUME ~missed PROVE Draining'
    <3>1. Draining /\ count = 0
      BY <1>2, <2>5 DEF DrainInv, Draining
    <3>2. PICK a, b : BalancedOf(body, starting, 0, a, b)
      BY <3>1, Zenon DEF Draining, Balance
    <3>3. Balance'
      <4>1. \E d, e : BalancedOf(body', starting', 0, d, e)
        BY <1>1, <1>4, <2>1, <3>2, StartBalanced
      <4> QED
        BY <1>1, <3>1, <4>1, Zenon DEF Balance
    <3>4. ASSUME NEW s \in Slots, state'[s] = "blocked" PROVE Waits(s)'
      <4>1. s # FirstFree
        BY <2>3, <3>4
      <4> QED
        BY <1>1, <2>2, <3>1, <3>4, <4>1 DEF Draining, Waits, Full
    <3> QED
      BY <1>1, <3>1, <3>3, <3>4 DEF Draining
  <2> QED
    BY <1>4, <2>4, <2>5
<1>6. ASSUME FreeSlots # {}, StartsOn(FirstFree) PROVE Settled' /\ (~missed' => Draining')
  BY <1>4, <1>6 DEF StartsOn
<1> QED
  BY <1>3, <1>5, <1>6 DEF co_start

(* Nobody calls: co_run, its first and last steps, and co_proxy.           *)
LEMMA RunDrains ==
  ASSUME CoroAssumption, PairedRounds, DrainInv,
         co_run \/ Dispatch \/ RunReturns \/ co_proxy \/ UNCHANGED coroVars
  PROVE  Settled' /\ (~missed' => Draining')
<1>1. /\ body \in [Slots -> Seq(Call)]
      /\ state \in [Slots -> {"free", "ready", "running", "blocked"}]
      /\ Settled /\ PoolConsistent /\ runq \in Seq(Slots) /\ current \in Slots \cup {NoCo}
  BY DEF DrainInv, PoolInv, PoolTypes
<1>2. CASE RunReturns
  <2>1. /\ running /\ current = NoCo /\ runq = <<>> /\ ~running' /\ starting' \in Rounds
        /\ UNCHANGED <<state, body, current, count, missed>>
    BY <1>2 DEF RunReturns, schedVars, ringVars
  <2>2. Settled'
    BY <1>1, <2>1 DEF Settled
  <2>3. ASSUME ~missed PROVE Draining'
    <3>1. count = 0 /\ \A s \in Slots : state[s] = "free" /\ body[s] = <<>>
      BY <2>1, <2>3, Ended
    <3>2. Balance'
      <4>1. \E a, b : BalancedOf(body, starting', 0, a, b)
        BY <2>1, <3>1, BalanceBegins
      <4> QED
        BY <2>1, <3>1, <4>1, Zenon DEF Balance
    <3> QED
      BY <2>1, <3>1, <3>2 DEF Draining
  <2> QED
    BY <2>1, <2>2, <2>3
<1>3. ASSUME UNCHANGED <<body, count, starting, missed, recv_waiter, send_waiter>>,
             running' => running \/ starting = <<>>, running => running',
             current' = NoCo \/ running',
             \A s \in Slots : state'[s] = "free" => state[s] = "free" \/ body[s] = <<>>,
             \A s \in Slots : state'[s] = "blocked" => state[s] = "blocked"
      PROVE  Settled' /\ (~missed' => Draining')
  <2>1. Settled'
    BY <1>1, <1>3 DEF Settled
  <2>2. ASSUME ~missed PROVE Draining'
    <3>1. Draining
      BY <2>2 DEF DrainInv
    <3>2. Balance'
      BY <1>3, <3>1, BalanceKept DEF Draining
    <3> QED
      BY <1>3, <3>1, <3>2 DEF Draining, Waits, Full
  <2> QED
    BY <1>3, <2>1, <2>2
<1>4. CASE co_run
  <2>1. /\ UNCHANGED <<state, body, current, count, starting, missed, recv_waiter, send_waiter>>
        /\ running' /\ starting = <<>>
    BY <1>4 DEF co_run, schedVars, ringVars, waitVars
  <2>2. /\ \A s \in Slots : state'[s] = "free" => state[s] = "free"
        /\ \A s \in Slots : state'[s] = "blocked" => state[s] = "blocked"
    BY <2>1
  <2> QED
    BY <1>3, <2>1, <2>2
<1>5. CASE Dispatch
  <2>1. /\ UNCHANGED <<body, count, starting, missed, recv_waiter, send_waiter, running>>
        /\ running /\ runq # <<>> /\ state' = [state EXCEPT ![Head(runq)] = "running"]
    BY <1>5 DEF Dispatch, ringVars, waitVars, mainVars
  <2>2. PICK r \in Slots : state' = [state EXCEPT ![r] = "running"]
    <3>1. Head(runq) \in Slots
      BY <1>1, <2>1
    <3> QED
      BY <2>1, <3>1
  <2>3. \A s \in Slots : state'[s] \in {state[s], "running"}
    BY <1>1, <2>2
  <2>4. /\ \A s \in Slots : state'[s] = "free" => state[s] = "free"
        /\ \A s \in Slots : state'[s] = "blocked" => state[s] = "blocked"
    BY <2>3
  <2>5. UNCHANGED <<body, count, starting, missed, recv_waiter, send_waiter>> /\ running /\ running'
    BY <2>1
  <2> QED
    BY <1>3, <2>4, <2>5
<1>6. CASE co_proxy
  <2>1. /\ UNCHANGED <<body, count, starting, missed, recv_waiter, send_waiter, running>>
        /\ current \in Slots /\ body[current] = <<>> /\ current' = NoCo
        /\ state' = [state EXCEPT ![current] = "free"]
    BY <1>1, <1>6 DEF co_proxy, ringVars, waitVars, mainVars
  <2>2. \A s \in Slots : state'[s] = IF s = current THEN "free" ELSE state[s]
    BY <1>1, <2>1
  <2>3. /\ \A s \in Slots : state'[s] = "free" => state[s] = "free" \/ body[s] = <<>>
        /\ \A s \in Slots : state'[s] = "blocked" => state[s] = "blocked"
    BY <2>1, <2>2
  <2>4. /\ UNCHANGED <<body, count, starting, missed, recv_waiter, send_waiter>>
        /\ running' => running \/ starting = <<>>
        /\ running => running'
    BY <2>1
  <2> QED
    BY <1>3, <2>1, <2>3, <2>4
<1>7. CASE UNCHANGED coroVars
  BY <1>1, <1>3, <1>7 DEF coroVars, schedVars, ringVars, waitVars, mainVars, Settled
<1> QED
  BY <1>2, <1>4, <1>5, <1>6, <1>7

(* The running coroutine calls.                                            *)
LEMMA CallsDrain ==
  ASSUME CoroAssumption, DrainInv,
         co_yield \/ SendBlocks \/ RecvBlocks \/ co_chan_send \/ co_chan_recv
  PROVE  Settled' /\ (~missed' => Draining')
<1>1. /\ body \in [Slots -> Seq(Call)]
      /\ state \in [Slots -> {"free", "ready", "running", "blocked"}]
      /\ starting \in Seq(Seq(Call)) /\ count \in Nat /\ Settled /\ PoolInv
      /\ recv_waiter \in Slots \cup {NoCo} /\ send_waiter \in Slots \cup {NoCo}
  BY DEF DrainInv, PoolInv, PoolTypes, Settled, WaiterTypes
<1>2. /\ current \in Slots /\ state[current] = "running" /\ running /\ body[current] # <<>>
      /\ UNCHANGED <<starting, running, missed>>
  <2>1. current # NoCo /\ body[current] # <<>> /\ UNCHANGED <<starting, running, missed>>
    BY DEF co_yield, SendBlocks, RecvBlocks, co_chan_send, co_chan_recv, Calls, mainVars
  <2> QED
    BY <1>1, <2>1 DEF PoolInv, PoolTypes, PoolConsistent, Settled
<1>3. ASSUME Draining
      PROVE  \E a, b :
        /\ BalancedOf(body, starting, count, a, b)
        /\ \A s \in Slots : state[s] = "blocked" =>
             \/ Head(body[s]) = "recv" /\ b = s /\ recv_waiter = s /\ count = 0
             \/ Head(body[s]) = "send" /\ a = s /\ send_waiter = s /\ Full
        /\ Head(body[current]) = "yield" => BalancedOf(After(body, current), starting, count, a, b)
        /\ Head(body[current]) = "send" =>
             a = current /\ BalancedOf(After(body, current), starting, count + 1, a, b)
        /\ Head(body[current]) = "recv" =>
             /\ b = current
             /\ count > 0 => BalancedOf(After(body, current), starting, count - 1, a, b)
  <2>1. PICK a, b : BalancedOf(body, starting, count, a, b)
    BY <1>3 DEF Draining, Balance
  <2>2. \A s \in Slots : state[s] = "blocked" =>
             \/ Head(body[s]) = "recv" /\ b = s /\ recv_waiter = s /\ count = 0
             \/ Head(body[s]) = "send" /\ a = s /\ send_waiter = s /\ Full
    BY <1>1, <1>3, <2>1, BlockedOwes
  <2>3. /\ Head(body[current]) = "yield" => BalancedOf(After(body, current), starting, count, a, b)
        /\ Head(body[current]) = "send" =>
             a = current /\ BalancedOf(After(body, current), starting, count + 1, a, b)
        /\ Head(body[current]) = "recv" =>
             /\ b = current
             /\ count > 0 => BalancedOf(After(body, current), starting, count - 1, a, b)
    BY <1>1, <1>2, <2>1, CallBalanced
  <2> QED
    BY <2>1, <2>2, <2>3
<1>4. ASSUME Called
      PROVE  body' = After(body, current) /\ \A s \in Slots : s # current => body'[s] = body[s]
  BY <1>1, <1>2, <1>4 DEF Called, After
<1>5. CASE co_yield
  <2>1. /\ Head(body[current]) = "yield" /\ Called /\ UNCHANGED <<count, recv_waiter, send_waiter>>
        /\ state' = [state EXCEPT ![current] = "ready"] /\ current' = NoCo
    BY <1>5 DEF co_yield, Calls, ringVars, waitVars
  <2>2. \A s \in Slots : s # current => state'[s] = state[s] /\ body'[s] = body[s]
    BY <1>1, <1>4, <2>1
  <2>3. state'[current] = "ready"
    BY <1>1, <1>2, <2>1
  <2>4. Settled'
    BY <1>1, <1>2, <2>1, <2>2, <2>3 DEF Settled
  <2>5. ASSUME Draining PROVE Draining'
    <3>1. Balance'
      BY <1>2, <1>3, <1>4, <2>1, <2>5, Zenon DEF Balance
    <3>2. ASSUME NEW s \in Slots, state'[s] = "blocked" PROVE Waits(s)'
      BY <2>1, <2>2, <2>3, <2>5, <3>2 DEF Draining, Waits, Full
    <3> QED
      BY <1>2, <3>1, <3>2 DEF Draining
  <2> QED
    BY <1>2, <2>4, <2>5 DEF DrainInv
<1>6. CASE SendBlocks \/ RecvBlocks
  <2>1. /\ UNCHANGED <<count, body>> /\ current' = NoCo
        /\ state' = [state EXCEPT ![current] = "blocked"]
        /\ \/ /\ Head(body[current]) = "send" /\ Full
              /\ send_waiter' = current /\ recv_waiter' = recv_waiter
           \/ /\ Head(body[current]) = "recv" /\ count = 0
              /\ recv_waiter' = current /\ send_waiter' = send_waiter
    BY <1>6 DEF SendBlocks, RecvBlocks, Calls, ringVars
  <2>2. \A s \in Slots : s # current => state'[s] = state[s]
    BY <1>1, <2>1
  <2>3. state'[current] = "blocked"
    BY <1>1, <1>2, <2>1
  <2>4. Settled'
    BY <1>1, <1>2, <2>1, <2>2, <2>3 DEF Settled
  <2>5. ASSUME Draining PROVE Draining'
    <3>1. Balance'
      BY <1>2, <2>1, <2>5, BalanceKept DEF Draining
    <3>2. ASSUME NEW s \in Slots, s = current PROVE Waits(s)'
      BY <1>2, <2>1, <3>2 DEF Waits, Full
    <3>3. ASSUME NEW s \in Slots, s # current, state[s] = "blocked" PROVE Waits(s)'
      <4>1. /\ Head(body[s]) = "send" => Head(body[current]) # "send"
            /\ Head(body[s]) = "recv" => Head(body[current]) # "recv"
        BY <1>2, <1>3, <2>5, <3>3
      <4>2. Waits(s)
        BY <2>5, <3>3 DEF Draining
      <4> QED
        BY <2>1, <4>1, <4>2 DEF Waits, Full
    <3> QED
      BY <1>2, <2>2, <3>1, <3>2, <3>3 DEF Draining
  <2> QED
    BY <1>2, <2>4, <2>5 DEF DrainInv
<1>7. ASSUME Called, current' = current, NEW w \in Slots \cup {NoCo}, Wake(w),
             \/ /\ Head(body[current]) = "send" /\ count' = count + 1
                /\ w = recv_waiter /\ send_waiter' = send_waiter
             \/ /\ Head(body[current]) = "recv" /\ count > 0 /\ count' = count - 1
                /\ w = send_waiter /\ recv_waiter' = recv_waiter
      PROVE  Settled' /\ (~missed' => Draining')
  <2>1. \A s \in Slots : state'[s] = IF s = w THEN "ready" ELSE state[s]
    <3>1. CASE w = NoCo
      BY <1>7, <3>1 DEF Wake, NoCo, Slots
    <3>2. CASE w # NoCo
      <4>1. state' = [state EXCEPT ![w] = "ready"]
        BY <1>7, <3>2 DEF Wake
      <4> QED
        BY <1>1, <4>1
    <3> QED
      BY <3>1, <3>2
  <2>2. Settled'
    BY <1>1, <1>2, <1>4, <1>7, <2>1 DEF Settled
  <2>3. ASSUME Draining PROVE Draining'
    <3>1. Balance'
      BY <1>2, <1>3, <1>4, <1>7, <2>3, Zenon DEF Balance
    <3>2. ASSUME NEW s \in Slots, state'[s] = "blocked" PROVE FALSE
      <4>1. s # w /\ state[s] = "blocked" /\ s # current
        BY <1>2, <2>1, <3>2
      <4>2. /\ Head(body[s]) = "send" => Head(body[current]) # "send"
            /\ Head(body[s]) = "recv" => Head(body[current]) # "recv"
        BY <1>2, <1>3, <2>3, <4>1
      <4>3. \/ Head(body[s]) = "recv" /\ recv_waiter = s
            \/ Head(body[s]) = "send" /\ send_waiter = s
        BY <1>3, <2>3, <4>1
      <4> QED
        BY <1>7, <4>1, <4>2, <4>3
    <3> QED
      BY <1>2, <3>1, <3>2 DEF Draining
  <2> QED
    BY <1>2, <2>2, <2>3 DEF DrainInv
<1>8. CASE co_chan_send
  BY <1>1, <1>7, <1>8 DEF co_chan_send, Calls
<1>9. CASE co_chan_recv
  BY <1>1, <1>7, <1>9 DEF co_chan_recv, Calls
<1> QED
  BY <1>5, <1>6, <1>8, <1>9

(* Where the rounds are like the viewer's and no co_start missed its body, *)
(* co_run leaves nobody blocked and no message behind, and who is blocked  *)
(* meanwhile is remembered and has reason to be (coro.c).                  *)
THEOREM RoundsAreDrained ==
  ASSUME CoroAssumption, PairedRounds
  PROVE  CoroSpec => []ChannelDrains
<1>1. DrainInv => ChannelDrains
  <2> SUFFICES ASSUME DrainInv, ~missed PROVE NoLostWakeup /\ RoundsDrain
    BY DEF ChannelDrains
  <2>1. NoLostWakeup
    BY DEF DrainInv, Draining, Waits, NoLostWakeup
  <2>2. RoundsDrain
    BY Ended DEF RoundsDrain, FreeSlots
  <2> QED
    BY <2>1, <2>2
<1>2. DrainInv /\ [CoroNext]_coroVars => DrainInv'
  <2> SUFFICES ASSUME DrainInv, [CoroNext]_coroVars PROVE DrainInv'
    OBVIOUS
  <2>1. PoolInv'
    BY PoolStep DEF DrainInv
  <2>2. Settled' /\ (~missed' => Draining')
    BY StartDrains, RunDrains, CallsDrain DEF CoroNext
  <2> QED
    BY <2>1, <2>2 DEF DrainInv
<1> QED
  BY <1>1, <1>2, DrainInitially, PTL DEF CoroSpec

-----------------------------------------------------------------------------
(* The inductive invariant of a viewer's loop.  While it is alone its copy *)
(* read_attr is true of the module's display from its start to its request *)
(* to stop, and what it has read of kxo_state is still there when it       *)
(* writes; and with no viewer the records are displayed.                   *)
AttrText == [display : {"0", "1"}, end : {"0", "1"}]
LoopStage == {"closed", "select", "read", "key", "ctrl_p", "ctrl_q", "tab"}

LoopTypes ==
  /\ attr_obj \in AttrText /\ bufs \in [Viewers -> AttrText]
  /\ vpc \in [Viewers -> LoopStage]
  /\ read_attrs \in [Viewers -> BOOLEAN] /\ end_attr \in [Viewers -> BOOLEAN]

Displays == attr_obj.display = "1"

InStep(v) ==
  /\ alone /\ vpc[v] # "closed" /\ ~end_attr[v] => (read_attrs[v] <=> Displays)
  /\ alone /\ vpc[v] \in {"ctrl_p", "ctrl_q"} => bufs[v] = attr_obj
  /\ end_attr[v] => vpc[v] = "tab"

Single == alone => \A v, w \in Viewers : vpc[v] # "closed" /\ vpc[w] # "closed" => v = w
Fresh == (\A v \in Viewers : vpc[v] = "closed") => Displays

LoopInv == LoopTypes /\ Single /\ Fresh /\ \A v \in Viewers : InStep(v)

(* No viewer is open and the records are displayed.                        *)
LEMMA LoopInitially == LoopInit => LoopInv
BY DEF LoopInit, InitialText, LoopInv, LoopTypes, Single, Fresh, InStep, Displays, AttrText,
   LoopStage

(* A close displays the records again, for the others too.                 *)
LEMMA CloseInStep ==
  ASSUME LoopInv, NEW v \in Viewers, vpc[v] # "closed", CloseFile(v)
  PROVE  LoopInv'
<1> USE DEF LoopInv, InStep, Displays, CloseFile, Goto, InitialText
<1>1. LoopTypes'
  BY DEF LoopTypes, AttrText, LoopStage
<1>2. Single' /\ Fresh'
  BY DEF LoopTypes, Single, Fresh
<1>3. ASSUME NEW w \in Viewers PROVE InStep(w)'
  <2>1. CASE w = v
    BY <2>1 DEF LoopTypes
  <2>2. CASE w # v
    <3>1. alone => vpc[w] = "closed"
      BY <2>2 DEF Single
    <3> QED
      BY <2>2, <3>1 DEF LoopTypes
  <2> QED
    BY <2>1, <2>2
<1> QED
  BY <1>1, <1>2, <1>3

(* A step of a viewer that leaves the others and itself open or closed.    *)
Within(v) ==
  /\ vpc[v] # "closed" /\ vpc'[v] # "closed" /\ alone' = alone
  /\ \A w \in Viewers : w # v =>
       /\ vpc'[w] = vpc[w] /\ bufs'[w] = bufs[w]
       /\ read_attrs'[w] = read_attrs[w] /\ end_attr'[w] = end_attr[w]

(* Then only that viewer has to stay in step.                              *)
LEMMA WithinKept ==
  ASSUME LoopInv, LoopTypes', NEW v \in Viewers, Within(v), InStep(v)'
  PROVE  LoopInv'
<1> USE DEF LoopInv, Within
<1>1. Single' /\ Fresh'
  BY DEF Single, Fresh
<1>2. ASSUME NEW w \in Viewers, w # v PROVE InStep(w)'
  <2>1. alone => vpc[w] = "closed"
    BY <1>2 DEF Single
  <2> QED
    BY <1>2, <2>1 DEF InStep
<1> QED
  BY <1>1, <1>2

(* The handlers of the keys, between reading kxo_state and writing it.     *)
LEMMA KeysInStep ==
  ASSUME LoopInv, NEW v \in Viewers, KeyRead(v) \/ TogglePause(v) \/ StopGames(v)
  PROVE  LoopInv'
<1>0. LoopTypes /\ InStep(v)
  BY DEF LoopInv
<1> USE DEF LoopTypes, InStep, Displays, AttrText, LoopStage, Goto, Within
<1>1. CASE KeyRead(v)
  <2>1. LoopTypes' /\ Within(v) /\ InStep(v)'
    BY <1>0, <1>1 DEF KeyRead, kernelVars
  <2> QED
    BY <2>1, WithinKept
<1>2. CASE TogglePause(v)
  <2>1. LoopTypes' /\ Within(v) /\ InStep(v)'
    BY <1>0, <1>2 DEF TogglePause, Flip, InitialText
  <2> QED
    BY <2>1, WithinKept
<1>3. CASE StopGames(v)
  <2>1. LoopTypes' /\ Within(v) /\ InStep(v)'
    BY <1>0, <1>3 DEF StopGames, InitialText
  <2> QED
    BY <2>1, WithinKept
<1> QED
  BY <1>1, <1>2, <1>3

(* A viewer that starts alone finds the records displayed.                 *)
LEMMA StartInStep ==
  ASSUME LoopInv, NEW v \in Viewers, Start(v)
  PROVE  LoopInv'
<1> USE DEF LoopInv, Start, Goto
<1>1. LoopTypes'
  BY DEF LoopTypes, LoopStage
<1>2. alone' <=> \A w \in Viewers : vpc[w] = "closed"
  BY DEF Open
<1>3. /\ vpc'[v] = "select" /\ read_attrs'[v] = TRUE
      /\ \A w \in Viewers : w # v => vpc'[w] = vpc[w] /\ read_attrs'[w] = read_attrs[w]
      /\ UNCHANGED <<attr_obj, bufs, end_attr>>
  BY DEF LoopTypes
<1>4. Single' /\ Fresh'
  BY <1>2, <1>3 DEF Single, Fresh
<1>5. ASSUME NEW w \in Viewers PROVE InStep(w)'
  <2>1. InStep(w) /\ vpc[v] = "closed"
    OBVIOUS
  <2> QED
    BY <1>2, <1>3, <2>1 DEF InStep, Fresh, Displays
<1> QED
  BY <1>1, <1>4, <1>5

(* The other steps of a viewer.                                            *)
LEMMA OthersInStep ==
  ASSUME LoopInv, NEW v \in Viewers,
         Select(v) \/ Read(v) \/ Draw(v) \/ \E k \in Keys : Press(v, k)
  PROVE  LoopInv'
<1>0. LoopTypes /\ InStep(v)
  BY DEF LoopInv
<1>1. /\ LoopTypes' /\ Within(v) /\ UNCHANGED <<attr_obj, bufs, read_attrs, end_attr>>
      /\ (vpc'[v] # "closed" /\ vpc'[v] \notin {"ctrl_p", "ctrl_q"}) \/ vpc' = vpc
      /\ end_attr[v] => vpc' = vpc
  <2> USE DEF LoopTypes, LoopStage, Goto, Within, InStep
  <2>1. CASE Select(v)
    BY <1>0, <2>1 DEF Select, Selected, kernelVars, viewerVars
  <2>2. CASE Read(v)
    BY <1>0, <2>2 DEF Read, viewerVars
  <2>3. CASE Draw(v)
    BY <1>0, <2>3 DEF Draw, kernelVars, viewerVars
  <2>4. CASE \E k \in Keys : Press(v, k)
    BY <1>0, <2>4 DEF Press, kernelVars, viewerVars
  <2> QED
    BY <2>1, <2>2, <2>3, <2>4
<1>2. InStep(v)'
  BY <1>0, <1>1 DEF InStep, Displays, Within
<1> QED
  BY <1>1, <1>2, WithinKept

(* The engine's timer and drawing work only read the display.              *)
LEMMA EngineInStep ==
  ASSUME LoopInv, TimerStops \/ DrawTest \/ DrawProduce \/ UNCHANGED loopVars
  PROVE  LoopInv'
BY DEF LoopInv, LoopTypes, Single, Fresh, InStep, Displays, TimerStops, DrawTest, DrawProduce,
   loopVars, kernelVars, viewerVars

(* While no other file is open, what Ctrl-P toggles is what the engine     *)
(* does: the viewer's read_attr and the attribute of kxo_state agree       *)
(* whenever the viewer is not between two steps of a handler (xo-user.c,   *)
(* main and listen_keyboard_handler; main.c, kxo_state_store and           *)
(* kxo_release).                                                           *)
THEOREM PauseFollowed == LoopSpec => []PauseAgrees
<1>1. LoopInv /\ [LoopNext]_loopVars => LoopInv'
  <2> SUFFICES ASSUME LoopInv, [LoopNext]_loopVars PROVE LoopInv'
    OBVIOUS
  <2>1. CASE TimerStops \/ DrawTest \/ DrawProduce \/ UNCHANGED loopVars
    BY <2>1, EngineInStep
  <2>2. ASSUME NEW v \in Viewers, Killed(v) \/ Quit(v)
        PROVE  LoopInv'
    BY <2>2, CloseInStep DEF Killed, Quit
  <2>3. ASSUME NEW v \in Viewers, KeyRead(v) \/ TogglePause(v) \/ StopGames(v)
        PROVE  LoopInv'
    BY <2>3, KeysInStep
  <2>4. ASSUME NEW v \in Viewers, Start(v) PROVE LoopInv'
    BY <2>4, StartInStep
  <2>5. ASSUME NEW v \in Viewers,
               Select(v) \/ Read(v) \/ Draw(v) \/ \E k \in Keys : Press(v, k)
        PROVE  LoopInv'
    BY <2>5, OthersInStep
  <2> QED
    BY <2>1, <2>2, <2>3, <2>4, <2>5 DEF LoopNext, Round
<1>2. LoopInv => PauseAgrees
  BY DEF LoopInv, LoopTypes, InStep, Displays, PauseAgrees, LoopStage
<1> QED
  BY <1>1, <1>2, LoopInitially, PTL DEF LoopSpec

-----------------------------------------------------------------------------
(* The inductive invariant of the output buffer.                           *)
OutbufTypes ==
  /\ outbuf \in Seq(Nat) /\ term \in Seq(Nat) /\ written \in Nat
  /\ disabled \in BOOLEAN /\ left \in SUBSET Nat
  /\ where \in {"tasks", "flushed", "quit", "exit"}

Stays == Len(outbuf) < FLUSH_THRESHOLD

Bytes == term \o outbuf
Upto(n) == [i \in 1 .. n |-> i]

Screen ==
  /\ where \in {"flushed", "quit"} => outbuf = <<>>
  /\ where \in {"tasks", "flushed"} => left = {}
  /\ where = "quit" => left = {Len(term)}

Complete ==
  /\ 1 .. written \ lost \subseteq ToSet(Bytes)
  /\ ~disabled => Bytes = Upto(written)

OutbufInv == OutbufTypes /\ Stays /\ Screen /\ Complete

(* Nothing is written, nothing is kept.                                    *)
LEMMA OutbufInitially == OutbufAssumption /\ OutbufInit => OutbufInv
<1> SUFFICES ASSUME OutbufAssumption, OutbufInit PROVE OutbufInv
  OBVIOUS
<1>1. OutbufTypes /\ Screen
  BY EmptySeq, Zenon DEF OutbufInit, OutbufTypes, Screen
<1>2. Stays
  BY DEF OutbufInit, Stays, OutbufAssumption
<1>3. Bytes = <<>>
  BY DEF Bytes, OutbufInit
<1>4. Upto(written) = <<>> /\ 1 .. written = {}
  BY DEF Upto, OutbufInit
<1> QED
  BY <1>1, <1>2, <1>3, <1>4 DEF OutbufInv, Complete

(* The bytes of a text follow those written before it.                     *)
LEMMA TextSeq ==
  ASSUME written \in Nat, NEW n \in Nat
  PROVE  /\ Text(n) \in Seq(Nat) /\ Len(Text(n)) = n
         /\ ToSet(Text(n)) = written + 1 .. written + n
<1>1. Text(n) \in [1 .. n -> Nat]
  BY DEF Text
<1>2. Text(n) \in Seq(Nat) /\ Len(Text(n)) = n
  BY <1>1
<1>3. DOMAIN Text(n) = 1 .. n /\ \A i \in 1 .. n : Text(n)[i] = written + i
  BY DEF Text
<1>4. \A x \in written + 1 .. written + n : x - written \in 1 .. n /\ x = written + (x - written)
  OBVIOUS
<1>5. ToSet(Text(n)) = {Text(n)[i] : i \in 1 .. n}
  BY <1>3, Zenon DEF ToSet
<1>6. {Text(n)[i] : i \in 1 .. n} = written + 1 .. written + n
  BY <1>3, <1>4
<1> QED
  BY <1>2, <1>5, <1>6, Zenon

(* What two texts in a row consist of.                                     *)
LEMMA ConcatSet ==
  ASSUME NEW s \in Seq(Nat), NEW t \in Seq(Nat)
  PROVE  ToSet(s \o t) = ToSet(s) \cup ToSet(t)
<1> DEFINE c == s \o t
<1>1. /\ c \in Seq(Nat) /\ Len(c) = Len(s) + Len(t)
      /\ \A i \in 1 .. Len(s) : c[i] = s[i]
      /\ \A i \in 1 .. Len(t) : c[Len(s) + i] = t[i]
      /\ \A i \in 1 .. Len(c) : i > Len(s) => c[i] = t[i - Len(s)]
  OBVIOUS
<1>2. /\ DOMAIN c = 1 .. Len(c) /\ DOMAIN s = 1 .. Len(s) /\ DOMAIN t = 1 .. Len(t)
      /\ Len(s) \in Nat /\ Len(t) \in Nat
  BY <1>1
<1> HIDE DEF c
<1>3. ASSUME NEW x \in ToSet(c) PROVE x \in ToSet(s) \cup ToSet(t)
  <2>1. PICK i \in 1 .. Len(c) : x = c[i]
    BY <1>2 DEF ToSet
  <2>2. CASE i <= Len(s)
    <3>1. i \in 1 .. Len(s) /\ x = s[i]
      BY <1>1, <1>2, <2>1, <2>2
    <3> QED
      BY <1>2, <3>1 DEF ToSet
  <2>3. CASE i > Len(s)
    <3>1. i - Len(s) \in 1 .. Len(t)
      BY <1>1, <1>2, <2>3
    <3> QED
      BY <1>1, <1>2, <2>1, <2>3, <3>1 DEF ToSet
  <2> QED
    BY <1>2, <2>2, <2>3
<1>4. ASSUME NEW x \in ToSet(s) PROVE x \in ToSet(c)
  BY <1>1, <1>2 DEF ToSet
<1>5. ASSUME NEW x \in ToSet(t) PROVE x \in ToSet(c)
  <2>1. PICK i \in 1 .. Len(t) : x = t[i]
    BY <1>2 DEF ToSet
  <2>2. Len(s) + i \in 1 .. Len(c) /\ c[Len(s) + i] = x
    BY <1>1, <1>2, <2>1
  <2> QED
    BY <1>2, <2>2 DEF ToSet
<1> QED
  BY <1>3, <1>4, <1>5 DEF c

(* The bytes after t goes out and b stays.                                 *)
LEMMA OutBytes ==
  ASSUME term \in Seq(Nat), NEW t \in Seq(Nat), NEW b \in Seq(Nat), Out(t, b)
  PROVE  /\ term' \in Seq(Nat) /\ outbuf' \in Seq(Nat) /\ outbuf' = b
         /\ Bytes' = term \o (t \o b)
<1>1. term' = term \o t /\ outbuf' = b
  BY DEF Out
<1>2. term' \in Seq(Nat)
  BY <1>1
<1>3. Bytes' = (term \o t) \o b
  BY <1>1 DEF Bytes
<1>4. (term \o t) \o b = term \o (t \o b)
  <2>1. PICK r \in Seq(Nat) : r = term
    OBVIOUS
  <2>2. (r \o t) \o b = r \o (t \o b)
    BY ConcatAssociative, SMTT(60)
  <2> QED
    BY <2>1, <2>2, Zenon
<1> QED
  BY <1>1, <1>2, <1>3, <1>4, Zenon

(* What goes out and what stays, with or without the flush at the          *)
(* threshold.                                                              *)
LEMMA AddToBytes ==
  ASSUME OutbufAssumption, term \in Seq(Nat), NEW t \in Seq(Nat), NEW b \in Seq(Nat), AddTo(t, b)
  PROVE  /\ term' \in Seq(Nat) /\ outbuf' \in Seq(Nat) /\ Stays'
         /\ Bytes' = term \o (t \o b)
<1>1. CASE FlushedAll(b)
  <2>1. Out(t \o b, <<>>)
    BY <1>1, Zenon DEF AddTo
  <2>2. t \o b \in Seq(Nat) /\ <<>> \in Seq(Nat)
    OBVIOUS
  <2>3. (t \o b) \o <<>> = t \o b
    BY <2>2, ConcatEmptySeq
  <2>4. /\ term' \in Seq(Nat) /\ outbuf' \in Seq(Nat) /\ outbuf' = <<>>
        /\ Bytes' = term \o ((t \o b) \o <<>>)
    BY <2>1, <2>2, OutBytes, Zenon
  <2>5. Stays'
    BY <2>4 DEF Stays, OutbufAssumption
  <2> QED
    BY <2>3, <2>4, <2>5, Zenon
<1>2. CASE ~FlushedAll(b)
  <2>1. Out(t, b)
    BY <1>2, Zenon DEF AddTo
  <2>2. /\ term' \in Seq(Nat) /\ outbuf' \in Seq(Nat) /\ outbuf' = b
        /\ Bytes' = term \o (t \o b)
    BY <2>1, OutBytes, Zenon
  <2>3. Len(b) \in Nat
    OBVIOUS
  <2>4. Stays'
    BY <1>2, <2>2, <2>3 DEF Stays, FlushedAll, OutbufAssumption
  <2> QED
    BY <2>2, <2>4, Zenon
<1> QED
  BY <1>1, <1>2

(* A text behind what is buffered, whichever way it takes.                 *)
Behind(n) ==
  /\ term' \in Seq(Nat) /\ outbuf' \in Seq(Nat) /\ Stays'
  /\ Bytes' = Bytes \o Text(n)

(* A text behind the buffer is behind all the bytes.                       *)
LEMMA Regrouped ==
  ASSUME OutbufTypes, NEW n \in Nat
  PROVE  /\ term \o (outbuf \o Text(n)) = Bytes \o Text(n)
         /\ <<>> \o (outbuf \o Text(n)) = outbuf \o Text(n)
         /\ (outbuf \o Text(n)) \o <<>> = outbuf \o Text(n)
         /\ outbuf \o Text(n) \in Seq(Nat)
<1>1. term \in Seq(Nat) /\ outbuf \in Seq(Nat) /\ Text(n) \in Seq(Nat)
  BY TextSeq DEF OutbufTypes
<1>2. (term \o outbuf) \o Text(n) = term \o (outbuf \o Text(n))
  <2>1. PICK r \in Seq(Nat), s \in Seq(Nat), t \in Seq(Nat) :
          r = term /\ s = outbuf /\ t = Text(n)
    BY <1>1
  <2>2. (r \o s) \o t = r \o (s \o t)
    BY ConcatAssociative, SMTT(60)
  <2> QED
    BY <2>1, <2>2, Zenon
<1>3. outbuf \o Text(n) \in Seq(Nat)
  BY <1>1
<1>4. <<>> \o (outbuf \o Text(n)) = outbuf \o Text(n)
  BY <1>3, ConcatEmptySeq
<1>5. (outbuf \o Text(n)) \o <<>> = outbuf \o Text(n)
  BY <1>3, ConcatEmptySeq
<1> QED
  BY <1>2, <1>3, <1>4, <1>5, Zenon DEF Bytes

(* A text that fits is kept behind the others.                             *)
LEMMA BufferedBehind ==
  ASSUME OutbufAssumption, OutbufTypes, NEW n \in Nat, AddTo(<<>>, outbuf \o Text(n))
  PROVE  Behind(n)
<1>1. outbuf \o Text(n) \in Seq(Nat) /\ <<>> \in Seq(Nat) /\ term \in Seq(Nat)
  BY Regrouped, EmptySeq, Zenon DEF OutbufTypes
<1>2. /\ term' \in Seq(Nat) /\ outbuf' \in Seq(Nat) /\ Stays'
      /\ Bytes' = term \o (<<>> \o (outbuf \o Text(n)))
  BY <1>1, AddToBytes, Zenon
<1> QED
  BY <1>2, Regrouped, Zenon DEF Behind

(* The buffer goes out before a text that does not fit.                    *)
LEMMA FlushedBehind ==
  ASSUME OutbufAssumption, OutbufTypes, NEW n \in Nat, AddTo(outbuf, Text(n))
  PROVE  Behind(n)
<1>1. outbuf \in Seq(Nat) /\ Text(n) \in Seq(Nat) /\ term \in Seq(Nat)
  BY TextSeq DEF OutbufTypes
<1>2. /\ term' \in Seq(Nat) /\ outbuf' \in Seq(Nat) /\ Stays'
      /\ Bytes' = term \o (outbuf \o Text(n))
  BY <1>1, AddToBytes, Zenon
<1> QED
  BY <1>2, Regrouped, Zenon DEF Behind

(* A text larger than the buffer goes out behind it, past it.              *)
LEMMA BypassBehind ==
  ASSUME OutbufAssumption, OutbufTypes, NEW n \in Nat, Bypasses(n)
  PROVE  Behind(n)
<1>1. outbuf \o Text(n) \in Seq(Nat) /\ <<>> \in Seq(Nat) /\ term \in Seq(Nat)
  BY Regrouped, EmptySeq, Zenon DEF OutbufTypes
<1>2. /\ term' \in Seq(Nat) /\ outbuf' \in Seq(Nat) /\ outbuf' = <<>>
      /\ Bytes' = term \o ((outbuf \o Text(n)) \o <<>>)
  BY <1>1, OutBytes, Zenon DEF Bypasses
<1>3. Stays'
  BY <1>2 DEF Stays, OutbufAssumption
<1> QED
  BY <1>2, <1>3, Regrouped, Zenon DEF Behind

(* The first n numbers, a text more.                                       *)
LEMMA UptoText ==
  ASSUME written \in Nat, NEW n \in Nat
  PROVE  Upto(written) \o Text(n) = Upto(written + n)
<1> DEFINE a == Upto(written) \o Text(n)
           b == Upto(written + n)
<1>1. Upto(written) \in [1 .. written -> Nat] /\ b \in [1 .. written + n -> Nat]
  BY DEF Upto
<1>2. /\ Upto(written) \in Seq(Nat) /\ Len(Upto(written)) = written
      /\ b \in Seq(Nat) /\ Len(b) = written + n
  BY <1>1
<1>3. Text(n) \in Seq(Nat) /\ Len(Text(n)) = n
  BY TextSeq
<1>4. /\ a \in Seq(Nat) /\ Len(a) = written + n
      /\ \A i \in 1 .. written : a[i] = Upto(written)[i]
      /\ \A i \in 1 .. n : a[written + i] = Text(n)[i]
  <2>1. PICK s \in Seq(Nat), t \in Seq(Nat) : s = Upto(written) /\ t = Text(n)
    BY <1>2, <1>3
  <2>2. /\ s \o t \in Seq(Nat) /\ Len(s \o t) = Len(s) + Len(t)
        /\ \A i \in 1 .. Len(s) : (s \o t)[i] = s[i]
        /\ \A i \in 1 .. Len(t) : (s \o t)[Len(s) + i] = t[i]
    OBVIOUS
  <2> QED
    BY <1>2, <1>3, <2>1, <2>2, Zenon
<1>5. \A i \in 1 .. written + n : b[i] = i
  BY DEF Upto
<1>6. \A i \in 1 .. written : Upto(written)[i] = i
  BY DEF Upto
<1>7. \A i \in 1 .. n : Text(n)[i] = written + i
  BY DEF Text
<1> HIDE DEF a, b
<1>8. ASSUME NEW i \in 1 .. Len(a) PROVE a[i] = b[i]
  <2>1. CASE i <= written
    BY <1>4, <1>5, <1>6, <2>1
  <2>2. CASE i > written
    <3>1. PICK k \in 1 .. n : i = written + k
      <4>1. i - written \in 1 .. n /\ i = written + (i - written)
        BY <1>4, <2>2
      <4> QED
        BY <4>1
    <3> QED
      BY <1>4, <1>5, <1>7, <3>1
  <2> QED
    BY <1>4, <2>1, <2>2
<1>9. a = b
  BY <1>2, <1>4, <1>8, SeqEqual
<1> QED
  BY <1>9 DEF a, b

(* A call that puts its text behind all the bytes keeps the invariant.     *)
LEMMA BehindKept ==
  ASSUME OutbufInv, NEW n \in Nat, CallWith(n), UNCHANGED <<disabled, lost>>, Behind(n)
  PROVE  OutbufInv'
<1>1. OutbufTypes' /\ Stays' /\ Screen'
  BY DEF OutbufInv, OutbufTypes, Screen, CallWith, Behind
<1>2. /\ Bytes \in Seq(Nat) /\ Text(n) \in Seq(Nat) /\ written \in Nat
      /\ Bytes' = Bytes \o Text(n) /\ written' = written + n
      /\ ToSet(Text(n)) = written + 1 .. written + n
  <2>1. Bytes \in Seq(Nat)
    BY DEF Bytes, OutbufInv, OutbufTypes
  <2> QED
    BY <2>1, TextSeq, Zenon DEF OutbufInv, OutbufTypes, CallWith, Behind
<1>3. ToSet(Bytes') = ToSet(Bytes) \cup (written + 1 .. written + n)
  BY <1>2, ConcatSet, Zenon
<1>4. 1 .. written' \ lost' \subseteq ToSet(Bytes')
  BY <1>2, <1>3 DEF OutbufInv, Complete
<1>5. ASSUME ~disabled' PROVE Bytes' = Upto(written')
  <2>1. Bytes = Upto(written)
    BY <1>5 DEF OutbufInv, Complete
  <2> QED
    BY <1>2, <2>1, UptoText, Zenon
<1> QED
  BY <1>1, <1>4, <1>5 DEF OutbufInv, Complete

(* The buffer is disabled: what a call writes goes past it.                *)
LEMMA PastKept ==
  ASSUME OutbufInv, NEW n \in Nat, CallWith(n), UNCHANGED <<disabled, lost>>,
         disabled, Out(Text(n), outbuf)
  PROVE  OutbufInv'
<1>1. /\ term \in Seq(Nat) /\ outbuf \in Seq(Nat) /\ Text(n) \in Seq(Nat)
      /\ written \in Nat /\ written' = written + n
      /\ ToSet(Text(n)) = written + 1 .. written + n
  BY TextSeq DEF OutbufInv, OutbufTypes, CallWith
<1>2. term' = term \o Text(n) /\ outbuf' = outbuf
  BY DEF Out
<1>3. term' \in Seq(Nat)
  BY <1>1, <1>2
<1>4. OutbufTypes' /\ Stays' /\ Screen'
  BY <1>2, <1>3 DEF OutbufInv, OutbufTypes, Stays, Screen, CallWith
<1>5. ToSet(Bytes) = ToSet(term) \cup ToSet(outbuf)
  BY <1>1, ConcatSet, Zenon DEF Bytes
<1>6. ToSet(Bytes') = ToSet(term') \cup ToSet(outbuf)
  BY <1>1, <1>2, <1>3, ConcatSet, Zenon DEF Bytes
<1>7. ToSet(term') = ToSet(term) \cup (written + 1 .. written + n)
  <2>1. ToSet(term \o Text(n)) = ToSet(term) \cup ToSet(Text(n))
    BY <1>1, ConcatSet, Zenon
  <2> QED
    BY <1>1, <1>2, <2>1, Zenon
<1>8. ToSet(Bytes) \cup (written + 1 .. written + n) \subseteq ToSet(Bytes')
  BY <1>5, <1>6, <1>7, Zenon
<1>9. 1 .. written' \subseteq 1 .. written \cup (written + 1 .. written + n)
  BY <1>1
<1>10. 1 .. written \ lost \subseteq ToSet(Bytes) /\ lost' = lost
  BY DEF OutbufInv, Complete
<1>11. 1 .. written' \ lost' \subseteq ToSet(Bytes')
  BY <1>8, <1>9, <1>10, Zenon
<1> QED
  BY <1>4, <1>11 DEF OutbufInv, Complete

(* The buffer goes out and no text comes with it.                          *)
LEMMA FlushKept ==
  ASSUME OutbufAssumption, OutbufTypes, Out(outbuf, <<>>)
  PROVE  /\ term' \in Seq(Nat) /\ outbuf' = <<>> /\ Stays' /\ Bytes' = Bytes
<1>1. term \in Seq(Nat) /\ outbuf \in Seq(Nat) /\ <<>> \in Seq(Nat)
  BY EmptySeq DEF OutbufTypes
<1>2. /\ term' \in Seq(Nat) /\ outbuf' = <<>>
      /\ Bytes' = term \o (outbuf \o <<>>)
  BY <1>1, OutBytes, Zenon
<1>3. outbuf \o <<>> = outbuf
  BY <1>1, ConcatEmptySeq
<1>4. Stays'
  BY <1>2 DEF Stays, OutbufAssumption
<1> QED
  BY <1>2, <1>3, <1>4, Zenon DEF Bytes

(* A text that was cut off is lost and disables the buffer.                *)
LEMMA TooLongKept ==
  ASSUME OutbufAssumption, OutbufInv, NEW n \in Nat, CallWith(n),
         Out(outbuf, <<>>), disabled' = TRUE, lost' = lost \cup {written + i : i \in 1 .. n}
  PROVE  OutbufInv'
<1>1. /\ term' \in Seq(Nat) /\ outbuf' = <<>> /\ Stays' /\ Bytes' = Bytes
  BY FlushKept, Zenon DEF OutbufInv
<1>2. OutbufTypes' /\ Screen'
  BY <1>1 DEF OutbufInv, OutbufTypes, Screen, CallWith
<1>3. ASSUME NEW x \in 1 .. written' \ lost' PROVE x \in 1 .. written \ lost
  <2>1. written \in Nat /\ written' = written + n
    BY DEF OutbufInv, OutbufTypes, CallWith
  <2>2. CASE x <= written
    BY <1>3, <2>1, <2>2
  <2>3. CASE x > written
    <3>1. PICK i \in 1 .. n : x = written + i
      <4>1. x - written \in 1 .. n /\ x = written + (x - written)
        BY <2>1, <2>3
      <4> QED
        BY <4>1
    <3> QED
      BY <1>3, <3>1
  <2> QED
    BY <2>1, <2>2, <2>3
<1>4. Complete'
  BY <1>1, <1>3 DEF OutbufInv, Complete
<1> QED
  BY <1>1, <1>2, <1>4 DEF OutbufInv

(* outbuf_write, whichever way its text goes.                              *)
LEMMA WriteKept ==
  ASSUME OutbufAssumption, OutbufInv, NEW n \in Nat, outbuf_write(n)
  PROVE  OutbufInv'
<1>1. CallWith(n) /\ UNCHANGED <<disabled, lost>> /\ OutbufTypes
  BY DEF outbuf_write, OutbufInv
<1>2. CASE disabled
  <2>1. Out(Text(n), outbuf)
    BY <1>2, Zenon DEF outbuf_write
  <2> QED
    BY <1>1, <1>2, <2>1, PastKept
<1>3. CASE ~disabled
  <2>1. \/ Bypasses(n) \/ AddTo(outbuf, Text(n)) \/ AddTo(<<>>, outbuf \o Text(n))
    BY <1>3, Zenon DEF outbuf_write
  <2>2. Behind(n)
    BY <1>1, <2>1, BypassBehind, FlushedBehind, BufferedBehind, Zenon
  <2> QED
    BY <1>1, <2>2, BehindKept, Zenon
<1> QED
  BY <1>2, <1>3

(* outbuf_printf, whichever way its text goes.                             *)
LEMMA PrintKept ==
  ASSUME OutbufAssumption, OutbufInv, NEW n \in Nat, outbuf_printf(n)
  PROVE  OutbufInv'
<1>1. CallWith(n) /\ OutbufTypes
  BY DEF outbuf_printf, OutbufInv
<1>2. CASE Fits(n)
  <2>1. AddTo(<<>>, outbuf \o Formatted(n)) /\ UNCHANGED <<disabled, lost>>
    BY <1>2, Zenon DEF outbuf_printf
  <2>2. Len(outbuf) + n < OUTBUF_SIZE
    BY <1>1, <1>2 DEF Fits, OutbufTypes, OutbufAssumption
  <2>3. Formatted(n) = Text(n)
    BY <2>2, Zenon DEF Formatted
  <2>4. AddTo(<<>>, outbuf \o Text(n))
    BY <2>1, <2>3, Zenon
  <2>5. Behind(n)
    BY <1>1, <2>4, BufferedBehind
  <2> QED
    BY <1>1, <2>1, <2>5, BehindKept
<1>3. CASE ~Fits(n) /\ n < OUTBUF_SIZE
  <2>1. AddTo(outbuf, Text(n)) /\ UNCHANGED <<disabled, lost>>
    BY <1>3, Zenon DEF outbuf_printf
  <2>2. Behind(n)
    BY <1>1, <2>1, FlushedBehind
  <2> QED
    BY <1>1, <2>1, <2>2, BehindKept
<1>4. CASE ~Fits(n) /\ ~(n < OUTBUF_SIZE)
  <2>1. /\ Out(outbuf, <<>>) /\ disabled' = TRUE
        /\ lost' = lost \cup {written + i : i \in 1 .. n}
    BY <1>4, Zenon DEF outbuf_printf
  <2> QED
    BY <1>1, <2>1, TooLongKept
<1> QED
  BY <1>2, <1>3, <1>4

(* The ends of a round and of the viewer.                                  *)
LEMMA EndsKept ==
  ASSUME OutbufAssumption, OutbufInv,
         RoundEnds \/ tui_quit \/ Exit("quit") \/ Exit("tasks")
  PROVE  OutbufInv'
<1>1. Out(outbuf, <<>>) /\ UNCHANGED <<disabled, written, lost>>
  BY DEF RoundEnds, tui_quit, Exit, outbuf_flush, disable_raw
<1>2. /\ term' \in Seq(Nat) /\ outbuf' = <<>> /\ Stays' /\ Bytes' = Bytes
  BY <1>1, FlushKept, Zenon DEF OutbufInv
<1>3. Complete'
  BY <1>1, <1>2 DEF OutbufInv, Complete
<1>4. Len(term) \in Nat /\ left \in SUBSET Nat
  BY DEF OutbufInv, OutbufTypes
<1>5. where' \in {"flushed", "quit", "exit"} /\ left' \in SUBSET Nat
  BY <1>4 DEF RoundEnds, tui_quit, Exit, disable_raw
<1>6. OutbufTypes'
  BY <1>1, <1>2, <1>5 DEF OutbufInv, OutbufTypes
<1>7. Screen'
  <2>1. CASE RoundEnds
    BY <1>2, <2>1 DEF RoundEnds, OutbufInv, Screen
  <2>2. CASE tui_quit
    <3>1. outbuf = <<>> /\ left = {} /\ where' = "quit" /\ left' = left \cup {Len(term)}
      BY <2>2 DEF tui_quit, disable_raw, OutbufInv, Screen
    <3>2. term' = term
      <4>1. term' = term \o <<>> /\ term \in Seq(Nat)
        BY <1>1, <3>1 DEF Out, OutbufInv, OutbufTypes
      <4>2. term \o <<>> = term
        BY <4>1, ConcatEmptySeq
      <4> QED
        BY <4>1, <4>2, Zenon
    <3> QED
      BY <1>2, <3>1, <3>2 DEF Screen
  <2>3. CASE Exit("quit") \/ Exit("tasks")
    BY <2>3 DEF Exit, Screen
  <2> QED
    BY <2>1, <2>2, <2>3
<1> QED
  BY <1>2, <1>3, <1>6, <1>7 DEF OutbufInv

(* The output of the viewer (tui.c, outbuf_write, outbuf_printf and        *)
(* outbuf_flush), for any size of the buffer, any threshold and texts of   *)
(* any length: while the buffer is enabled the terminal holds what was     *)
(* written, in the order it was written, a round leaves nothing behind,    *)
(* and the mouse is released by the last bytes of a viewer that quits.     *)
THEOREM OutbufOrder ==
  ASSUME OutbufAssumption
  PROVE  OutbufSpec => []OutbufTrue
<1>1. OutbufInit => OutbufInv
  BY OutbufInitially
<1>2. OutbufInv /\ [OutbufNext]_outbufVars => OutbufInv'
  <2> SUFFICES ASSUME OutbufInv, [OutbufNext]_outbufVars PROVE OutbufInv'
    OBVIOUS
  <2>1. CASE \E n \in WriteSizes : outbuf_write(n)
    BY <2>1, WriteKept DEF OutbufAssumption
  <2>2. CASE \E n \in PrintSizes : outbuf_printf(n)
    BY <2>2, PrintKept DEF OutbufAssumption
  <2>3. CASE RoundEnds \/ tui_quit \/ Exit("quit") \/ Exit("tasks")
    BY <2>3, EndsKept
  <2>4. CASE RoundBegins
    BY <2>4 DEF RoundBegins, OutbufInv, OutbufTypes, Stays, Screen, Complete, Bytes
  <2>5. CASE UNCHANGED outbufVars
    BY <2>5 DEF outbufVars, OutbufInv, OutbufTypes, Stays, Screen, Complete, Bytes
  <2> QED
    BY <2>1, <2>2, <2>3, <2>4, <2>5 DEF OutbufNext
<1>3. OutbufInv => OutbufTrue
  <2> SUFFICES ASSUME OutbufInv PROVE OutbufTrue
    OBVIOUS
  <2>1. Missing \subseteq lost
    BY DEF OutbufInv, Complete, Missing, Bytes
  <2>2. ~disabled => term \o outbuf = [i \in 1 .. written |-> i]
    BY Zenon DEF OutbufInv, Complete, Bytes, Upto
  <2>3. LeavesClean
    BY DEF OutbufInv, Screen, LeavesClean
  <2> QED
    BY <2>1, <2>2, <2>3, Zenon DEF OutbufTrue, InOrder
<1> QED
  BY <1>1, <1>2, <1>3, PTL DEF OutbufSpec
=============================================================================
