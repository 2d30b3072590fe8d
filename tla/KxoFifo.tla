-------------------------------- MODULE KxoFifo -------------------------------
(***************************************************************************)
(* The records on their way to user space (src/main.c): draw and finish    *)
(* works put them into rx_fifo under consumer_lock, kxo_read takes bytes   *)
(* out under read_lock, and rx_wait holds the readers and pollers that     *)
(* sleep until there are some.  Writer and reader share no lock: the       *)
(* kfifo copies first and moves its index afterwards.                      *)
(*                                                                         *)
(* A byte is who produced its record and its place in the record.          *)
(***************************************************************************)
EXTENDS Integers, Sequences, SequencesExt

CONSTANTS
  Writers,       (* works that may be producing a record at the same time  *)
  Readers,       (* threads that read or poll the device                   *)
  NonBlocking,   (* those whose file has O_NONBLOCK                        *)
  Careless,      (* those that read whatever number of bytes they like     *)
  Faulting,      (* those whose buffer may be unmapped behind some byte    *)
  RecordBytes,   (* sizeof(struct xo_table), 16 in the program             *)
  FifoBytes,     (* PAGE_SIZE                                              *)
  IndexRange,    (* the kfifo's indices wrap here (2^32)                   *)
  Counts         (* how many bytes a read may ask for                      *)

ASSUME FifoAssumption ==
  /\ NonBlocking \subseteq Readers
  /\ Careless \subseteq Readers /\ Faulting \subseteq Readers
  /\ RecordBytes \in Nat \ {0} /\ FifoBytes \in Nat \ {0}
  /\ IndexRange \in Nat \ {0}
  /\ FifoBytes % RecordBytes = 0 /\ IndexRange % FifoBytes = 0
  /\ IndexRange > FifoBytes
  /\ Counts \subseteq Nat

VARIABLES
  careful,          (* do all readers ask for whole records, with sound    *)
                    (* buffers?  A choice of user space, made once         *)
  buf, in, out,     (* rx_fifo                                             *)
  wpc,              (* where each writer is                                *)
  wlen,             (* bytes it copied and has still to publish            *)
  rpc,              (* where each reader is                                *)
  want, rdata,      (* bytes it asked for, bytes it copied                 *)
  delivered         (* history: the records of the careful read that ended *)
                    (* last                                                *)

fifoVars == <<buf, in, out>>
writerVars == <<wpc, wlen>>
readerVars == <<rpc, want, rdata>>
flowVars == <<fifoVars, writerVars, readerVars, delivered>>
vars == <<careful, flowVars>>

kfifo_len == (in - out) % IndexRange
Least(a, b) == IF a < b THEN a ELSE b
Bytes(n) == [i \in 1 .. n |-> buf[(out + i - 1) % FifoBytes]]

-----------------------------------------------------------------------------
(* drawboard_work_func and finish_game_work_func from consumer_lock on.    *)
ConsumerUnlocked == TRUE              \* MUTANT: consumer_lock is not taken
ConsumerFree == \A w \in Writers : wpc[w] \notin {"copy", "publish"}

LockConsumer(w) ==
  /\ wpc[w] = "idle" /\ ConsumerFree
  /\ wpc' = [wpc EXCEPT ![w] = "copy"]
  /\ UNCHANGED <<fifoVars, wlen, readerVars, delivered>>

(* kfifo_in copies as much of the record as there is room for.             *)
produce_board(w) ==
  LET n == Least(RecordBytes, FifoBytes - kfifo_len) IN
  /\ wpc[w] = "copy"
  /\ buf' = [p \in DOMAIN buf |->
               LET i == (p - in) % FifoBytes
               IN  IF i < n THEN <<w, i>> ELSE buf[p]]
  /\ wlen' = [wlen EXCEPT ![w] = n]
  /\ wpc' = [wpc EXCEPT ![w] = "publish"]
  /\ UNCHANGED <<in, out, readerVars, delivered>>

Publish(w) ==
  /\ wpc[w] = "publish"
  /\ in' = (in + wlen[w]) % IndexRange
  /\ wlen' = [wlen EXCEPT ![w] = 0]
  /\ wpc' = [wpc EXCEPT ![w] = "wake"]
  /\ UNCHANGED <<buf, out, readerVars, delivered>>

WakeNobody(w) ==                      \* MUTANT: wake_up is not called
  /\ wpc[w] = "wake"
  /\ wpc' = [wpc EXCEPT ![w] = "idle"]
  /\ UNCHANGED <<fifoVars, wlen, readerVars, delivered>>

(* wake_up_interruptible: every sleeper tests again.                       *)
wake_up(w) ==
  /\ wpc[w] = "wake"
  /\ wpc' = [wpc EXCEPT ![w] = "idle"]
  /\ rpc' = [r \in Readers |-> CASE rpc[r] = "asleep" -> "test"
                                 [] rpc[r] = "pollasleep" -> "polltest"
                                 [] OTHER -> rpc[r]]
  /\ UNCHANGED <<fifoVars, wlen, want, rdata, delivered>>

-----------------------------------------------------------------------------
(* kxo_read.  The reader that sleeps holds read_lock.  The locals of a     *)
(* call that has returned are reset.                                       *)
Goes(r, stage) ==
  /\ rpc' = [rpc EXCEPT ![r] = stage]
  /\ want' = IF stage = "idle" THEN [want EXCEPT ![r] = 0] ELSE want

ReadUnlocked == TRUE                  \* MUTANT: read_lock is not taken
ReadFree == \A r \in Readers : rpc[r] \notin {"copy", "advance", "test", "asleep"}

(* Bound: a user space that is not careful reads by its careless readers   *)
(* alone, and only in counts that split a record or ask for nothing.       *)
WholeCount(count) == count > 0 /\ count % RecordBytes = 0
Takes(r) == careful \/ r \in Careless
Asks(r, count) == Takes(r) /\ (careful <=> WholeCount(count))

kxo_read(r, count) ==
  /\ rpc[r] = "idle" /\ ReadFree /\ Asks(r, count)
  /\ rpc' = [rpc EXCEPT ![r] = "copy"]
  /\ want' = [want EXCEPT ![r] = count]
  /\ UNCHANGED <<fifoVars, writerVars, rdata, delivered>>

(* kfifo_to_user: copies, and moves the index over what it copied, also    *)
(* when the copy stops at a fault and the read fails.                      *)
ReadCopy(r) ==
  LET n == Least(want[r], kfifo_len) IN
  /\ rpc[r] = "copy"
  /\ rdata' = [rdata EXCEPT ![r] = Bytes(n)]
  /\ Goes(r, IF n > 0 THEN "advance" ELSE IF r \in NonBlocking THEN "idle" ELSE "test")
  /\ UNCHANGED <<fifoVars, writerVars, delivered>>

ReadFault(r) ==
  /\ rpc[r] = "copy" /\ ~careful /\ r \in Faulting
  /\ \E n \in 0 .. Least(want[r], kfifo_len) - 1 :
       /\ rdata' = [rdata EXCEPT ![r] = Bytes(n)]
       /\ Goes(r, IF n > 0 THEN "advance" ELSE "idle")
  /\ UNCHANGED <<fifoVars, writerVars, delivered>>

Records(bytes) == [i \in 1 .. Len(bytes) \div RecordBytes |->
                     bytes[(i - 1) * RecordBytes + 1][1]]

ReadAdvanceOver(r) ==                 \* MUTANT: over what was asked for
  /\ rpc[r] = "advance"
  /\ out' = (out + want[r]) % IndexRange
  /\ delivered' = IF careful THEN Records(rdata[r]) ELSE <<>>
  /\ rdata' = [rdata EXCEPT ![r] = <<>>]
  /\ Goes(r, "idle")
  /\ UNCHANGED <<buf, in, writerVars>>

ReadAdvance(r) ==
  /\ rpc[r] = "advance"
  /\ out' = (out + Len(rdata[r])) % IndexRange
  /\ delivered' = IF careful THEN Records(rdata[r]) ELSE <<>>
  /\ rdata' = [rdata EXCEPT ![r] = <<>>]
  /\ Goes(r, "idle")
  /\ UNCHANGED <<buf, in, writerVars>>

(* wait_event_interruptible: the reader is on rx_wait before it tests.  A  *)
(* blocking read of no bytes that finds data copies and tests for ever,    *)
(* holding read_lock, and no signal ends it.                               *)
ReadTest(r) ==
  /\ rpc[r] = "test"
  /\ Goes(r, IF kfifo_len > 0 THEN "copy" ELSE "asleep")
  /\ UNCHANGED <<fifoVars, writerVars, rdata, delivered>>

(* A signal ends the wait with -ERESTARTSYS.                               *)
Interrupted(r) ==
  /\ rpc[r] = "asleep"
  /\ Goes(r, "idle")
  /\ UNCHANGED <<fifoVars, writerVars, rdata, delivered>>

(* kxo_poll puts the caller on rx_wait and tests; it takes no lock.        *)
kxo_poll(r) ==
  /\ rpc[r] = "idle" /\ Takes(r)
  /\ rpc' = [rpc EXCEPT ![r] = "polltest"]
  /\ UNCHANGED <<fifoVars, writerVars, want, rdata, delivered>>

PollTest(r) ==
  /\ rpc[r] = "polltest"
  /\ rpc' = [rpc EXCEPT ![r] = IF kfifo_len > 0 THEN "idle" ELSE "pollasleep"]
  /\ UNCHANGED <<fifoVars, writerVars, want, rdata, delivered>>

-----------------------------------------------------------------------------
Init ==
  /\ careful \in BOOLEAN
  /\ \E w \in Writers : buf = [p \in 0 .. FifoBytes - 1 |-> <<w, 0>>]
  /\ in = 0 /\ out = 0
  /\ wpc = [w \in Writers |-> "idle"] /\ wlen = [w \in Writers |-> 0]
  /\ rpc = [r \in Readers |-> "idle"] /\ want = [r \in Readers |-> 0]
  /\ rdata = [r \in Readers |-> <<>>]
  /\ delivered = <<>>

Next ==
  /\ UNCHANGED careful
  /\ \/ \E w \in Writers :
          LockConsumer(w) \/ produce_board(w) \/ Publish(w) \/ wake_up(w)
     \/ \E r \in Readers :
          \/ \E count \in Counts : kxo_read(r, count)
          \/ ReadCopy(r) \/ ReadFault(r) \/ ReadAdvance(r)
          \/ ReadTest(r) \/ Interrupted(r)
          \/ kxo_poll(r) \/ PollTest(r)

Spec == Init /\ [][Next]_vars

(* A work that has begun goes on, and so does a thread in kxo_read.        *)
Fairness ==
  /\ \A w \in Writers : WF_flowVars(produce_board(w) \/ Publish(w) \/ wake_up(w))
  /\ \A r \in Readers : WF_flowVars(ReadCopy(r) \/ ReadAdvance(r) \/ ReadTest(r))

FairSpec == Spec /\ Fairness

-----------------------------------------------------------------------------
Whole(bytes) ==
  /\ Len(bytes) % RecordBytes = 0
  /\ \A i \in 1 .. Len(bytes) :
       LET at == (i - 1) % RecordBytes
       IN  bytes[i] = <<bytes[i - at][1], at>>

(* While every read is of whole records, the fifo holds whole records      *)
(* and a read returns whole records, each of one producer: a full fifo     *)
(* drops a record or takes all of it, two works never mix their bytes, and *)
(* no byte is overwritten while kxo_read copies it.                        *)
WholeRecords ==
  careful =>
  /\ kfifo_len <= FifoBytes
  /\ Whole(Bytes(kfifo_len))
  /\ \A r \in Readers : Whole(rdata[r])

(* Whatever lengths are read and wherever a read faults, every byte is     *)
(* accounted for: the fifo loses exactly the bytes that the read copied to *)
(* its caller and gains exactly what a work copied in, a record of which   *)
(* only a full fifo cuts off the end, and nothing else touches what lies   *)
(* between the indices (kfifo_to_user, kfifo_in).                          *)
Part(w, n) == [i \in 1 .. n |-> <<w, i - 1>>]
Copying(w) == wpc[w] = "copy" /\ wpc'[w] = "publish"

BytesAccounted ==
  [][LET before == Bytes(kfifo_len)
         after == Bytes(kfifo_len)'
         ended == {r \in Readers : rdata[r] # <<>> /\ rdata'[r] = <<>>}
         published == {w \in Writers : wpc[w] = "publish" /\ wpc'[w] = "wake"}
     IN  /\ \A r \in ended : before = rdata[r] \o after
         /\ \A w \in published : after = before \o Part(w, wlen[w])
         /\ ended \cup published = {} => after = before
         /\ \A w \in Writers :
              Copying(w) => \/ wlen'[w] = RecordBytes
                            \/ kfifo_len + wlen'[w] = FifoBytes]_vars

(* A blocking read of at least one byte that waits while there is data     *)
(* returns: its sleep ends, and nobody takes the data before it, however   *)
(* many others read or poll.                                               *)
ReaderServed ==
  \A r \in Readers \ NonBlocking :
    rpc[r] \in {"test", "asleep"} /\ want[r] > 0 /\ kfifo_len > 0 ~> rpc[r] = "idle"

(* No wakeup is lost: if a reader or poller sleeps although there is data, *)
(* some work has still to call wake_up_interruptible.                      *)
SleeperWoken ==
  kfifo_len > 0 /\ (\E r \in Readers : rpc[r] \in {"asleep", "pollasleep"}) =>
    \E w \in Writers : wpc[w] = "wake"

(* The device delivers the records produced, in order and once, while      *)
(* every read is of whole records.                                         *)
Stream == INSTANCE KxoStream WITH
  queue <- IF careful THEN Records(Bytes(kfifo_len)) ELSE <<>>
StreamSpec == Stream!StreamSpec
=============================================================================
