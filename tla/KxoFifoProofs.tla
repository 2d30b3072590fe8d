----------------------------- MODULE KxoFifoProofs ----------------------------
(***************************************************************************)
(* Proofs about the records on their way to user space, for any number of  *)
(* works and readers and any sizes FifoAssumption allows: no wakeup is     *)
(* lost, every byte is accounted for, and while reads are of whole records *)
(* these stay whole and are delivered in order and once.                   *)
(***************************************************************************)
EXTENDS KxoFifo, TLAPS

-----------------------------------------------------------------------------
(* The invariants.  At(i) is the byte i places behind the reader's index.  *)
At(i) == buf[(out + i) % FifoBytes]

FifoTypes ==
  /\ careful \in BOOLEAN
  /\ in \in 0 .. IndexRange - 1 /\ out \in 0 .. IndexRange - 1
  /\ buf \in [0 .. FifoBytes - 1 -> Writers \X Nat]

WriterTypes ==
  /\ wpc \in [Writers -> {"idle", "copy", "publish", "wake"}]
  /\ wlen \in [Writers -> Nat]

ReaderTypes ==
  /\ rpc \in [Readers -> {"idle", "copy", "advance", "test", "asleep",
                          "polltest", "pollasleep"}]
  /\ want \in [Readers -> Nat]
  /\ rdata \in [Readers -> Seq(Writers \X Nat)]

(* consumer_lock and read_lock have one holder at most.                    *)
Writing(w) == wpc[w] \in {"copy", "publish"}
Reading(r) == rpc[r] \in {"copy", "advance", "test", "asleep"}
LocksInv ==
  /\ \A v, w \in Writers : Writing(v) /\ Writing(w) => v = w
  /\ \A r, s \in Readers : Reading(r) /\ Reading(s) => r = s

(* What was copied in fits, what was copied out is still there.            *)
Room(w) == wpc[w] = "publish" => wlen[w] <= RecordBytes /\ wlen[w] + kfifo_len <= FifoBytes
Taken(r) ==
  IF rpc[r] = "advance"
  THEN Len(rdata[r]) \in 1 .. kfifo_len /\ rdata[r] = Bytes(Len(rdata[r]))
  ELSE rdata[r] = <<>>
FillInv ==
  /\ kfifo_len <= FifoBytes
  /\ \A w \in Writers : Room(w)
  /\ \A r \in Readers : Taken(r)

(* What is copied and not yet published lies behind the bytes published.   *)
Copied(w) == wpc[w] = "publish" => \A i \in 0 .. wlen[w] - 1 : At(kfifo_len + i) = <<w, i>>
DataInv == \A w \in Writers : Copied(w)

(* While reads are of whole records, everything is.                        *)
InRecord(i) == At(i) = <<At(i - (i % RecordBytes))[1], i % RecordBytes>>
WholeInv ==
  careful =>
  /\ kfifo_len % RecordBytes = 0
  /\ \A w \in Writers : wpc[w] = "publish" => wlen[w] \in {0, RecordBytes}
  /\ \A r \in Readers : want[r] % RecordBytes = 0 /\ Len(rdata[r]) % RecordBytes = 0
  /\ \A i \in 0 .. kfifo_len - 1 : InRecord(i)

FifoInv == FifoTypes /\ WriterTypes /\ ReaderTypes /\ LocksInv /\ FillInv

-----------------------------------------------------------------------------
(* Remainders.                                                             *)
LEMMA RemainderOf ==
  ASSUME NEW n \in Nat \ {0}, NEW q \in Int, NEW r \in 0 .. n - 1
  PROVE  (n * q + r) % n = r /\ (n * q + r) \div n = q
OBVIOUS

(* A remainder within one turn above zero, and one below.                  *)
LEMMA Wrapped ==
  ASSUME NEW n \in Nat \ {0}, NEW x \in Int
  PROVE  /\ x \in 0 .. n - 1 => x % n = x
         /\ x + n \in 0 .. n - 1 => x % n = x + n
<1>1. ASSUME x + n \in 0 .. n - 1 PROVE x % n = x + n
  <2>1. x = n * (-1) + (x + n) /\ -1 \in Int
    OBVIOUS
  <2>2. (n * (-1) + (x + n)) % n = x + n
    BY <1>1, <2>1, RemainderOf
  <2> QED
    BY <2>1, <2>2
<1> QED
  BY <1>1

(* Whole turns change no remainder.                                        *)
LEMMA WholeTurns ==
  ASSUME NEW n \in Nat \ {0}, NEW x \in Int, NEW k \in Int
  PROVE  (x + n * k) % n = x % n
<1> DEFINE q == x \div n
           r == x % n
<1>1. q \in Int /\ r \in 0 .. n - 1 /\ x = n * q + r
  OBVIOUS
<1> HIDE DEF q, r
<1>2. x + n * k = n * (q + k) + r
  BY <1>1
<1>3. (n * (q + k) + r) % n = r
  BY <1>1, RemainderOf
<1> QED
  BY <1>2, <1>3 DEF r

(* The indices wrap after a whole number of turns of the buffer.           *)
LEMMA IndexTurns ==
  ASSUME FifoAssumption
  PROVE  /\ FifoBytes \in Nat \ {0} /\ RecordBytes \in Nat \ {0}
         /\ IndexRange \in Nat /\ IndexRange > FifoBytes
         /\ \E k \in Int : IndexRange = FifoBytes * k
         /\ \E k \in Int : FifoBytes = RecordBytes * k
<1>1. /\ FifoBytes \in Nat \ {0} /\ RecordBytes \in Nat \ {0} /\ IndexRange \in Nat \ {0}
      /\ FifoBytes % RecordBytes = 0 /\ IndexRange % FifoBytes = 0 /\ IndexRange > FifoBytes
  BY DEF FifoAssumption
<1>2. ASSUME NEW a \in Nat, NEW n \in Nat \ {0}, a % n = 0
      PROVE  \E k \in Int : a = n * k
  <2>1. a \div n \in Int /\ a = n * (a \div n) + (a % n)
    OBVIOUS
  <2>2. a = n * (a \div n)
    BY <1>2, <2>1
  <2> QED
    BY <2>1, <2>2
<1> QED
  BY <1>1, <1>2

(* How many bytes lie between the two indices.                             *)
LEMMA FillLevel ==
  ASSUME FifoAssumption, NEW a \in 0 .. IndexRange - 1, NEW b \in 0 .. IndexRange - 1
  PROVE  (a - b) % IndexRange = IF a >= b THEN a - b ELSE a - b + IndexRange
<1>1. IndexRange \in Nat \ {0}
  BY DEF FifoAssumption
<1>2. CASE a >= b
  BY <1>1, <1>2
<1>3. CASE a < b
  <2>1. a - b + IndexRange \in 0 .. IndexRange - 1 /\ a - b = IndexRange * (-1) + (a - b + IndexRange)
    BY <1>1, <1>3
  <2>2. (IndexRange * (-1) + (a - b + IndexRange)) % IndexRange = a - b + IndexRange
    BY <1>1, <2>1, RemainderOf
  <2> QED
    BY <1>3, <2>1, <2>2
<1> QED
  BY <1>1, <1>2, <1>3

(* An index that moves on by less than a turn of the indices.              *)
LEMMA IndexMoved ==
  ASSUME FifoAssumption, NEW a \in 0 .. IndexRange - 1, NEW n \in 0 .. FifoBytes
  PROVE  (a + n) % IndexRange = IF a + n < IndexRange THEN a + n ELSE a + n - IndexRange
<1>1. IndexRange \in Nat \ {0} /\ FifoBytes \in Nat /\ FifoBytes < IndexRange
  BY DEF FifoAssumption
<1>2. CASE a + n < IndexRange
  BY <1>1, <1>2
<1>3. CASE a + n >= IndexRange
  <2>1. a + n - IndexRange \in 0 .. IndexRange - 1 /\ a + n = IndexRange * 1 + (a + n - IndexRange)
    BY <1>1, <1>3
  <2>2. (IndexRange * 1 + (a + n - IndexRange)) % IndexRange = a + n - IndexRange
    BY <1>1, <2>1, RemainderOf
  <2> QED
    BY <1>3, <2>1, <2>2
<1> QED
  BY <1>1, <1>2, <1>3

(* A turn of the indices changes no place in the buffer.                   *)
LEMMA PlaceTurns ==
  ASSUME FifoAssumption, NEW x \in Int
  PROVE  /\ (x + IndexRange) % FifoBytes = x % FifoBytes
         /\ (x - IndexRange) % FifoBytes = x % FifoBytes
         /\ x % FifoBytes \in 0 .. FifoBytes - 1
<1>1. PICK k \in Int : IndexRange = FifoBytes * k
  BY IndexTurns
<1>2. FifoBytes \in Nat \ {0} /\ IndexRange \in Nat
  BY IndexTurns
<1>3. (x + FifoBytes * k) % FifoBytes = x % FifoBytes
  BY <1>2, WholeTurns
<1>4. (x + FifoBytes * (-k)) % FifoBytes = x % FifoBytes
  <2>1. -k \in Int
    OBVIOUS
  <2> QED
    BY <1>2, <2>1, WholeTurns
<1>5. x - IndexRange = x + FifoBytes * (-k)
  BY <1>1, <1>2
<1> QED
  BY <1>1, <1>2, <1>3, <1>4, <1>5

(* Of a place that is i behind the reader's index, kfifo_in finds how far  *)
(* it is behind the writer's.                                              *)
LEMMA PlaceFrom ==
  ASSUME FifoAssumption, NEW x \in Int, NEW y \in Int
  PROVE  ((x % FifoBytes) - y) % FifoBytes = (x - y) % FifoBytes
<1> DEFINE q == x \div FifoBytes
           r == x % FifoBytes
<1>1. FifoBytes \in Nat \ {0}
  BY DEF FifoAssumption
<1>2. q \in Int /\ r \in Int /\ x = FifoBytes * q + r
  BY <1>1
<1> HIDE DEF q, r
<1>3. r - y = (x - y) + FifoBytes * (-q)
  BY <1>1, <1>2
<1>4. ((x - y) + FifoBytes * (-q)) % FifoBytes = (x - y) % FifoBytes
  <2>1. -q \in Int /\ x - y \in Int
    BY <1>2
  <2> QED
    BY <1>1, <2>1, WholeTurns
<1> QED
  BY <1>3, <1>4 DEF r

-----------------------------------------------------------------------------
(* The level of the fifo and its bytes in a state.                         *)
LEMMA Level ==
  ASSUME FifoAssumption, FifoTypes
  PROVE  /\ kfifo_len \in 0 .. IndexRange - 1
         /\ kfifo_len = IF in >= out THEN in - out ELSE in - out + IndexRange
<1>1. kfifo_len = IF in >= out THEN in - out ELSE in - out + IndexRange
  BY FillLevel DEF FifoTypes, kfifo_len
<1>2. IndexRange \in Nat \ {0} /\ in \in 0 .. IndexRange - 1 /\ out \in 0 .. IndexRange - 1
  BY DEF FifoAssumption, FifoTypes
<1> QED
  BY <1>1, <1>2

(* The oldest n bytes are those at places 0 to n - 1.                      *)
LEMMA BytesAre ==
  ASSUME FifoAssumption, FifoTypes, NEW n \in Nat
  PROVE  /\ Bytes(n) \in Seq(Writers \X Nat) /\ Len(Bytes(n)) = n
         /\ \A i \in 1 .. n : Bytes(n)[i] = At(i - 1)
         /\ \A i \in Int : At(i) \in Writers \X Nat
<1>1. out \in Int /\ FifoBytes \in Nat \ {0} /\ buf \in [0 .. FifoBytes - 1 -> Writers \X Nat]
  BY DEF FifoAssumption, FifoTypes
<1>2. ASSUME NEW i \in Int PROVE At(i) \in Writers \X Nat
  <2>1. (out + i) % FifoBytes \in 0 .. FifoBytes - 1
    BY <1>1
  <2> QED
    BY <1>1, <2>1 DEF At
<1>3. ASSUME NEW i \in 1 .. n PROVE buf[(out + i - 1) % FifoBytes] = At(i - 1)
  <2>1. out + i - 1 = out + (i - 1)
    BY <1>1
  <2> QED
    BY <2>1 DEF At
<1>4. Bytes(n) = [i \in 1 .. n |-> At(i - 1)]
  BY <1>3 DEF Bytes
<1>5. \A i \in 1 .. n : At(i - 1) \in Writers \X Nat
  BY <1>2
<1> QED
  BY <1>2, <1>4, <1>5

(* A place i behind the reader's index is i less the level behind the      *)
(* writer's.                                                               *)
LEMMA Behind ==
  ASSUME FifoAssumption, FifoTypes, NEW i \in Int
  PROVE  (((out + i) % FifoBytes) - in) % FifoBytes = (i - kfifo_len) % FifoBytes
<1>1. /\ kfifo_len \in Int
      /\ kfifo_len = IF in >= out THEN in - out ELSE in - out + IndexRange
      /\ in \in Int /\ out \in Int /\ IndexRange \in Int
  BY Level DEF FifoAssumption, FifoTypes
<1>2. (((out + i) % FifoBytes) - in) % FifoBytes = (out + i - in) % FifoBytes
  <2>1. PICK x \in Int : x = out + i
    BY <1>1
  <2>2. ((x % FifoBytes) - in) % FifoBytes = (x - in) % FifoBytes
    BY <1>1, PlaceFrom
  <2>3. x - in = out + i - in
    BY <1>1, <2>1
  <2> QED
    BY <2>1, <2>2, <2>3
<1>3. CASE in >= out
  <2>1. out + i - in = i - kfifo_len
    BY <1>1, <1>3
  <2> QED
    BY <1>2, <2>1
<1>4. CASE in < out
  <2>1. i - kfifo_len = (out + i - in) - IndexRange /\ out + i - in \in Int
    BY <1>1, <1>4
  <2> QED
    BY <1>2, <2>1, PlaceTurns
<1> QED
  BY <1>1, <1>3, <1>4

(* What a step leaves alone.                                               *)
LEMMA FifoKept ==
  ASSUME UNCHANGED fifoVars
  PROVE  /\ kfifo_len' = kfifo_len
         /\ \A i : At(i)' = At(i)
         /\ \A n : Bytes(n)' = Bytes(n)
BY DEF fifoVars, kfifo_len, At, Bytes

(* kfifo_in copies a record, or what fits of it, behind all that is there. *)
LEMMA ProduceCopies ==
  ASSUME FifoAssumption, FifoTypes, kfifo_len <= FifoBytes, NEW w \in Writers, produce_board(w)
  PROVE  LET n == Least(RecordBytes, FifoBytes - kfifo_len)
         IN  /\ n \in Nat /\ n <= RecordBytes /\ n + kfifo_len <= FifoBytes
             /\ wlen' = [wlen EXCEPT ![w] = n]
             /\ buf' \in [0 .. FifoBytes - 1 -> Writers \X Nat]
             /\ kfifo_len' = kfifo_len
             /\ \A i \in 0 .. kfifo_len - 1 : At(i)' = At(i)
             /\ \A i \in 0 .. n - 1 : At(kfifo_len + i)' = <<w, i>>
<1> DEFINE n == Least(RecordBytes, FifoBytes - kfifo_len)
           far(p) == (p - in) % FifoBytes
<1>1. /\ FifoBytes \in Nat \ {0} /\ RecordBytes \in Nat \ {0} /\ kfifo_len \in Nat
      /\ in \in Int /\ out \in Int /\ buf \in [0 .. FifoBytes - 1 -> Writers \X Nat]
  BY Level DEF FifoAssumption, FifoTypes
<1>2. n \in Nat /\ n <= RecordBytes /\ n + kfifo_len <= FifoBytes
  BY <1>1 DEF Least
<1>3. /\ buf' = [p \in 0 .. FifoBytes - 1 |-> IF far(p) < n THEN <<w, far(p)>> ELSE buf[p]]
      /\ wlen' = [wlen EXCEPT ![w] = n] /\ in' = in /\ out' = out
  BY <1>1 DEF produce_board
<1> HIDE DEF n
<1>4. \A p \in 0 .. FifoBytes - 1 : far(p) \in Nat
  BY <1>1
<1>5. buf' \in [0 .. FifoBytes - 1 -> Writers \X Nat]
  BY <1>1, <1>3, <1>4
<1>6. kfifo_len' = kfifo_len
  BY <1>3 DEF kfifo_len
<1>7. ASSUME NEW i \in Int
      PROVE  LET p == (out + i) % FifoBytes
             IN  At(i)' = IF far(p) < n THEN <<w, far(p)>> ELSE At(i)
  <2>1. (out + i) % FifoBytes \in 0 .. FifoBytes - 1
    BY <1>1
  <2> QED
    BY <1>3, <2>1 DEF At
<1>8. \A i \in Int : far((out + i) % FifoBytes) = (i - kfifo_len) % FifoBytes
  BY Behind
<1> HIDE DEF far
<1>9. ASSUME NEW i \in 0 .. kfifo_len - 1 PROVE At(i)' = At(i)
  <2>1. /\ i - kfifo_len + FifoBytes \in 0 .. FifoBytes - 1
        /\ i - kfifo_len \in Int /\ i \in Int
        /\ ~(i - kfifo_len + FifoBytes < n)
    BY <1>1, <1>2
  <2>2. (i - kfifo_len) % FifoBytes = i - kfifo_len + FifoBytes
    BY <1>1, <2>1, Wrapped
  <2>3. ~(far((out + i) % FifoBytes) < n)
    BY <1>8, <2>1, <2>2
  <2> QED
    BY <1>7, <2>1, <2>3
<1>10. ASSUME NEW i \in 0 .. n - 1 PROVE At(kfifo_len + i)' = <<w, i>>
  <2>1. i \in Int /\ i \in 0 .. FifoBytes - 1 /\ i < n /\ (kfifo_len + i) - kfifo_len = i
    BY <1>1, <1>2
  <2>2. i % FifoBytes = i
    BY <1>1, <2>1, Wrapped
  <2>3. kfifo_len + i \in Int
    BY <1>1, <2>1
  <2>4. far((out + (kfifo_len + i)) % FifoBytes) = i
    BY <1>8, <2>1, <2>2, <2>3
  <2>5. PICK x \in Int : x = kfifo_len + i
    BY <2>3
  <2>6. At(x)' = <<w, i>>
    BY <1>7, <2>1, <2>4, <2>5
  <2>7. (kfifo_len + i)' = x
    BY <1>6, <2>5
  <2> QED
    BY <2>6, <2>7
<1> QED
  BY <1>2, <1>3, <1>5, <1>6, <1>9, <1>10 DEF n

(* __kfifo_in's second half: what was copied counts.                       *)
LEMMA PublishAdds ==
  ASSUME FifoAssumption, FifoTypes, NEW w \in Writers, wlen[w] \in Nat,
         wlen[w] + kfifo_len <= FifoBytes, Publish(w)
  PROVE  /\ in' \in 0 .. IndexRange - 1 /\ kfifo_len' = kfifo_len + wlen[w]
         /\ \A i : At(i)' = At(i)
         /\ \A n : Bytes(n)' = Bytes(n)
<1>1. /\ FifoBytes \in Nat /\ IndexRange \in Nat \ {0} /\ IndexRange > FifoBytes
      /\ kfifo_len \in Nat /\ in \in 0 .. IndexRange - 1 /\ out \in 0 .. IndexRange - 1
      /\ kfifo_len = IF in >= out THEN in - out ELSE in - out + IndexRange
  BY Level DEF FifoAssumption, FifoTypes
<1>2. wlen[w] \in 0 .. FifoBytes
  BY <1>1
<1>3. in' = (in + wlen[w]) % IndexRange /\ out' = out /\ buf' = buf
  BY DEF Publish
<1>4. in' = IF in + wlen[w] < IndexRange THEN in + wlen[w] ELSE in + wlen[w] - IndexRange
  BY <1>1, <1>2, <1>3, IndexMoved
<1>5. in' \in 0 .. IndexRange - 1
  BY <1>1, <1>2, <1>4
<1>6. kfifo_len' = IF in' >= out THEN in' - out ELSE in' - out + IndexRange
  BY <1>1, <1>3, <1>5, FillLevel DEF kfifo_len
<1>7. kfifo_len' = kfifo_len + wlen[w]
  BY <1>1, <1>2, <1>4, <1>5, <1>6
<1> QED
  BY <1>3, <1>5, <1>7 DEF At, Bytes

(* __kfifo_to_user's second half: what was copied out makes room.          *)
LEMMA AdvanceTakes ==
  ASSUME FifoAssumption, FifoTypes, kfifo_len <= FifoBytes, NEW r \in Readers,
         Len(rdata[r]) \in 0 .. kfifo_len, ReadAdvance(r)
  PROVE  /\ out' \in 0 .. IndexRange - 1 /\ kfifo_len' = kfifo_len - Len(rdata[r])
         /\ \A i \in Int : At(i)' = At(Len(rdata[r]) + i)
<1> DEFINE n == Len(rdata[r])
<1>1. /\ FifoBytes \in Nat \ {0} /\ IndexRange \in Nat \ {0} /\ IndexRange > FifoBytes
      /\ kfifo_len \in Nat /\ in \in 0 .. IndexRange - 1 /\ out \in 0 .. IndexRange - 1
      /\ kfifo_len = IF in >= out THEN in - out ELSE in - out + IndexRange
  BY Level DEF FifoAssumption, FifoTypes
<1>2. n \in 0 .. FifoBytes
  BY <1>1
<1>3. out' = (out + n) % IndexRange /\ in' = in /\ buf' = buf
  BY DEF ReadAdvance
<1>0. n \in 0 .. kfifo_len
  OBVIOUS
<1> HIDE DEF n
<1>4. out' = IF out + n < IndexRange THEN out + n ELSE out + n - IndexRange
  BY <1>1, <1>2, <1>3, IndexMoved
<1>5. out' \in 0 .. IndexRange - 1
  BY <1>1, <1>2, <1>4
<1>6. kfifo_len' = IF in >= out' THEN in - out' ELSE in - out' + IndexRange
  BY <1>1, <1>3, <1>5, FillLevel DEF kfifo_len
<1>7. kfifo_len' = kfifo_len - n
  BY <1>0, <1>1, <1>2, <1>4, <1>5, <1>6
<1>8. ASSUME NEW i \in Int PROVE At(i)' = At(n + i)
  <2>1. (out' + i) % FifoBytes = (out + (n + i)) % FifoBytes
    <3>1. CASE out + n < IndexRange
      <4>1. out' + i = out + (n + i)
        BY <1>1, <1>2, <1>4, <3>1
      <4> QED
        BY <4>1
    <3>2. CASE out + n >= IndexRange
      <4>1. out' + i = (out + (n + i)) - IndexRange /\ out + (n + i) \in Int
        BY <1>1, <1>2, <1>4, <3>2
      <4> QED
        BY <4>1, PlaceTurns
    <3> QED
      BY <1>1, <1>2, <3>1, <3>2
  <2> QED
    BY <1>3, <2>1 DEF At
<1> QED
  BY <1>5, <1>7, <1>8 DEF n

-----------------------------------------------------------------------------
(* What the steps do to the invariants.  Most steps only move a work or a  *)
(* reader on.                                                              *)
Quiet ==
  /\ UNCHANGED <<fifoVars, wlen, rdata, careful>>
  /\ \A w \in Writers : wpc'[w] = "publish" <=> wpc[w] = "publish"
  /\ \A r \in Readers :
       /\ rpc'[r] = "advance" <=> rpc[r] = "advance"
       /\ careful /\ want[r] % RecordBytes = 0 => want'[r] % RecordBytes = 0

Moves ==
  \/ \E w \in Writers : LockConsumer(w) \/ wake_up(w)
  \/ \E r \in Readers :
       \/ \E count \in Counts : kxo_read(r, count)
       \/ ReadTest(r) \/ Interrupted(r) \/ kxo_poll(r) \/ PollTest(r)

(* A copy to user space takes some of the oldest bytes; of whole records   *)
(* it takes whole records.                                                 *)
Copies(r, n, stage) ==
  /\ rpc[r] = "copy"
  /\ rdata' = [rdata EXCEPT ![r] = Bytes(n)]
  /\ rpc' = [rpc EXCEPT ![r] = stage]
  /\ IF n > 0 THEN stage = "advance" ELSE stage \in {"idle", "test"}
  /\ want' = want \/ want' = [want EXCEPT ![r] = 0]
  /\ careful => n = want[r] \/ n = kfifo_len
  /\ UNCHANGED <<fifoVars, writerVars, delivered, careful>>

(* kfifo_to_user's first half, whole or up to a fault.                     *)
LEMMA ReadCopies ==
  ASSUME FifoAssumption, FifoTypes, ReaderTypes, NEW r \in Readers,
         ReadCopy(r) \/ ReadFault(r), UNCHANGED careful
  PROVE  \E n \in 0 .. kfifo_len, stage \in {"idle", "test", "advance"} : Copies(r, n, stage)
<1>1. kfifo_len \in Nat /\ want[r] \in Nat
  BY Level DEF ReaderTypes
<1> DEFINE most == Least(want[r], kfifo_len)
<1>2. most \in 0 .. kfifo_len /\ (most = want[r] \/ most = kfifo_len)
  BY <1>1 DEF Least
<1>3. CASE ReadCopy(r)
  <2> DEFINE stage == IF most > 0 THEN "advance" ELSE IF r \in NonBlocking THEN "idle" ELSE "test"
  <2>1. Copies(r, most, stage)
    BY <1>2, <1>3 DEF ReadCopy, Goes, Copies
  <2> HIDE DEF most
  <2>2. stage \in {"idle", "test", "advance"}
    OBVIOUS
  <2> HIDE DEF stage
  <2> QED
    BY <1>2, <2>1, <2>2
<1>4. CASE ReadFault(r)
  <2>1. PICK n \in 0 .. most - 1 :
          /\ rdata' = [rdata EXCEPT ![r] = Bytes(n)]
          /\ Goes(r, IF n > 0 THEN "advance" ELSE "idle")
    BY <1>4 DEF ReadFault
  <2> DEFINE stage == IF n > 0 THEN "advance" ELSE "idle"
  <2>2. Copies(r, n, stage)
    BY <1>4, <2>1 DEF ReadFault, Goes, Copies
  <2> HIDE DEF most
  <2>3. n \in 0 .. kfifo_len /\ stage \in {"idle", "test", "advance"}
    BY <1>1, <1>2
  <2> HIDE DEF stage
  <2> QED
    BY <2>2, <2>3
<1> QED
  BY <1>3, <1>4

(* Every step is one of these.                                             *)
Fills(w) == produce_board(w) /\ UNCHANGED careful
Publishes(w) == Publish(w) /\ UNCHANGED careful
Advances(r) == ReadAdvance(r) /\ UNCHANGED careful

(* A step moves somebody on, or is one half of a copy.                     *)
LEMMA StepIs ==
  ASSUME FifoAssumption, FifoTypes, ReaderTypes, Next
  PROVE  \/ Moves /\ UNCHANGED <<careful, delivered>>
         \/ \E w \in Writers : Fills(w) \/ Publishes(w)
         \/ \E r \in Readers :
              \/ Advances(r)
              \/ \E n \in 0 .. kfifo_len, stage \in {"idle", "test", "advance"} :
                   Copies(r, n, stage)
<1>1. careful' = careful
  BY DEF Next
<1>2. ASSUME NEW w \in Writers,
             LockConsumer(w) \/ produce_board(w) \/ Publish(w) \/ wake_up(w)
      PROVE  (Moves /\ delivered' = delivered) \/ Fills(w) \/ Publishes(w)
  BY <1>1, <1>2 DEF Moves, Fills, Publishes, LockConsumer, wake_up
<1>3. ASSUME NEW r \in Readers,
             \/ \E count \in Counts : kxo_read(r, count)
             \/ ReadTest(r) \/ Interrupted(r) \/ kxo_poll(r) \/ PollTest(r)
      PROVE  Moves /\ delivered' = delivered
  BY <1>3 DEF Moves, kxo_read, ReadTest, Interrupted, kxo_poll, PollTest
<1>4. ASSUME NEW r \in Readers, ReadCopy(r) \/ ReadFault(r)
      PROVE  \E n \in 0 .. kfifo_len, stage \in {"idle", "test", "advance"} : Copies(r, n, stage)
  BY <1>1, <1>4, ReadCopies
<1> QED
  BY <1>1, <1>2, <1>3, <1>4 DEF Next, Advances

(* A step that only moves somebody on touches no byte and no index.        *)
LEMMA MovesQuiet ==
  ASSUME FifoAssumption, WriterTypes, ReaderTypes, Moves, UNCHANGED careful
  PROVE  Quiet
<1>1. ASSUME NEW w \in Writers, LockConsumer(w) PROVE Quiet
  BY <1>1 DEF LockConsumer, Quiet, readerVars, WriterTypes
<1>2. ASSUME NEW w \in Writers, wake_up(w) PROVE Quiet
  BY <1>2 DEF wake_up, Quiet, WriterTypes, ReaderTypes
<1>3. ASSUME NEW r \in Readers, NEW count \in Counts, kxo_read(r, count) PROVE Quiet
  <2>1. careful => count % RecordBytes = 0
    BY <1>3 DEF kxo_read, Asks, WholeCount
  <2>2. \A s \in Readers : careful /\ want[s] % RecordBytes = 0 => want'[s] % RecordBytes = 0
    BY <1>3, <2>1 DEF kxo_read, ReaderTypes
  <2> QED
    BY <1>3, <2>2 DEF kxo_read, Quiet, writerVars, ReaderTypes
<1>4. ASSUME NEW r \in Readers, ReadTest(r) \/ Interrupted(r) PROVE Quiet
  <2>1. 0 % RecordBytes = 0
    BY DEF FifoAssumption
  <2>2. \A s \in Readers : careful /\ want[s] % RecordBytes = 0 => want'[s] % RecordBytes = 0
    BY <1>4, <2>1 DEF ReadTest, Interrupted, Goes, ReaderTypes
  <2> QED
    BY <1>4, <2>2 DEF ReadTest, Interrupted, Goes, Quiet, writerVars, ReaderTypes
<1>5. ASSUME NEW r \in Readers, kxo_poll(r) \/ PollTest(r) PROVE Quiet
  BY <1>5 DEF kxo_poll, PollTest, Quiet, writerVars, ReaderTypes
<1> QED
  BY <1>1, <1>2, <1>3, <1>4, <1>5 DEF Moves

(* A number that is kept or dropped.                                       *)
LEMMA Dropped ==
  ASSUME NEW S, NEW f \in [S -> Nat], NEW g, NEW s \in S, g = f \/ g = [f EXCEPT ![s] = 0]
  PROVE  g \in [S -> Nat]
<1>1. CASE g = f
  BY <1>1
<1>2. CASE g = [f EXCEPT ![s] = 0]
  BY <1>2
<1> QED
  BY <1>1, <1>2

(* Types and locks.                                                        *)
LEMMA MovesTypes ==
  ASSUME FifoAssumption, FifoTypes, WriterTypes, ReaderTypes, LocksInv,
         Moves, UNCHANGED careful
  PROVE  FifoTypes' /\ WriterTypes' /\ ReaderTypes' /\ LocksInv'
<1>1. Quiet
  BY MovesQuiet
<1>2. FifoTypes'
  BY <1>1 DEF Quiet, FifoTypes, fifoVars
<1>3. ASSUME NEW w \in Writers, LockConsumer(w) PROVE WriterTypes' /\ ReaderTypes' /\ LocksInv'
  <2>1. WriterTypes' /\ ReaderTypes'
    BY <1>3 DEF LockConsumer, WriterTypes, ReaderTypes, readerVars
  <2>2. LocksInv'
    BY <1>3 DEF LockConsumer, ConsumerFree, LocksInv, Writing, Reading, WriterTypes, readerVars
  <2> QED
    BY <2>1, <2>2
<1>4. ASSUME NEW w \in Writers, wake_up(w) PROVE WriterTypes' /\ ReaderTypes' /\ LocksInv'
  <2>1. WriterTypes' /\ ReaderTypes'
    BY <1>4 DEF wake_up, WriterTypes, ReaderTypes
  <2>2. LocksInv'
    BY <1>4 DEF wake_up, LocksInv, Writing, Reading, WriterTypes, ReaderTypes
  <2> QED
    BY <2>1, <2>2
<1>5. ASSUME NEW r \in Readers, NEW count \in Counts, kxo_read(r, count)
      PROVE  WriterTypes' /\ ReaderTypes' /\ LocksInv'
  <2>1. count \in Nat
    BY DEF FifoAssumption
  <2>2. WriterTypes' /\ ReaderTypes'
    BY <1>5, <2>1 DEF kxo_read, WriterTypes, ReaderTypes, writerVars
  <2>3. LocksInv'
    BY <1>5 DEF kxo_read, ReadFree, LocksInv, Writing, Reading, ReaderTypes, writerVars
  <2> QED
    BY <2>2, <2>3
<1>6. ASSUME NEW r \in Readers, ReadTest(r) \/ Interrupted(r) \/ kxo_poll(r) \/ PollTest(r)
      PROVE  WriterTypes' /\ ReaderTypes' /\ LocksInv'
  <2>1. WriterTypes' /\ rdata' = rdata
    BY <1>6 DEF ReadTest, Interrupted, kxo_poll, PollTest, WriterTypes, writerVars
  <2>2. want' = want \/ want' = [want EXCEPT ![r] = 0]
    BY <1>6 DEF ReadTest, Interrupted, kxo_poll, PollTest, Goes
  <2>3. \E stage \in {"idle", "copy", "asleep", "polltest", "pollasleep"} :
          rpc' = [rpc EXCEPT ![r] = stage]
    BY <1>6 DEF ReadTest, Interrupted, kxo_poll, PollTest, Goes
  <2>4. want' \in [Readers -> Nat]
    BY <2>2, Dropped DEF ReaderTypes
  <2>6. rpc' \in [Readers -> {"idle", "copy", "advance", "test", "asleep",
                              "polltest", "pollasleep"}]
    BY <2>3 DEF ReaderTypes
  <2>7. ReaderTypes'
    BY <2>1, <2>4, <2>6 DEF ReaderTypes
  <2>5. LocksInv'
    <3>1. wpc' = wpc
      BY <1>6 DEF ReadTest, Interrupted, kxo_poll, PollTest, writerVars
    <3>2. ASSUME NEW s \in Readers, Reading(s)' PROVE Reading(s)
      BY <1>6, <3>2 DEF ReadTest, Interrupted, kxo_poll, PollTest, Goes, Reading, ReaderTypes
    <3> QED
      BY <3>1, <3>2 DEF LocksInv, Writing
  <2> QED
    BY <2>1, <2>5, <2>7
<1> QED
  BY <1>2, <1>3, <1>4, <1>5, <1>6 DEF Moves

(* Copying a record in, under consumer_lock.                               *)
LEMMA FillsTypes ==
  ASSUME FifoAssumption, FifoInv, NEW w \in Writers, Fills(w)
  PROVE  FifoTypes' /\ WriterTypes' /\ ReaderTypes' /\ LocksInv'
<1> USE DEF FifoInv, FillInv
<1> DEFINE n == Least(RecordBytes, FifoBytes - kfifo_len)
<1>1. n \in Nat /\ buf' \in [0 .. FifoBytes - 1 -> Writers \X Nat]
      /\ wlen' = [wlen EXCEPT ![w] = n]
  BY ProduceCopies DEF Fills
<1> HIDE DEF n
<1>2. /\ wpc[w] = "copy" /\ wpc' = [wpc EXCEPT ![w] = "publish"]
      /\ UNCHANGED <<in, out, readerVars, delivered, careful>>
  BY DEF Fills, produce_board
<1>3. FifoTypes'
  BY <1>1, <1>2 DEF FifoTypes
<1>4. WriterTypes' /\ ReaderTypes'
  BY <1>1, <1>2 DEF WriterTypes, ReaderTypes, readerVars
<1>5. LocksInv'
  BY <1>2 DEF LocksInv, Writing, Reading, WriterTypes, readerVars
<1> QED
  BY <1>3, <1>4, <1>5

(* Moving the writer's index, and letting go of consumer_lock.             *)
LEMMA PublishesTypes ==
  ASSUME FifoAssumption, FifoInv, NEW w \in Writers, Publishes(w)
  PROVE  FifoTypes' /\ WriterTypes' /\ ReaderTypes' /\ LocksInv'
<1> USE DEF FifoInv, FillInv
<1>1. /\ wpc[w] = "publish" /\ wpc' = [wpc EXCEPT ![w] = "wake"]
      /\ wlen' = [wlen EXCEPT ![w] = 0]
      /\ UNCHANGED <<buf, out, readerVars, delivered, careful>>
  BY DEF Publishes, Publish
<1>2. in' \in 0 .. IndexRange - 1
  BY <1>1, PublishAdds DEF Publishes, Room, WriterTypes
<1>3. FifoTypes'
  BY <1>1, <1>2 DEF FifoTypes
<1>4. WriterTypes' /\ ReaderTypes'
  BY <1>1 DEF WriterTypes, ReaderTypes, readerVars
<1>5. LocksInv'
  BY <1>1 DEF LocksInv, Writing, Reading, WriterTypes, readerVars
<1> QED
  BY <1>3, <1>4, <1>5

(* Copying bytes out, under read_lock.                                     *)
LEMMA CopiesTypes ==
  ASSUME FifoAssumption, FifoInv, NEW r \in Readers, NEW n \in 0 .. kfifo_len,
         NEW stage \in {"idle", "test", "advance"}, Copies(r, n, stage)
  PROVE  FifoTypes' /\ WriterTypes' /\ ReaderTypes' /\ LocksInv'
<1> USE DEF FifoInv
<1>1. n \in Nat /\ Bytes(n) \in Seq(Writers \X Nat)
  BY Level, BytesAre
<1>2. FifoTypes' /\ WriterTypes'
  BY DEF Copies, FifoTypes, WriterTypes, fifoVars, writerVars
<1>3. ReaderTypes'
  <2>1. rpc' \in [Readers -> {"idle", "copy", "advance", "test", "asleep",
                              "polltest", "pollasleep"}]
    BY DEF Copies, ReaderTypes
  <2>2. want' \in [Readers -> Nat]
    <3>1. want' = want \/ want' = [want EXCEPT ![r] = 0]
      BY DEF Copies
    <3> QED
      BY <3>1, Dropped DEF ReaderTypes
  <2>3. rdata' \in [Readers -> Seq(Writers \X Nat)]
    <3>1. rdata \in [Readers -> Seq(Writers \X Nat)] /\ rdata' = [rdata EXCEPT ![r] = Bytes(n)]
      BY DEF Copies, ReaderTypes
    <3> QED
      BY <1>1, <3>1
  <2> QED
    BY <2>1, <2>2, <2>3 DEF ReaderTypes
<1>4. LocksInv'
  BY DEF Copies, LocksInv, Writing, Reading, ReaderTypes, writerVars
<1> QED
  BY <1>2, <1>3, <1>4

(* Moving the reader's index, and letting go of read_lock.                 *)
LEMMA AdvancesTypes ==
  ASSUME FifoAssumption, FifoInv, NEW r \in Readers, Advances(r)
  PROVE  FifoTypes' /\ WriterTypes' /\ ReaderTypes' /\ LocksInv'
<1> USE DEF FifoInv, FillInv
<1>1. /\ rpc[r] = "advance" /\ rpc' = [rpc EXCEPT ![r] = "idle"]
      /\ rdata' = [rdata EXCEPT ![r] = <<>>] /\ want' = [want EXCEPT ![r] = 0]
      /\ UNCHANGED <<buf, in, writerVars, careful>>
  BY DEF Advances, ReadAdvance, Goes
<1>2. Len(rdata[r]) \in 0 .. kfifo_len
  BY <1>1, Level DEF Taken
<1>3. out' \in 0 .. IndexRange - 1
  BY <1>2, AdvanceTakes DEF Advances
<1>4. FifoTypes' /\ WriterTypes'
  BY <1>1, <1>3 DEF FifoTypes, WriterTypes, writerVars
<1>5. ReaderTypes'
  BY <1>1 DEF ReaderTypes
<1>6. LocksInv'
  BY <1>1 DEF LocksInv, Writing, Reading, ReaderTypes, writerVars
<1> QED
  BY <1>4, <1>5, <1>6

-----------------------------------------------------------------------------
(* Fill levels, bytes and records.  A step that only moves somebody on     *)
(* keeps all of it.                                                        *)
LEMMA MovesKeep ==
  ASSUME FifoAssumption, WriterTypes, ReaderTypes, Moves, UNCHANGED careful
  PROVE  (FillInv => FillInv') /\ (DataInv => DataInv') /\ (WholeInv => WholeInv')
<1>1. Quiet
  BY MovesQuiet
<1>2. /\ kfifo_len' = kfifo_len /\ wlen' = wlen /\ rdata' = rdata /\ careful' = careful
      /\ buf' = buf /\ out' = out
  BY <1>1 DEF Quiet, fifoVars, kfifo_len
<1>3. FillInv => FillInv'
  BY <1>1, <1>2 DEF Quiet, FillInv, Room, Taken, Bytes
<1>4. DataInv => DataInv'
  BY <1>1, <1>2 DEF Quiet, DataInv, Copied, At
<1>5. WholeInv => WholeInv'
  <2>0. careful' <=> careful
    BY <1>2
  <2> SUFFICES ASSUME WholeInv, careful PROVE WholeInv'
    BY <2>0 DEF WholeInv
  <2>1. /\ kfifo_len' % RecordBytes = 0
        /\ \A w \in Writers : wpc'[w] = "publish" => wlen'[w] \in {0, RecordBytes}
    BY <1>1, <1>2 DEF Quiet, WholeInv
  <2>2. \A r \in Readers : want'[r] % RecordBytes = 0 /\ Len(rdata'[r]) % RecordBytes = 0
    BY <1>1, <1>2 DEF Quiet, WholeInv
  <2>3. \A i \in 0 .. kfifo_len' - 1 : InRecord(i)'
    BY <1>2 DEF WholeInv, InRecord, At
  <2> QED
    BY <2>1, <2>2, <2>3 DEF WholeInv
<1> QED
  BY <1>3, <1>4, <1>5

(* The bytes that a step leaves where they are.                            *)
LEMMA BytesKept ==
  ASSUME FifoAssumption, FifoTypes, NEW n \in Nat, out' = out,
         \A i \in 0 .. n - 1 : At(i)' = At(i)
  PROVE  Bytes(n)' = Bytes(n)
<1>1. out \in Int
  BY DEF FifoTypes
<1>2. ASSUME NEW i \in 1 .. n
      PROVE  buf'[(out' + i - 1) % FifoBytes] = buf[(out + i - 1) % FifoBytes]
  <2>1. i - 1 \in 0 .. n - 1 /\ out + i - 1 = out + (i - 1)
    BY <1>1
  <2>2. buf'[(out' + (i - 1)) % FifoBytes] = buf[(out + (i - 1)) % FifoBytes]
    BY <2>1 DEF At
  <2> QED
    BY <2>1, <2>2
<1> QED
  BY <1>2 DEF Bytes

(* The bytes of the next state.                                            *)
LEMMA BytesThen ==
  ASSUME FifoAssumption, FifoTypes', NEW n \in Nat
  PROVE  /\ Bytes(n)' \in Seq(Writers \X Nat) /\ Len(Bytes(n)') = n
         /\ \A i \in 1 .. n : Bytes(n)'[i] = At(i - 1)'
<1>1. out' \in Int /\ FifoBytes \in Nat \ {0} /\ buf' \in [0 .. FifoBytes - 1 -> Writers \X Nat]
  BY DEF FifoAssumption, FifoTypes
<1>2. ASSUME NEW i \in 1 .. n
      PROVE  /\ buf'[(out' + i - 1) % FifoBytes] = At(i - 1)'
             /\ At(i - 1)' \in Writers \X Nat
  <2>1. out' + i - 1 = out' + (i - 1)
    BY <1>1
  <2>2. PICK x \in Int : x = out' + (i - 1)
    <3>1. out' + (i - 1) \in Int
      BY <1>1
    <3> QED
      BY <3>1
  <2>3. x % FifoBytes \in 0 .. FifoBytes - 1
    BY <1>1
  <2> QED
    BY <1>1, <2>1, <2>2, <2>3 DEF At
<1>3. Bytes(n)' = [i \in 1 .. n |-> At(i - 1)']
  BY <1>2 DEF Bytes
<1> QED
  BY <1>2, <1>3

(* Copying a record in disturbs none of the bytes that are there.          *)
LEMMA FillsKeep ==
  ASSUME FifoAssumption, FifoInv, NEW w \in Writers, Fills(w)
  PROVE  FillInv' /\ (DataInv => DataInv')
<1> USE DEF FifoInv
<1> DEFINE n == Least(RecordBytes, FifoBytes - kfifo_len)
<1>1. /\ n \in Nat /\ n <= RecordBytes /\ n + kfifo_len <= FifoBytes
      /\ wlen' = [wlen EXCEPT ![w] = n] /\ kfifo_len' = kfifo_len
      /\ \A i \in 0 .. kfifo_len - 1 : At(i)' = At(i)
      /\ \A i \in 0 .. n - 1 : At(kfifo_len + i)' = <<w, i>>
  BY ProduceCopies DEF Fills, FillInv
<1> HIDE DEF n
<1>2. /\ wpc[w] = "copy" /\ wpc' = [wpc EXCEPT ![w] = "publish"]
      /\ UNCHANGED <<in, out, readerVars, delivered, careful>>
  BY DEF Fills, produce_board
<1>3. kfifo_len \in Nat /\ out' = out /\ rdata' = rdata /\ rpc' = rpc
  BY <1>2, Level DEF readerVars
<1>4. FillInv'
  <2>1. ASSUME NEW v \in Writers PROVE Room(v)'
    BY <1>1, <1>2 DEF FillInv, Room, WriterTypes
  <2>2. ASSUME NEW r \in Readers PROVE Taken(r)'
    <3>1. CASE rpc[r] = "advance"
      <4>1. Len(rdata[r]) \in 1 .. kfifo_len /\ rdata[r] = Bytes(Len(rdata[r]))
        BY <3>1 DEF FillInv, Taken
      <4>2. PICK k \in Nat : k = Len(rdata[r])
        BY <1>3, <4>1
      <4>3. Bytes(k)' = Bytes(k)
        BY <1>1, <1>3, <4>1, <4>2, BytesKept
      <4>4. rdata'[r] = Bytes(k)' /\ Len(rdata'[r]) = k
        BY <1>3, <4>1, <4>2, <4>3
      <4> QED
        BY <1>1, <1>3, <3>1, <4>1, <4>2, <4>4 DEF Taken
    <3>2. CASE rpc[r] # "advance"
      BY <1>3, <3>2 DEF FillInv, Taken
    <3> QED
      BY <3>1, <3>2
  <2> QED
    BY <1>1, <2>1, <2>2 DEF FillInv
<1>5. ASSUME DataInv PROVE DataInv'
  <2>1. ASSUME NEW v \in Writers PROVE Copied(v)'
    <3>1. CASE v = w
      <4>1. wlen'[w] = n
        BY <1>1 DEF WriterTypes
      <4> QED
        BY <1>1, <3>1, <4>1 DEF Copied
    <3>2. CASE v # w
      <4>1. wpc[v] # "publish"
        BY <1>2, <3>2 DEF LocksInv, Writing
      <4> QED
        BY <1>2, <3>2, <4>1 DEF Copied, WriterTypes
    <3> QED
      BY <3>1, <3>2
  <2> QED
    BY <2>1 DEF DataInv
<1> QED
  BY <1>4, <1>5

(* What is published joins the bytes that were there.                      *)
LEMMA PublishesKeep ==
  ASSUME FifoAssumption, FifoInv, NEW w \in Writers, Publishes(w)
  PROVE  FillInv' /\ (DataInv => DataInv')
<1> USE DEF FifoInv
<1>1. /\ wpc[w] = "publish" /\ wpc' = [wpc EXCEPT ![w] = "wake"]
      /\ wlen' = [wlen EXCEPT ![w] = 0]
      /\ UNCHANGED <<buf, out, readerVars, delivered, careful>>
  BY DEF Publishes, Publish
<1>2. /\ kfifo_len \in Nat /\ wlen[w] \in Nat /\ wlen[w] + kfifo_len <= FifoBytes
      /\ out' = out /\ buf' = buf /\ rdata' = rdata /\ rpc' = rpc
  BY <1>1, Level DEF FillInv, Room, WriterTypes, readerVars
<1>3. kfifo_len' = kfifo_len + wlen[w]
  BY <1>2, PublishAdds DEF Publishes
<1>4. ASSUME NEW v \in Writers PROVE wpc'[v] # "publish"
  BY <1>1 DEF LocksInv, Writing, WriterTypes
<1>5. FillInv'
  <2>1. ASSUME NEW r \in Readers PROVE Taken(r)'
    <3>1. Taken(r)
      BY DEF FillInv
    <3>2. CASE rpc[r] = "advance"
      <4>1. Len(rdata'[r]) \in 1 .. kfifo_len' /\ rdata'[r] = Bytes(Len(rdata[r]))
        BY <1>2, <1>3, <3>1, <3>2 DEF Taken
      <4> QED
        BY <1>2, <3>2, <4>1 DEF Taken, Bytes
    <3> QED
      BY <1>2, <3>1, <3>2 DEF Taken
  <2>2. FifoBytes \in Nat
    BY DEF FifoAssumption
  <2> QED
    BY <1>2, <1>3, <1>4, <2>1, <2>2 DEF FillInv, Room
<1>6. DataInv'
  BY <1>4 DEF DataInv, Copied
<1> QED
  BY <1>5, <1>6

(* A copy to user space holds the oldest bytes until the index moves.      *)
LEMMA CopiesKeep ==
  ASSUME FifoAssumption, FifoInv, NEW r \in Readers, NEW n \in 0 .. kfifo_len,
         NEW stage \in {"idle", "test", "advance"}, Copies(r, n, stage)
  PROVE  FillInv' /\ (DataInv => DataInv')
<1> USE DEF FifoInv
<1>1. /\ kfifo_len' = kfifo_len /\ wlen' = wlen /\ wpc' = wpc /\ buf' = buf /\ out' = out
      /\ rpc' = [rpc EXCEPT ![r] = stage] /\ rdata' = [rdata EXCEPT ![r] = Bytes(n)]
      /\ IF n > 0 THEN stage = "advance" ELSE stage \in {"idle", "test"}
  BY DEF Copies, fifoVars, writerVars, kfifo_len
<1>2. n \in Nat /\ Len(Bytes(n)) = n /\ Bytes(n) \in Seq(Writers \X Nat)
  <2>1. n \in Nat
    BY Level
  <2>2. Len(Bytes(n)) = n /\ Bytes(n) \in Seq(Writers \X Nat)
    BY <2>1, BytesAre
  <2> QED
    BY <2>1, <2>2
<1>3. ASSUME NEW s \in Readers PROVE Taken(s)'
  <2>1. CASE s = r
    <3>1. rpc'[s] = stage /\ rdata'[s] = Bytes(n) /\ Len(rdata'[s]) = n
      BY <1>1, <1>2, <2>1 DEF ReaderTypes
    <3>2. CASE n > 0
      <4>1. Len(rdata'[s]) \in 1 .. kfifo_len' /\ rdata'[s] = Bytes(Len(rdata'[s]))
        BY <1>1, <1>2, <3>1, <3>2
      <4> QED
        BY <1>1, <3>1, <3>2, <4>1 DEF Taken, Bytes
    <3>3. CASE n = 0
      <4>1. rdata'[s] = <<>>
        BY <1>2, <3>1, <3>3
      <4> QED
        BY <1>1, <3>1, <3>3, <4>1 DEF Taken
    <3> QED
      BY <1>2, <3>2, <3>3
  <2>2. CASE s # r
    <3>1. rpc'[s] = rpc[s] /\ rdata'[s] = rdata[s]
      BY <1>1, <2>2 DEF ReaderTypes
    <3>2. Taken(s)
      BY DEF FillInv
    <3> QED
      BY <1>1, <3>1, <3>2 DEF Taken, Bytes
  <2> QED
    BY <2>1, <2>2
<1>4. FillInv'
  BY <1>1, <1>3 DEF FillInv, Room
<1>5. DataInv => DataInv'
  BY <1>1 DEF DataInv, Copied, At
<1> QED
  BY <1>4, <1>5

(* The reader's index moves over the oldest bytes: the rest stays.         *)
LEMMA AdvancesKeep ==
  ASSUME FifoAssumption, FifoInv, NEW r \in Readers, Advances(r)
  PROVE  FillInv' /\ (DataInv => DataInv')
<1> USE DEF FifoInv
<1>1. /\ rpc[r] = "advance" /\ rpc' = [rpc EXCEPT ![r] = "idle"]
      /\ rdata' = [rdata EXCEPT ![r] = <<>>]
      /\ wpc' = wpc /\ wlen' = wlen
  BY DEF Advances, ReadAdvance, Goes, writerVars
<1>2. PICK n \in Nat : n = Len(rdata[r])
  BY <1>1, Level DEF FillInv, Taken
<1>3. n \in 1 .. kfifo_len /\ kfifo_len \in Nat
  BY <1>1, <1>2, Level DEF FillInv, Taken
<1>4. kfifo_len' = kfifo_len - n /\ \A i \in Int : At(i)' = At(n + i)
  BY <1>2, <1>3, AdvanceTakes DEF Advances, FillInv
<1>5. FillInv'
  <2>1. ASSUME NEW s \in Readers PROVE Taken(s)'
    <3>1. CASE s = r
      BY <1>1, <3>1 DEF Taken, ReaderTypes
    <3>2. CASE s # r
      <4>1. rpc[s] # "advance" /\ Taken(s)
        BY <1>1, <3>2 DEF LocksInv, Reading, FillInv
      <4> QED
        BY <1>1, <3>2, <4>1 DEF Taken, ReaderTypes
    <3> QED
      BY <3>1, <3>2
  <2>2. ASSUME NEW w \in Writers PROVE Room(w)'
    <3>1. wlen[w] \in Nat /\ FifoBytes \in Nat
      BY DEF WriterTypes, FifoAssumption
    <3>2. \A a, b \in Nat : a + kfifo_len <= b => a + kfifo_len' <= b
      BY <1>3, <1>4
    <3>3. wpc[w] = "publish" => wlen[w] <= RecordBytes /\ wlen[w] + kfifo_len <= FifoBytes
      BY DEF FillInv, Room
    <3>4. wpc[w] = "publish" => wlen[w] <= RecordBytes /\ wlen[w] + kfifo_len' <= FifoBytes
      BY <3>1, <3>2, <3>3
    <3> QED
      BY <1>1, <3>4 DEF Room
  <2>3. kfifo_len' <= FifoBytes
    BY <1>3, <1>4 DEF FillInv, FifoAssumption
  <2> QED
    BY <2>1, <2>2, <2>3 DEF FillInv
<1>6. ASSUME DataInv PROVE DataInv'
  <2>1. ASSUME NEW w \in Writers PROVE Copied(w)'
    <3> SUFFICES ASSUME wpc[w] = "publish", NEW i \in 0 .. wlen[w] - 1
                 PROVE  At(kfifo_len + i)' = <<w, i>>
      BY <1>1 DEF Copied
    <3>1. kfifo_len' + i \in Int /\ n + (kfifo_len' + i) = kfifo_len + i
      BY <1>3, <1>4
    <3>2. At(kfifo_len + i) = <<w, i>>
      BY <1>6 DEF DataInv, Copied
    <3>3. PICK x \in Int : x = kfifo_len' + i
      BY <3>1
    <3>4. At(x)' = <<w, i>>
      BY <1>4, <3>1, <3>2, <3>3
    <3> QED
      BY <3>3, <3>4
  <2> QED
    BY <2>1 DEF DataInv
<1> QED
  BY <1>5, <1>6

-----------------------------------------------------------------------------
(* The inductive invariant, with SleeperWoken.                             *)
LEMMA FifoStart == FifoAssumption /\ Init => FifoInv /\ DataInv /\ WholeInv /\ SleeperWoken
<1> SUFFICES ASSUME FifoAssumption, Init PROVE FifoInv /\ DataInv /\ WholeInv /\ SleeperWoken
  OBVIOUS
<1>1. /\ FifoBytes \in Nat \ {0} /\ RecordBytes \in Nat \ {0} /\ IndexRange \in Nat \ {0}
  BY DEF FifoAssumption
<1>2. kfifo_len = 0 /\ 0 % RecordBytes = 0
  BY <1>1 DEF Init, kfifo_len
<1>3. FifoTypes
  BY <1>1 DEF Init, FifoTypes
<1>4. WriterTypes /\ ReaderTypes /\ LocksInv
  BY DEF Init, WriterTypes, ReaderTypes, LocksInv, Writing, Reading
<1>5. FillInv
  BY <1>1, <1>2 DEF Init, FillInv, Room, Taken
<1>6. DataInv /\ SleeperWoken
  BY <1>2 DEF Init, DataInv, Copied, SleeperWoken
<1>7. WholeInv
  <2>1. Len(<<>>) = 0
    OBVIOUS
  <2> QED
    BY <1>2, <2>1 DEF Init, WholeInv
<1> QED
  BY <1>3, <1>4, <1>5, <1>6, <1>7 DEF FifoInv

(* The types, locks and fill levels are inductive, and with them the data. *)
LEMMA FifoStep == FifoAssumption /\ FifoInv /\ [Next]_vars => FifoInv' /\ (DataInv => DataInv')
<1> SUFFICES ASSUME FifoAssumption, FifoInv, [Next]_vars
             PROVE  FifoInv' /\ (DataInv => DataInv')
  OBVIOUS
<1>1. CASE Next
  <2>1. CASE Moves /\ UNCHANGED <<careful, delivered>>
    BY <2>1, MovesTypes, MovesKeep DEF FifoInv
  <2>2. ASSUME NEW w \in Writers, Fills(w) PROVE FifoInv' /\ (DataInv => DataInv')
    BY <2>2, FillsTypes, FillsKeep DEF FifoInv
  <2>3. ASSUME NEW w \in Writers, Publishes(w) PROVE FifoInv' /\ (DataInv => DataInv')
    BY <2>3, PublishesTypes, PublishesKeep DEF FifoInv
  <2>4. ASSUME NEW r \in Readers, Advances(r) PROVE FifoInv' /\ (DataInv => DataInv')
    BY <2>4, AdvancesTypes, AdvancesKeep DEF FifoInv
  <2>5. ASSUME NEW r \in Readers, NEW n \in 0 .. kfifo_len,
               NEW stage \in {"idle", "test", "advance"}, Copies(r, n, stage)
        PROVE  FifoInv' /\ (DataInv => DataInv')
    BY <2>5, CopiesTypes, CopiesKeep DEF FifoInv
  <2>6. FifoTypes /\ ReaderTypes
    BY DEF FifoInv
  <2> QED
    BY <1>1, <2>1, <2>2, <2>3, <2>4, <2>5, <2>6, StepIs
<1>2. CASE UNCHANGED vars
  <2>1. UNCHANGED <<careful, buf, in, out, wpc, wlen, rpc, want, rdata, delivered>>
    BY <1>2 DEF vars, flowVars, fifoVars, writerVars, readerVars
  <2>2. FifoTypes' /\ WriterTypes' /\ ReaderTypes' /\ LocksInv'
    BY <2>1 DEF FifoInv, FifoTypes, WriterTypes, ReaderTypes, LocksInv, Writing, Reading
  <2>3. FillInv'
    BY <2>1 DEF FifoInv, FillInv, Room, Taken, Bytes, kfifo_len
  <2>4. DataInv => DataInv'
    BY <2>1 DEF DataInv, Copied, At, kfifo_len
  <2> QED
    BY <2>2, <2>3, <2>4 DEF FifoInv
<1> QED
  BY <1>1, <1>2

(* A sleep begins only after a test that found no data, and data comes     *)
(* only with a wakeup due.                                                 *)
LEMMA SleeperStep ==
  FifoAssumption /\ FifoInv /\ SleeperWoken /\ [Next]_vars => SleeperWoken'
<1> SUFFICES ASSUME FifoAssumption, FifoInv, SleeperWoken, [Next]_vars PROVE SleeperWoken'
  OBVIOUS
<1> DEFINE Sleeps(r) == rpc[r] \in {"asleep", "pollasleep"}
<1>0. FifoTypes /\ WriterTypes /\ ReaderTypes /\ kfifo_len \in Nat
  BY Level DEF FifoInv
(* Nobody falls asleep while there is data, and a wakeup stays due.        *)
<1>1. ASSUME kfifo_len' > 0 => kfifo_len > 0,
             kfifo_len' > 0 => \A r \in Readers : Sleeps(r)' => Sleeps(r),
             \A w \in Writers : wpc[w] = "wake" => wpc'[w] = "wake"
      PROVE  SleeperWoken'
  BY <1>1 DEF SleeperWoken
<1> HIDE DEF Sleeps
<1>2. CASE Next
  <2>1. CASE Moves /\ UNCHANGED <<careful, delivered>>
    <3>0. kfifo_len' = kfifo_len
      BY <1>0, <2>1, MovesQuiet, FifoKept DEF Quiet
    <3>1. ASSUME NEW w \in Writers, LockConsumer(w) PROVE SleeperWoken'
      BY <1>0, <1>1, <3>0, <3>1 DEF LockConsumer, Sleeps, WriterTypes, readerVars
    <3>2. ASSUME NEW w \in Writers, wake_up(w) PROVE SleeperWoken'
      <4>1. \A r \in Readers : rpc'[r] \notin {"asleep", "pollasleep"}
        BY <3>2 DEF wake_up
      <4> QED
        BY <4>1 DEF SleeperWoken
    <3>3. ASSUME NEW r \in Readers, NEW count \in Counts, kxo_read(r, count) PROVE SleeperWoken'
      BY <1>0, <1>1, <3>0, <3>3 DEF kxo_read, Sleeps, ReaderTypes, writerVars
    <3>4. ASSUME NEW r \in Readers, ReadTest(r) \/ Interrupted(r) \/ kxo_poll(r) \/ PollTest(r)
          PROVE  SleeperWoken'
      BY <1>0, <1>1, <3>0, <3>4
         DEF ReadTest, Interrupted, kxo_poll, PollTest, Goes, Sleeps, ReaderTypes, writerVars
    <3> QED
      BY <2>1, <3>1, <3>2, <3>3, <3>4 DEF Moves
  <2>2. ASSUME NEW w \in Writers, Fills(w) PROVE SleeperWoken'
    <3>1. kfifo_len' = kfifo_len
      BY <2>2 DEF Fills, produce_board, kfifo_len
    <3> QED
      BY <1>0, <1>1, <2>2, <3>1 DEF Fills, produce_board, Sleeps, WriterTypes, readerVars
  <2>3. ASSUME NEW w \in Writers, Publishes(w) PROVE SleeperWoken'
    <3>1. wpc'[w] = "wake"
      BY <1>0, <2>3 DEF Publishes, Publish, WriterTypes
    <3> QED
      BY <3>1 DEF SleeperWoken
  <2>4. ASSUME NEW r \in Readers, Advances(r) PROVE SleeperWoken'
    <3>1. Len(rdata[r]) \in 1 .. kfifo_len /\ kfifo_len <= FifoBytes
      BY <2>4 DEF FifoInv, FillInv, Taken, Advances, ReadAdvance
    <3>2. kfifo_len' = kfifo_len - Len(rdata[r])
      BY <1>0, <2>4, <3>1, AdvanceTakes DEF Advances
    <3>3. kfifo_len' > 0 => kfifo_len > 0
      BY <1>0, <3>1, <3>2
    <3> QED
      BY <1>0, <1>1, <2>4, <3>3 DEF Advances, ReadAdvance, Goes, Sleeps, ReaderTypes, writerVars
  <2>5. ASSUME NEW r \in Readers, NEW n \in 0 .. kfifo_len,
               NEW stage \in {"idle", "test", "advance"}, Copies(r, n, stage)
        PROVE  SleeperWoken'
    <3>1. kfifo_len' = kfifo_len
      BY <2>5 DEF Copies, fifoVars, kfifo_len
    <3> QED
      BY <1>0, <1>1, <2>5, <3>1 DEF Copies, Sleeps, ReaderTypes, writerVars
  <2> QED
    BY <1>0, <1>2, <2>1, <2>2, <2>3, <2>4, <2>5, StepIs
<1>3. CASE UNCHANGED vars
  <2>1. kfifo_len' = kfifo_len /\ rpc' = rpc /\ wpc' = wpc
    BY <1>3 DEF vars, flowVars, fifoVars, writerVars, readerVars, kfifo_len
  <2> QED
    BY <1>1, <2>1 DEF Sleeps
<1> QED
  BY <1>2, <1>3

(* No wakeup is lost: wait_event_interruptible and poll_wait put a thread  *)
(* on rx_wait before it tests, and every work calls wake_up_interruptible  *)
(* after it has published.                                                 *)
THEOREM SleepersWoken ==
  ASSUME FifoAssumption
  PROVE  Spec => []SleeperWoken
<1>1. Init => FifoInv /\ SleeperWoken
  BY FifoStart
<1>2. FifoInv /\ SleeperWoken /\ [Next]_vars => FifoInv' /\ SleeperWoken'
  BY FifoStep, SleeperStep
<1> QED
  BY <1>1, <1>2, PTL DEF Spec

-----------------------------------------------------------------------------
(* Every byte accounted for.  A sequence in two parts.                     *)
LEMMA Joined ==
  ASSUME NEW S, NEW a \in Seq(S), NEW b \in Seq(S), NEW c \in Seq(S),
         Len(c) = Len(a) + Len(b),
         \A i \in 1 .. Len(a) : c[i] = a[i],
         \A i \in 1 .. Len(b) : c[Len(a) + i] = b[i]
  PROVE  c = a \o b
<1>1. /\ a \o b \in Seq(S) /\ Len(a \o b) = Len(a) + Len(b)
      /\ \A i \in 1 .. Len(a) : (a \o b)[i] = a[i]
      /\ \A i \in 1 .. Len(a) + Len(b) : i > Len(a) => (a \o b)[i] = b[i - Len(a)]
  OBVIOUS
<1>2. ASSUME NEW i \in 1 .. Len(c), i > Len(a) PROVE c[i] = b[i - Len(a)]
  <2>1. PICK j \in 1 .. Len(b) : j = i - Len(a) /\ i = Len(a) + j
    <3>1. i - Len(a) \in 1 .. Len(b) /\ i = Len(a) + (i - Len(a))
      BY <1>2
    <3> QED
      BY <3>1
  <2> QED
    BY <2>1
<1>3. \A i \in 1 .. Len(c) : c[i] = (a \o b)[i]
  <2>1. \A i \in 1 .. Len(c) : i \in 1 .. Len(a) \/ i > Len(a)
    OBVIOUS
  <2> QED
    BY <1>1, <1>2, <2>1
<1> QED
  BY <1>1, <1>3

(* What BytesAccounted says of a step.                                     *)
Ended(r) == rdata[r] # <<>> /\ rdata'[r] = <<>>
Published(w) == wpc[w] = "publish" /\ wpc'[w] = "wake"
Cut(w) == wlen'[w] = RecordBytes \/ kfifo_len + wlen'[w] = FifoBytes
Accounted ==
  /\ \A r \in Readers : Ended(r) => Bytes(kfifo_len) = rdata[r] \o Bytes(kfifo_len)'
  /\ \A w \in Writers : Published(w) => Bytes(kfifo_len)' = Bytes(kfifo_len) \o Part(w, wlen[w])
  /\ \/ \E r \in Readers : Ended(r)
     \/ \E w \in Writers : Published(w)
     \/ Bytes(kfifo_len)' = Bytes(kfifo_len)
  /\ \A w \in Writers : Copying(w) => Cut(w)

(* A step that ends no read and publishes nothing keeps the bytes.         *)
LEMMA KeepsBytes ==
  ASSUME Bytes(kfifo_len)' = Bytes(kfifo_len),
         \A r \in Readers : ~Ended(r),
         \A w \in Writers : ~Published(w),
         \A w \in Writers : Copying(w) => Cut(w)
  PROVE  Accounted
BY DEF Accounted

(* Copying in overwrites no byte that is in the fifo.                      *)
LEMMA FillsBytes ==
  ASSUME FifoAssumption, FifoInv, NEW w \in Writers, Fills(w)
  PROVE  Bytes(kfifo_len)' = Bytes(kfifo_len)
<1>1. FifoTypes /\ kfifo_len <= FifoBytes /\ out' = out
  BY DEF Fills, produce_board, FifoInv, FillInv
<1>2. kfifo_len' = kfifo_len /\ \A i \in 0 .. kfifo_len - 1 : At(i)' = At(i)
  BY <1>1, ProduceCopies DEF Fills
<1>3. PICK n \in Nat : n = kfifo_len
  BY <1>1, Level
<1>4. Bytes(n)' = Bytes(n)
  BY <1>1, <1>2, <1>3, BytesKept
<1>5. kfifo_len' = n
  BY <1>2, <1>3
<1>6. Bytes(kfifo_len)' = Bytes(n)'
  BY <1>5 DEF Bytes
<1> QED
  BY <1>3, <1>4, <1>6

(* A record is cut off only where the fifo is full.                        *)
LEMMA FillsAccounted ==
  ASSUME FifoAssumption, FifoInv, NEW w \in Writers, Fills(w)
  PROVE  Accounted
<1>1. /\ wpc[w] = "copy" /\ wpc' = [wpc EXCEPT ![w] = "publish"] /\ rdata' = rdata
      /\ wlen' = [wlen EXCEPT ![w] = Least(RecordBytes, FifoBytes - kfifo_len)]
  BY DEF Fills, produce_board, readerVars
<1>2. Bytes(kfifo_len)' = Bytes(kfifo_len)
  BY FillsBytes
<1>3. \A r \in Readers : ~Ended(r)
  BY <1>1 DEF Ended
<1>4. \A v \in Writers : ~Published(v)
  BY <1>1 DEF Published, FifoInv, WriterTypes
<1>5. ASSUME NEW v \in Writers, Copying(v) PROVE Cut(v)
  <2>1. v = w
    BY <1>1, <1>5 DEF Copying, FifoInv, WriterTypes
  <2>2. kfifo_len \in Nat /\ FifoBytes \in Nat /\ RecordBytes \in Nat
    BY Level DEF FifoInv, FifoAssumption
  <2>3. wlen'[w] = Least(RecordBytes, FifoBytes - kfifo_len)
    BY <1>1 DEF FifoInv, WriterTypes
  <2> QED
    BY <2>1, <2>2, <2>3 DEF Cut, Least
<1> QED
  BY <1>2, <1>3, <1>4, <1>5, KeepsBytes

(* Publishing adds what was copied in, behind what was there.              *)
LEMMA PublishesAccounted ==
  ASSUME FifoAssumption, FifoInv, DataInv, FifoTypes', NEW w \in Writers, Publishes(w)
  PROVE  Accounted
<1>1. /\ wpc[w] = "publish" /\ wpc' = [wpc EXCEPT ![w] = "wake"] /\ rdata' = rdata
      /\ UNCHANGED <<buf, out>> /\ FifoTypes
  BY DEF Publishes, Publish, readerVars, FifoInv
<1>2. PICK had \in Nat : had = kfifo_len
  BY <1>1, Level
<1>3. PICK more \in Nat : more = wlen[w] /\ more + had <= FifoBytes
  BY <1>1, <1>2 DEF FifoInv, FillInv, Room, WriterTypes
<1>4. kfifo_len' = had + more
  BY <1>1, <1>2, <1>3, PublishAdds DEF Publishes
<1>5. /\ Bytes(had) \in Seq(Writers \X Nat) /\ Len(Bytes(had)) = had
      /\ \A i \in 1 .. had : Bytes(had)[i] = At(i - 1)
  BY <1>1, BytesAre
<1>6. PICK then \in Nat : then = had + more
  OBVIOUS
<1>7. /\ Bytes(then)' \in Seq(Writers \X Nat) /\ Len(Bytes(then)') = then
      /\ \A i \in 1 .. then : Bytes(then)'[i] = At(i - 1)'
  BY BytesThen
<1>8. \A i \in Int : At(i)' = At(i)
  BY <1>1 DEF At
<1>9. /\ Part(w, more) \in Seq(Writers \X Nat) /\ Len(Part(w, more)) = more
      /\ \A i \in 1 .. more : Part(w, more)[i] = <<w, i - 1>>
  <2>1. \A i \in 1 .. more : <<w, i - 1>> \in Writers \X Nat
    OBVIOUS
  <2> QED
    BY <2>1 DEF Part
<1>10. ASSUME NEW i \in 1 .. had PROVE Bytes(then)'[i] = Bytes(had)[i]
  <2>1. i \in 1 .. then /\ i - 1 \in Int
    BY <1>6
  <2> QED
    BY <1>5, <1>7, <1>8, <2>1
<1>11. ASSUME NEW i \in 1 .. more PROVE Bytes(then)'[had + i] = Part(w, more)[i]
  <2>1. PICK k \in 0 .. more - 1 : k = i - 1
    OBVIOUS
  <2>2. PICK x \in Int : x = had + k
    OBVIOUS
  <2>3. had + i \in 1 .. then /\ (had + i) - 1 = x
    BY <1>6, <2>1, <2>2
  <2>4. At(x) = <<w, k>>
    BY <1>1, <1>2, <1>3, <2>1, <2>2 DEF DataInv, Copied
  <2> QED
    BY <1>7, <1>8, <1>9, <2>1, <2>3, <2>4
<1>12. Bytes(then)' = Bytes(had) \o Part(w, more)
  <2>1. PICK a \in Seq(Writers \X Nat) : a = Bytes(had)
    BY <1>5
  <2>2. PICK b \in Seq(Writers \X Nat) : b = Part(w, more)
    BY <1>9
  <2>3. PICK c \in Seq(Writers \X Nat) : c = Bytes(then)'
    BY <1>7
  <2>4. /\ Len(c) = Len(a) + Len(b)
        /\ \A i \in 1 .. Len(a) : c[i] = a[i]
        /\ \A i \in 1 .. Len(b) : c[Len(a) + i] = b[i]
    <3>1. Len(c) = Len(a) + Len(b)
      BY <1>5, <1>6, <1>7, <1>9, <2>1, <2>2, <2>3
    <3>2. Len(a) = had /\ Len(b) = more
      BY <1>5, <1>9, <2>1, <2>2
    <3> QED
      BY <1>10, <1>11, <2>1, <2>2, <2>3, <3>1, <3>2
  <2>5. c = a \o b
    BY <2>4, Joined
  <2> QED
    BY <2>1, <2>2, <2>3, <2>5
<1>13. Bytes(kfifo_len)' = Bytes(kfifo_len) \o Part(w, wlen[w])
  <2>1. kfifo_len' = then
    BY <1>4, <1>6
  <2>2. Bytes(kfifo_len)' = Bytes(then)'
    BY <2>1 DEF Bytes
  <2> QED
    BY <1>2, <1>3, <1>12, <2>2
<1>14. \A r \in Readers : ~Ended(r)
  BY <1>1 DEF Ended
<1>15. \A v \in Writers : Published(v) => v = w
  BY <1>1 DEF Published, FifoInv, WriterTypes
<1>16. \A v \in Writers : ~Copying(v)
  BY <1>1 DEF Copying, FifoInv, WriterTypes
<1>17. Published(w)
  BY <1>1 DEF Published, FifoInv, WriterTypes
<1> QED
  BY <1>13, <1>14, <1>15, <1>16, <1>17 DEF Accounted

(* The index moves over what was copied out, and over nothing else.        *)
LEMMA AdvancesAccounted ==
  ASSUME FifoAssumption, FifoInv, FifoTypes', NEW r \in Readers, Advances(r)
  PROVE  Accounted
<1>1. /\ rpc[r] = "advance" /\ rdata' = [rdata EXCEPT ![r] = <<>>]
      /\ wpc' = wpc /\ FifoTypes /\ kfifo_len <= FifoBytes /\ ReadAdvance(r)
  BY DEF Advances, ReadAdvance, writerVars, FifoInv, FillInv
<1>2. PICK had \in Nat : had = kfifo_len
  BY <1>1, Level
<1>3. PICK n \in 1 .. had : n = Len(rdata[r]) /\ rdata[r] = Bytes(n)
  BY <1>1, <1>2 DEF FifoInv, FillInv, Taken
<1>4. kfifo_len' = had - n /\ \A i \in Int : At(i)' = At(n + i)
  <2>1. Len(rdata[r]) \in 0 .. kfifo_len
    BY <1>2, <1>3
  <2>2. /\ kfifo_len' = kfifo_len - Len(rdata[r])
        /\ \A i \in Int : At(i)' = At(Len(rdata[r]) + i)
    BY <1>1, <2>1, AdvanceTakes
  <2> QED
    BY <1>2, <1>3, <2>2
<1>5. /\ Bytes(had) \in Seq(Writers \X Nat) /\ Len(Bytes(had)) = had
      /\ \A i \in 1 .. had : Bytes(had)[i] = At(i - 1)
  BY <1>1, BytesAre
<1>6. /\ Bytes(n) \in Seq(Writers \X Nat) /\ Len(Bytes(n)) = n
      /\ \A i \in 1 .. n : Bytes(n)[i] = At(i - 1)
  <2>1. n \in Nat
    OBVIOUS
  <2> QED
    BY <1>1, <2>1, BytesAre
<1>7. PICK left \in Nat : left = had - n
  OBVIOUS
<1>8. /\ Bytes(left)' \in Seq(Writers \X Nat) /\ Len(Bytes(left)') = left
      /\ \A i \in 1 .. left : Bytes(left)'[i] = At(i - 1)'
  BY BytesThen
<1>9. ASSUME NEW i \in 1 .. n PROVE Bytes(had)[i] = Bytes(n)[i]
  BY <1>5, <1>6
<1>10. ASSUME NEW i \in 1 .. left PROVE Bytes(had)[n + i] = Bytes(left)'[i]
  <2>1. PICK j \in Int : j = i - 1
    OBVIOUS
  <2>2. n + i \in 1 .. had /\ (n + i) - 1 = n + j
    BY <1>7, <2>1
  <2>3. Bytes(left)'[i] = At(j)' /\ At(j)' = At(n + j)
    BY <1>4, <1>8, <2>1
  <2> QED
    BY <1>5, <2>2, <2>3
<1>11. Bytes(had) = Bytes(n) \o Bytes(left)'
  <2>1. PICK a \in Seq(Writers \X Nat) : a = Bytes(n)
    BY <1>6
  <2>2. PICK b \in Seq(Writers \X Nat) : b = Bytes(left)'
    BY <1>8
  <2>3. PICK c \in Seq(Writers \X Nat) : c = Bytes(had)
    BY <1>5
  <2>4. /\ Len(c) = Len(a) + Len(b)
        /\ \A i \in 1 .. Len(a) : c[i] = a[i]
        /\ \A i \in 1 .. Len(b) : c[Len(a) + i] = b[i]
    <3>1. Len(c) = Len(a) + Len(b)
      BY <1>5, <1>6, <1>7, <1>8, <2>1, <2>2, <2>3
    <3>2. Len(a) = n /\ Len(b) = left
      BY <1>6, <1>8, <2>1, <2>2
    <3> QED
      BY <1>9, <1>10, <2>1, <2>2, <2>3, <3>1, <3>2
  <2>5. c = a \o b
    BY <2>4, Joined
  <2> QED
    BY <2>1, <2>2, <2>3, <2>5
<1>12. Bytes(kfifo_len) = rdata[r] \o Bytes(kfifo_len)'
  <2>1. kfifo_len' = left
    BY <1>4, <1>7
  <2>2. Bytes(kfifo_len)' = Bytes(left)'
    BY <2>1 DEF Bytes
  <2> QED
    BY <1>2, <1>3, <1>11, <2>2
<1>13. \A s \in Readers : Ended(s) => s = r
  BY <1>1 DEF Ended, FifoInv, ReaderTypes
<1>14. \A w \in Writers : ~Published(w) /\ ~Copying(w)
  BY <1>1 DEF Published, Copying
<1>15. Ended(r)
  <2>1. rdata[r] # <<>>
    BY <1>3
  <2> QED
    BY <1>1, <2>1 DEF Ended, FifoInv, ReaderTypes
<1> QED
  BY <1>12, <1>13, <1>14, <1>15 DEF Accounted

(* Every step accounts for every byte.                                     *)
LEMMA AccountedStep ==
  ASSUME FifoAssumption, FifoInv, DataInv, FifoTypes', [Next]_vars
  PROVE  Accounted
<1>1. CASE Next
  <2>1. CASE Moves /\ UNCHANGED <<careful, delivered>>
    <3>1. Quiet
      BY <2>1, MovesQuiet DEF FifoInv
    <3>2. kfifo_len' = kfifo_len /\ Bytes(kfifo_len)' = Bytes(kfifo_len)
      BY <3>1 DEF Quiet, fifoVars, Bytes, kfifo_len
    <3> QED
      BY <3>1, <3>2, KeepsBytes DEF Quiet, Ended, Published, Copying
  <2>2. ASSUME NEW w \in Writers, Fills(w) PROVE Accounted
    BY <2>2, FillsAccounted
  <2>3. ASSUME NEW w \in Writers, Publishes(w) PROVE Accounted
    BY <2>3, PublishesAccounted
  <2>4. ASSUME NEW r \in Readers, Advances(r) PROVE Accounted
    BY <2>4, AdvancesAccounted
  <2>5. ASSUME NEW r \in Readers, NEW n \in 0 .. kfifo_len,
               NEW stage \in {"idle", "test", "advance"}, Copies(r, n, stage)
        PROVE  Accounted
    <3>1. Bytes(kfifo_len)' = Bytes(kfifo_len)
      BY <2>5 DEF Copies, fifoVars, Bytes, kfifo_len
    <3>2. ASSUME NEW s \in Readers PROVE ~Ended(s)
      <4>1. CASE s = r
        BY <2>5, <4>1 DEF Ended, Copies, FifoInv, FillInv, Taken
      <4>2. CASE s # r
        BY <2>5, <4>2 DEF Ended, Copies, FifoInv, ReaderTypes
      <4> QED
        BY <4>1, <4>2
    <3>3. \A w \in Writers : ~Published(w) /\ ~Copying(w)
      BY <2>5 DEF Copies, writerVars, Published, Copying
    <3> QED
      BY <3>1, <3>2, <3>3, KeepsBytes
  <2>6. FifoTypes /\ ReaderTypes
    BY DEF FifoInv
  <2> QED
    BY <1>1, <2>1, <2>2, <2>3, <2>4, <2>5, <2>6, StepIs
<1>2. CASE UNCHANGED vars
  <2>1. UNCHANGED <<buf, in, out, wpc, rdata>>
    BY <1>2 DEF vars, flowVars, fifoVars, writerVars, readerVars
  <2>2. Bytes(kfifo_len)' = Bytes(kfifo_len)
    BY <2>1 DEF Bytes, kfifo_len
  <2> QED
    BY <2>1, <2>2, KeepsBytes DEF Ended, Published, Copying
<1> QED
  BY <1>1, <1>2

(* Whatever lengths are read and wherever a read faults, the fifo loses    *)
(* what a read copied to its caller and gains what a work copied in, and   *)
(* nothing else happens to its bytes (kfifo_in, kfifo_to_user).            *)
THEOREM EveryByteAccounted ==
  ASSUME FifoAssumption
  PROVE  Spec => BytesAccounted
<1>1. Init => FifoInv /\ DataInv
  BY FifoStart
<1>2. FifoInv /\ DataInv /\ [Next]_vars => FifoInv' /\ DataInv'
  BY FifoStep
<1> DEFINE before == Bytes(kfifo_len)
           after == Bytes(kfifo_len)'
           ended == {r \in Readers : rdata[r] # <<>> /\ rdata'[r] = <<>>}
           published == {w \in Writers : wpc[w] = "publish" /\ wpc'[w] = "wake"}
           Step == /\ \A r \in ended : before = rdata[r] \o after
                   /\ \A w \in published : after = before \o Part(w, wlen[w])
                   /\ ended \cup published = {} => after = before
                   /\ \A w \in Writers :
                        Copying(w) => \/ wlen'[w] = RecordBytes
                                      \/ kfifo_len + wlen'[w] = FifoBytes
<1>3. FifoInv /\ DataInv /\ FifoInv' /\ [Next]_vars => Step
  <2> SUFFICES ASSUME FifoInv, DataInv, FifoInv', [Next]_vars PROVE Step
    OBVIOUS
  <2>1. Accounted
    BY AccountedStep DEF FifoInv
  <2>2. /\ \A r \in Readers : r \in ended <=> Ended(r)
        /\ \A w \in Writers : w \in published <=> Published(w)
    BY DEF Ended, Published
  <2>3. ended \subseteq Readers /\ published \subseteq Writers
    OBVIOUS
  <2> HIDE DEF ended, published
  <2> QED
    BY <2>1, <2>2, <2>3 DEF Accounted, Cut
<1> QED
  BY <1>1, <1>2, <1>3, PTL DEF Spec, BytesAccounted

-----------------------------------------------------------------------------
(* Whole records.  A whole number of records before it does not change a   *)
(* byte's place in its record.                                             *)
LEMMA PlaceInRecord ==
  ASSUME FifoAssumption, NEW a \in Int, a % RecordBytes = 0, NEW i \in Int
  PROVE  (a + i) % RecordBytes = i % RecordBytes /\ i % RecordBytes \in 0 .. RecordBytes - 1
<1>1. RecordBytes \in Nat \ {0}
  BY DEF FifoAssumption
<1> DEFINE q == a \div RecordBytes
<1>2. q \in Int /\ a = RecordBytes * q
  BY <1>1
<1> HIDE DEF q
<1>3. (i + RecordBytes * q) % RecordBytes = i % RecordBytes
  BY <1>1, <1>2, WholeTurns
<1>4. a + i = i + RecordBytes * q
  BY <1>1, <1>2
<1> QED
  BY <1>1, <1>3, <1>4

(* Sums and differences of whole records are whole records.                *)
LEMMA RecordsLess ==
  ASSUME FifoAssumption, NEW a \in Int, NEW b \in Int,
         a % RecordBytes = 0, b % RecordBytes = 0
  PROVE  (a + b) % RecordBytes = 0 /\ (a - b) % RecordBytes = 0
<1>1. (a + b) % RecordBytes = 0
  BY PlaceInRecord
<1>2. (b + (a - b)) % RecordBytes = (a - b) % RecordBytes
  <2>1. a - b \in Int
    OBVIOUS
  <2> QED
    BY <2>1, PlaceInRecord
<1>3. b + (a - b) = a
  OBVIOUS
<1> QED
  BY <1>1, <1>2, <1>3

(* A fifo of whole records has room for a whole record or for nothing.     *)
LEMMA WholeFill ==
  ASSUME FifoAssumption, FifoInv, WholeInv, NEW w \in Writers, Fills(w)
  PROVE  WholeInv'
<1> USE DEF FifoInv
<1> DEFINE n == Least(RecordBytes, FifoBytes - kfifo_len)
<1>1. /\ n \in Nat /\ n + kfifo_len <= FifoBytes
      /\ wlen' = [wlen EXCEPT ![w] = n] /\ kfifo_len' = kfifo_len
      /\ \A i \in 0 .. kfifo_len - 1 : At(i)' = At(i)
  BY ProduceCopies DEF Fills, FillInv
<1>2. /\ wpc[w] = "copy" /\ wpc' = [wpc EXCEPT ![w] = "publish"]
      /\ UNCHANGED <<rpc, want, rdata, careful>>
  BY DEF Fills, produce_board, readerVars
<1>3. /\ kfifo_len \in Nat /\ kfifo_len <= FifoBytes /\ FifoBytes \in Nat
      /\ RecordBytes \in Nat \ {0} /\ FifoBytes % RecordBytes = 0
  BY Level DEF FillInv, FifoAssumption
<1>4. careful' <=> careful
  BY <1>2
<1> SUFFICES ASSUME careful PROVE WholeInv'
  BY <1>4 DEF WholeInv
<1>5. n \in {0, RecordBytes}
  <2>0. FifoBytes \in Int /\ kfifo_len \in Int /\ kfifo_len % RecordBytes = 0
    BY <1>3 DEF WholeInv
  <2>1. (FifoBytes - kfifo_len) % RecordBytes = 0
    BY <1>3, <2>0, RecordsLess
  <2>2. PICK room \in Nat : room = FifoBytes - kfifo_len
    BY <1>3
  <2>3. room < RecordBytes => room = 0
    <3>1. room < RecordBytes => room \in 0 .. RecordBytes - 1 /\ room \in Int
      BY <1>3
    <3>2. room % RecordBytes = 0
      BY <2>1, <2>2
    <3> QED
      BY <1>3, <3>1, <3>2, Wrapped
  <2> QED
    BY <1>3, <2>2, <2>3 DEF Least
<1> HIDE DEF n
<1>6. \A v \in Writers : wpc'[v] = "publish" => wlen'[v] \in {0, RecordBytes}
  BY <1>1, <1>2, <1>5 DEF WholeInv, WriterTypes
<1>7. ASSUME NEW i \in 0 .. kfifo_len - 1 PROVE InRecord(i)'
  <2>1. i % RecordBytes \in 0 .. i
    BY <1>3
  <2>2. PICK k \in 0 .. kfifo_len - 1 : k = i - (i % RecordBytes)
    BY <1>3, <2>1
  <2>3. At(i)' = At(i) /\ At(k)' = At(k)
    BY <1>1
  <2>4. At(i) = <<At(k)[1], i % RecordBytes>>
    BY <2>2 DEF WholeInv, InRecord
  <2>5. At(i)' = <<At(k)'[1], i % RecordBytes>>
    BY <2>3, <2>4
  <2> QED
    BY <2>2, <2>5 DEF InRecord
<1>8. /\ kfifo_len' % RecordBytes = 0
      /\ \A r \in Readers : want'[r] % RecordBytes = 0 /\ Len(rdata'[r]) % RecordBytes = 0
  BY <1>1, <1>2 DEF WholeInv
<1> QED
  BY <1>1, <1>6, <1>7, <1>8 DEF WholeInv

(* What is published is a record or nothing.                               *)
LEMMA WholePublish ==
  ASSUME FifoAssumption, FifoInv, DataInv, WholeInv, NEW w \in Writers, Publishes(w)
  PROVE  WholeInv'
<1> USE DEF FifoInv
<1>1. /\ wpc[w] = "publish" /\ wpc' = [wpc EXCEPT ![w] = "wake"]
      /\ UNCHANGED <<buf, out, rpc, want, rdata, careful>>
  BY DEF Publishes, Publish, readerVars
<1>2. /\ kfifo_len \in Nat /\ wlen[w] \in Nat /\ wlen[w] + kfifo_len <= FifoBytes
      /\ RecordBytes \in Nat \ {0}
  BY <1>1, Level DEF FillInv, Room, WriterTypes, FifoAssumption
<1>3. kfifo_len' = kfifo_len + wlen[w]
  BY <1>2, PublishAdds DEF Publishes
<1>4. careful' <=> careful
  BY <1>1
<1> SUFFICES ASSUME careful PROVE WholeInv'
  BY <1>4 DEF WholeInv
<1>5. wlen[w] \in {0, RecordBytes} /\ kfifo_len % RecordBytes = 0
  BY <1>1 DEF WholeInv
<1>6. kfifo_len' % RecordBytes = 0
  <2>1. wlen[w] % RecordBytes = 0
    BY <1>2, <1>5
  <2> QED
    BY <1>2, <1>3, <1>5, <2>1, RecordsLess
<1>7. \A v \in Writers : wpc'[v] # "publish"
  BY <1>1 DEF LocksInv, Writing, WriterTypes
<1>8. ASSUME NEW i \in 0 .. kfifo_len' - 1 PROVE InRecord(i)
  <2>1. CASE i < kfifo_len
    BY <1>2, <2>1 DEF WholeInv
  <2>2. CASE i >= kfifo_len
    <3>1. PICK k \in Nat : i = kfifo_len + k
      <4>1. i - kfifo_len \in Nat /\ i = kfifo_len + (i - kfifo_len)
        BY <1>2, <2>2
      <4> QED
        BY <4>1
    <3>2. k \in 0 .. wlen[w] - 1 /\ 0 \in 0 .. wlen[w] - 1 /\ wlen[w] = RecordBytes
      BY <1>2, <1>3, <1>5, <3>1
    <3>3. At(kfifo_len + k) = <<w, k>> /\ At(kfifo_len + 0) = <<w, 0>>
      BY <1>1, <3>2 DEF DataInv, Copied
    <3>4. i % RecordBytes = k
      <4>0. kfifo_len \in Int /\ k \in Int
        BY <1>2
      <4>1. (kfifo_len + k) % RecordBytes = k % RecordBytes
        BY <1>5, <4>0, PlaceInRecord
      <4>2. k % RecordBytes = k
        BY <1>2, <3>2, Wrapped
      <4> QED
        BY <3>1, <4>1, <4>2
    <3>5. i - k = kfifo_len + 0
      BY <1>2, <3>1
    <3> QED
      BY <3>1, <3>3, <3>4, <3>5 DEF InRecord
  <2> QED
    BY <1>2, <2>1, <2>2
<1>9. \A i \in 0 .. kfifo_len' - 1 : InRecord(i)'
  BY <1>1, <1>8 DEF InRecord, At
<1>10. \A r \in Readers : want'[r] % RecordBytes = 0 /\ Len(rdata'[r]) % RecordBytes = 0
  BY <1>1 DEF WholeInv
<1> QED
  BY <1>6, <1>7, <1>9, <1>10 DEF WholeInv

(* Out of a fifo of whole records whole records are copied.                *)
LEMMA WholeCopy ==
  ASSUME FifoAssumption, FifoInv, WholeInv, NEW r \in Readers, NEW n \in 0 .. kfifo_len,
         NEW stage \in {"idle", "test", "advance"}, Copies(r, n, stage)
  PROVE  WholeInv'
<1> USE DEF FifoInv
<1>1. /\ UNCHANGED <<buf, in, out, wpc, wlen, careful>> /\ kfifo_len' = kfifo_len
      /\ rdata' = [rdata EXCEPT ![r] = Bytes(n)]
      /\ want' = want \/ want' = [want EXCEPT ![r] = 0]
      /\ careful => n = want[r] \/ n = kfifo_len
  BY DEF Copies, fifoVars, writerVars, kfifo_len
<1>2. n \in Nat /\ Len(Bytes(n)) = n /\ RecordBytes \in Nat \ {0}
  BY Level, BytesAre DEF FifoAssumption
<1>3. careful' <=> careful
  BY <1>1
<1> SUFFICES ASSUME careful PROVE WholeInv'
  BY <1>3 DEF WholeInv
<1>4. n % RecordBytes = 0 /\ 0 % RecordBytes = 0
  <2>1. want[r] % RecordBytes = 0 /\ kfifo_len % RecordBytes = 0
    BY DEF WholeInv
  <2>2. n = want[r] \/ n = kfifo_len
    BY <1>1
  <2>3. 0 % RecordBytes = 0
    BY <1>2
  <2> QED
    BY <2>1, <2>2, <2>3
<1>5. ASSUME NEW s \in Readers PROVE Len(rdata'[s]) % RecordBytes = 0
  <2>1. rdata'[s] = IF s = r THEN Bytes(n) ELSE rdata[s]
    BY <1>1 DEF ReaderTypes
  <2> QED
    BY <1>2, <1>4, <2>1 DEF WholeInv
<1>6. ASSUME NEW s \in Readers PROVE want'[s] % RecordBytes = 0
  <2>1. want'[s] = want[s] \/ want'[s] = 0
    BY <1>1 DEF ReaderTypes
  <2> QED
    BY <1>4, <2>1 DEF WholeInv
<1>7. /\ kfifo_len' % RecordBytes = 0
      /\ \A w \in Writers : wpc'[w] = "publish" => wlen'[w] \in {0, RecordBytes}
  BY <1>1 DEF WholeInv
<1>8. \A i \in 0 .. kfifo_len' - 1 : InRecord(i)'
  BY <1>1 DEF WholeInv, InRecord, At
<1> QED
  BY <1>5, <1>6, <1>7, <1>8 DEF WholeInv

(* The fifo still begins with a record.                                    *)
LEMMA WholeAdvance ==
  ASSUME FifoAssumption, FifoInv, WholeInv, NEW r \in Readers, Advances(r)
  PROVE  WholeInv'
<1> USE DEF FifoInv
<1>1. /\ rpc[r] = "advance" /\ rdata' = [rdata EXCEPT ![r] = <<>>]
      /\ want' = [want EXCEPT ![r] = 0]
      /\ wpc' = wpc /\ wlen' = wlen /\ careful' = careful
  BY DEF Advances, ReadAdvance, Goes, writerVars
<1>2. PICK n \in Nat : n = Len(rdata[r])
  BY <1>1, Level DEF FillInv, Taken
<1>3. n \in 1 .. kfifo_len /\ kfifo_len \in Nat /\ RecordBytes \in Nat \ {0}
  BY <1>1, <1>2, Level DEF FillInv, Taken, FifoAssumption
<1>4. kfifo_len' = kfifo_len - n /\ \A i \in Int : At(i)' = At(n + i)
  BY <1>2, <1>3, AdvanceTakes DEF Advances, FillInv
<1>5. careful' <=> careful
  BY <1>1
<1> SUFFICES ASSUME careful PROVE WholeInv'
  BY <1>5 DEF WholeInv
<1>6. n % RecordBytes = 0 /\ 0 % RecordBytes = 0 /\ kfifo_len % RecordBytes = 0
  <2>1. Len(rdata[r]) % RecordBytes = 0 /\ kfifo_len % RecordBytes = 0
    BY DEF WholeInv
  <2>2. 0 % RecordBytes = 0
    BY <1>3
  <2> QED
    BY <1>2, <2>1, <2>2
<1>7. kfifo_len' % RecordBytes = 0
  <2>1. n \in Int /\ kfifo_len \in Int
    BY <1>3
  <2> QED
    BY <1>4, <1>6, <2>1, RecordsLess
<1>8. ASSUME NEW s \in Readers
      PROVE  want'[s] % RecordBytes = 0 /\ Len(rdata'[s]) % RecordBytes = 0
  <2>1. /\ want'[s] = IF s = r THEN 0 ELSE want[s]
        /\ rdata'[s] = IF s = r THEN <<>> ELSE rdata[s]
    BY <1>1 DEF ReaderTypes
  <2>2. Len(<<>>) = 0
    OBVIOUS
  <2> QED
    BY <1>6, <2>1, <2>2 DEF WholeInv
<1>9. ASSUME NEW i \in 0 .. kfifo_len' - 1 PROVE InRecord(i)'
  <2>1. i \in Nat /\ n + i \in 0 .. kfifo_len - 1
    BY <1>3, <1>4
  <2>2. (n + i) % RecordBytes = i % RecordBytes /\ i % RecordBytes \in Int
    <3>1. n \in Int /\ i \in Int
      BY <1>3, <2>1
    <3>2. (n + i) % RecordBytes = i % RecordBytes
      BY <1>6, <3>1, PlaceInRecord
    <3> QED
      BY <1>3, <3>1, <3>2
  <2>3. PICK k \in Int : k = i - (i % RecordBytes)
    <3>1. i - (i % RecordBytes) \in Int
      BY <2>1, <2>2
    <3> QED
      BY <3>1
  <2>4. (n + i) - (i % RecordBytes) = n + k
    BY <2>1, <2>2, <2>3
  <2>5. InRecord(n + i)
    BY <2>1 DEF WholeInv
  <2>6. At(n + i) = <<At(n + k)[1], i % RecordBytes>>
    BY <2>2, <2>4, <2>5 DEF InRecord
  <2>7. At(i)' = At(n + i) /\ At(k)' = At(n + k)
    BY <1>4, <2>1
  <2>8. At(i)' = <<At(k)'[1], i % RecordBytes>>
    BY <2>6, <2>7
  <2> QED
    BY <2>3, <2>8 DEF InRecord
<1>10. \A w \in Writers : wpc'[w] = "publish" => wlen'[w] \in {0, RecordBytes}
  BY <1>1 DEF WholeInv
<1> QED
  BY <1>7, <1>8, <1>9, <1>10 DEF WholeInv

(* Whole records are inductive.                                            *)
LEMMA WholeStep ==
  FifoAssumption /\ FifoInv /\ DataInv /\ WholeInv /\ [Next]_vars => WholeInv'
<1> SUFFICES ASSUME FifoAssumption, FifoInv, DataInv, WholeInv, [Next]_vars PROVE WholeInv'
  OBVIOUS
<1>1. CASE Next
  <2>1. CASE Moves /\ UNCHANGED <<careful, delivered>>
    BY <2>1, MovesKeep DEF FifoInv
  <2>2. ASSUME NEW w \in Writers, Fills(w) PROVE WholeInv'
    BY <2>2, WholeFill
  <2>3. ASSUME NEW w \in Writers, Publishes(w) PROVE WholeInv'
    BY <2>3, WholePublish
  <2>4. ASSUME NEW r \in Readers, Advances(r) PROVE WholeInv'
    BY <2>4, WholeAdvance
  <2>5. ASSUME NEW r \in Readers, NEW n \in 0 .. kfifo_len,
               NEW stage \in {"idle", "test", "advance"}, Copies(r, n, stage)
        PROVE  WholeInv'
    BY <2>5, WholeCopy
  <2>6. FifoTypes /\ ReaderTypes
    BY DEF FifoInv
  <2> QED
    BY <1>1, <2>1, <2>2, <2>3, <2>4, <2>5, <2>6, StepIs
<1>2. CASE UNCHANGED vars
  <2>1. UNCHANGED <<careful, buf, in, out, wpc, wlen, want, rdata>>
    BY <1>2 DEF vars, flowVars, fifoVars, writerVars, readerVars
  <2> QED
    BY <2>1 DEF WholeInv, InRecord, At, kfifo_len
<1> QED
  BY <1>1, <1>2

(* The oldest bytes of a fifo of whole records, as many as make records.   *)
LEMMA WholeBytes ==
  ASSUME FifoAssumption, FifoInv, WholeInv, careful,
         NEW n \in 0 .. kfifo_len, n % RecordBytes = 0
  PROVE  Whole(Bytes(n))
<1>1. /\ kfifo_len \in Nat /\ RecordBytes \in Nat \ {0} /\ n \in Nat
      /\ Len(Bytes(n)) = n /\ \A i \in 1 .. n : Bytes(n)[i] = At(i - 1)
  <2>1. kfifo_len \in Nat /\ FifoTypes
    BY Level DEF FifoInv
  <2>2. n \in Nat /\ RecordBytes \in Nat \ {0}
    BY <2>1 DEF FifoAssumption
  <2>3. Len(Bytes(n)) = n /\ \A i \in 1 .. n : Bytes(n)[i] = At(i - 1)
    BY <2>1, <2>2, BytesAre
  <2> QED
    BY <2>1, <2>2, <2>3
<1>2. ASSUME NEW i \in 1 .. n
      PROVE  Bytes(n)[i] = <<Bytes(n)[i - ((i - 1) % RecordBytes)][1], (i - 1) % RecordBytes>>
  <2>1. PICK j \in 0 .. n - 1 : j = i - 1
    OBVIOUS
  <2>2. PICK a \in 0 .. j : a = j % RecordBytes
    <3>1. j % RecordBytes \in 0 .. j
      BY <1>1
    <3> QED
      BY <3>1
  <2>3. j \in 0 .. kfifo_len - 1
    BY <1>1
  <2>4. At(j) = <<At(j - a)[1], a>>
    BY <2>2, <2>3 DEF WholeInv, InRecord
  <2>5. i \in 1 .. n /\ i - a \in 1 .. n /\ (i - a) - 1 = j - a
    BY <1>1, <2>1
  <2>6. Bytes(n)[i] = At(j) /\ Bytes(n)[i - a] = At(j - a)
    BY <1>1, <2>1, <2>5
  <2> QED
    BY <2>1, <2>2, <2>4, <2>6
<1> QED
  BY <1>1, <1>2 DEF Whole

(* Records stay whole while every read is of whole records (kfifo_in on a  *)
(* full fifo, consumer_lock between draw and finish works, kfifo_to_user). *)
THEOREM RecordsStayWhole ==
  ASSUME FifoAssumption
  PROVE  Spec => []WholeRecords
<1>1. Init => FifoInv /\ DataInv /\ WholeInv
  BY FifoStart
<1>2. FifoInv /\ DataInv /\ WholeInv /\ [Next]_vars => FifoInv' /\ DataInv' /\ WholeInv'
  BY FifoStep, WholeStep
<1>3. FifoInv /\ WholeInv => WholeRecords
  <2> SUFFICES ASSUME FifoInv, WholeInv, careful
               PROVE  /\ kfifo_len <= FifoBytes
                      /\ Whole(Bytes(kfifo_len))
                      /\ \A r \in Readers : Whole(rdata[r])
    BY DEF WholeRecords
  <2>1. kfifo_len \in Nat /\ RecordBytes \in Nat \ {0}
    BY Level DEF FifoInv, FifoAssumption
  <2>2. Whole(Bytes(kfifo_len))
    <3>1. PICK n \in 0 .. kfifo_len : n = kfifo_len
      BY <2>1
    <3>2. n % RecordBytes = 0
      BY <3>1 DEF WholeInv
    <3>3. Whole(Bytes(n))
      BY <3>2, WholeBytes
    <3> QED
      BY <3>1, <3>3
  <2>3. ASSUME NEW r \in Readers PROVE Whole(rdata[r])
    <3>1. CASE rpc[r] = "advance"
      <4>1. PICK n \in 1 .. kfifo_len : n = Len(rdata[r])
        BY <3>1 DEF FifoInv, FillInv, Taken
      <4>2. rdata[r] = Bytes(n)
        BY <3>1, <4>1 DEF FifoInv, FillInv, Taken
      <4>3. n % RecordBytes = 0
        BY <4>1 DEF WholeInv
      <4>4. n \in 0 .. kfifo_len
        BY <2>1
      <4> QED
        BY <4>2, <4>3, <4>4, WholeBytes
    <3>2. CASE rpc[r] # "advance"
      <4>1. rdata[r] = <<>> /\ Len(<<>>) = 0
        BY <3>2 DEF FifoInv, FillInv, Taken
      <4> QED
        BY <2>1, <4>1 DEF Whole
    <3> QED
      BY <3>1, <3>2
  <2> QED
    BY <2>2, <2>3 DEF FifoInv, FillInv
<1> QED
  BY <1>1, <1>2, <1>3, PTL DEF Spec

-----------------------------------------------------------------------------
(* The device is the stream.  A number of bytes that makes whole records.  *)
LEMMA InRecords ==
  ASSUME FifoAssumption, NEW n \in Nat, n % RecordBytes = 0
  PROVE  \E k \in Nat : n = RecordBytes * k
<1>1. RecordBytes \in Nat \ {0}
  BY DEF FifoAssumption
<1>2. n \div RecordBytes \in Nat /\ n = RecordBytes * (n \div RecordBytes) + (n % RecordBytes)
  BY <1>1
<1>3. n = RecordBytes * (n \div RecordBytes)
  BY <1>2
<1> QED
  BY <1>2, <1>3

(* Records takes the producer of the first byte of each.                   *)
Producers(bytes, queue, k) ==
  /\ queue \in Seq(Writers) /\ Len(queue) = k
  /\ \A i \in 1 .. k : /\ RecordBytes * (i - 1) + 1 \in 1 .. Len(bytes)
                       /\ queue[i] = bytes[RecordBytes * (i - 1) + 1][1]

(* So does every number of whole records.                                  *)
LEMMA RecordsOf ==
  ASSUME FifoAssumption, NEW k \in Nat, NEW bytes \in Seq(Writers \X Nat),
         Len(bytes) = RecordBytes * k
  PROVE  Producers(bytes, Records(bytes), k)
<1>1. RecordBytes \in Nat \ {0}
  BY DEF FifoAssumption
<1>2. Len(bytes) \div RecordBytes = k
  <2>1. 0 \in 0 .. RecordBytes - 1 /\ k \in Int /\ Len(bytes) = RecordBytes * k + 0
    BY <1>1
  <2> QED
    BY <1>1, <2>1, RemainderOf
<1>3. ASSUME NEW i \in 1 .. k
      PROVE  /\ RecordBytes * (i - 1) + 1 \in 1 .. Len(bytes)
             /\ (i - 1) * RecordBytes + 1 = RecordBytes * (i - 1) + 1
  <2>1. PICK j \in Nat, rest \in Nat : j = i - 1 /\ k = j + 1 + rest
    <3>1. i - 1 \in Nat /\ k - i \in Nat /\ k = (i - 1) + 1 + (k - i)
      OBVIOUS
    <3> QED
      BY <3>1
  <2>2. RecordBytes * k = RecordBytes * j + RecordBytes + RecordBytes * rest
    BY <1>1, <2>1
  <2>3. RecordBytes * j \in Nat /\ RecordBytes * rest \in Nat /\ j * RecordBytes = RecordBytes * j
    BY <1>1, <2>1
  <2>4. PICK a \in Nat, b \in Nat : a = RecordBytes * j /\ b = RecordBytes * rest
    BY <2>3
  <2>5. Len(bytes) = a + RecordBytes + b /\ i - 1 = j
    BY <1>1, <2>1, <2>2, <2>4
  <2>6. a + 1 \in 1 .. Len(bytes)
    BY <1>1, <2>5
  <2> QED
    BY <2>3, <2>4, <2>5, <2>6
<1>4. Records(bytes) = [i \in 1 .. k |-> bytes[RecordBytes * (i - 1) + 1][1]]
  BY <1>2, <1>3 DEF Records
<1>5. ASSUME NEW i \in 1 .. k PROVE bytes[RecordBytes * (i - 1) + 1][1] \in Writers
  <2>1. PICK p \in 1 .. Len(bytes) : p = RecordBytes * (i - 1) + 1
    BY <1>3
  <2>2. bytes[p] \in Writers \X Nat
    OBVIOUS
  <2> QED
    BY <2>1, <2>2
<1>6. Records(bytes) \in Seq(Writers) /\ Len(Records(bytes)) = k
  BY <1>4, <1>5
<1>7. \A i \in 1 .. k : Records(bytes)[i] = bytes[RecordBytes * (i - 1) + 1][1]
  BY <1>4
<1> QED
  BY <1>3, <1>6, <1>7 DEF Producers

(* Bytes that end with one record more.                                    *)
Longer(bytes, more, k, w) ==
  /\ Len(bytes) = RecordBytes * k /\ Len(more) = RecordBytes * (k + 1)
  /\ \A i \in 1 .. Len(bytes) : more[i] = bytes[i]
  /\ more[RecordBytes * k + 1] = <<w, 0>>
Appends(queue, queue2, w) == queue2 = Append(queue, w)

(* Then the producers are one more.                                        *)
LEMMA RecordsAppend ==
  ASSUME FifoAssumption, NEW k \in Nat, NEW w \in Writers,
         NEW bytes \in Seq(Writers \X Nat), NEW more \in Seq(Writers \X Nat),
         Longer(bytes, more, k, w)
  PROVE  Appends(Records(bytes), Records(more), w)
<1> USE DEF Longer, Appends
<1>0. Producers(bytes, Records(bytes), k)
  BY RecordsOf
<1>1. /\ Records(bytes) \in Seq(Writers) /\ Len(Records(bytes)) = k
      /\ \A i \in 1 .. k : /\ RecordBytes * (i - 1) + 1 \in 1 .. Len(bytes)
                           /\ Records(bytes)[i] = bytes[RecordBytes * (i - 1) + 1][1]
  BY <1>0 DEF Producers
<1>2. /\ Records(more) \in Seq(Writers) /\ Len(Records(more)) = k + 1
      /\ \A i \in 1 .. k + 1 : Records(more)[i] = more[RecordBytes * (i - 1) + 1][1]
  <2>1. PICK l \in Nat : l = k + 1
    OBVIOUS
  <2>2. Producers(more, Records(more), l)
    BY <2>1, RecordsOf
  <2> QED
    BY <2>1, <2>2 DEF Producers
<1>3. ASSUME NEW i \in 1 .. k PROVE Records(more)[i] = Records(bytes)[i]
  <2>1. PICK p \in 1 .. Len(bytes) : p = RecordBytes * (i - 1) + 1
    BY <1>1
  <2>2. Records(bytes)[i] = bytes[p][1]
    BY <1>1, <2>1
  <2>3. i \in 1 .. k + 1
    OBVIOUS
  <2>4. Records(more)[i] = more[p][1]
    BY <1>2, <2>1, <2>3
  <2> QED
    BY <2>1, <2>2, <2>4
<1>4. Records(more)[k + 1] = w
  <2>1. k + 1 \in 1 .. k + 1 /\ (k + 1) - 1 = k
    OBVIOUS
  <2>2. Records(more)[k + 1] = more[RecordBytes * k + 1][1]
    BY <1>2, <2>1
  <2> QED
    BY <2>2
<1>5. /\ Append(Records(bytes), w) \in Seq(Writers)
      /\ Len(Append(Records(bytes), w)) = k + 1
      /\ \A i \in 1 .. k : Append(Records(bytes), w)[i] = Records(bytes)[i]
      /\ Append(Records(bytes), w)[k + 1] = w
  <2>1. PICK q \in Seq(Writers) : q = Records(bytes) /\ Len(q) = k
    BY <1>1
  <2>2. /\ Append(q, w) \in Seq(Writers) /\ Len(Append(q, w)) = k + 1
        /\ \A i \in 1 .. k : Append(q, w)[i] = q[i]
        /\ Append(q, w)[k + 1] = w
    BY <2>1
  <2> QED
    BY <2>1, <2>2
<1>6. \A i \in 1 .. k + 1 : Records(more)[i] = Append(Records(bytes), w)[i]
  <2>1. \A i \in 1 .. k + 1 : i \in 1 .. k \/ i = k + 1
    OBVIOUS
  <2> QED
    BY <1>3, <1>4, <1>5, <2>1
<1> QED
  BY <1>2, <1>5, <1>6

(* Bytes that a read takes apart between two records.                      *)
Parts(bytes, head, tail, m, k) ==
  /\ Len(bytes) = RecordBytes * m /\ Len(head) = RecordBytes * k
  /\ Len(tail) = RecordBytes * (m - k)
  /\ \A i \in 1 .. Len(head) : head[i] = bytes[i]
  /\ \A i \in 1 .. Len(tail) : tail[i] = bytes[RecordBytes * k + i]
Delivers(queue, first, queue2, m, k) ==
  Len(queue) = m /\ first = SubSeq(queue, 1, k) /\ queue2 = SubSeq(queue, k + 1, m)

(* Then so are their producers.                                            *)
LEMMA RecordsSplit ==
  ASSUME FifoAssumption, NEW m \in Nat, NEW k \in 1 .. m,
         NEW bytes \in Seq(Writers \X Nat), NEW head \in Seq(Writers \X Nat),
         NEW tail \in Seq(Writers \X Nat), Parts(bytes, head, tail, m, k)
  PROVE  Delivers(Records(bytes), Records(head), Records(tail), m, k)
<1> USE DEF Parts
<1>1. /\ Records(bytes) \in Seq(Writers) /\ Len(Records(bytes)) = m
      /\ \A i \in 1 .. m : Records(bytes)[i] = bytes[RecordBytes * (i - 1) + 1][1]
  <2>1. Producers(bytes, Records(bytes), m)
    BY RecordsOf
  <2> QED
    BY <2>1 DEF Producers
<1>2. /\ Records(head) \in Seq(Writers) /\ Len(Records(head)) = k
      /\ \A i \in 1 .. k : /\ RecordBytes * (i - 1) + 1 \in 1 .. Len(head)
                           /\ Records(head)[i] = head[RecordBytes * (i - 1) + 1][1]
  <2>1. k \in Nat
    OBVIOUS
  <2>2. Producers(head, Records(head), k)
    BY <2>1, RecordsOf
  <2> QED
    BY <2>2 DEF Producers
<1>3. /\ Records(tail) \in Seq(Writers) /\ Len(Records(tail)) = m - k
      /\ \A i \in 1 .. m - k : /\ RecordBytes * (i - 1) + 1 \in 1 .. Len(tail)
                               /\ Records(tail)[i] = tail[RecordBytes * (i - 1) + 1][1]
  <2>1. PICK j \in Nat : j = m - k
    OBVIOUS
  <2>2. Producers(tail, Records(tail), j)
    BY <2>1, RecordsOf
  <2> QED
    BY <2>1, <2>2 DEF Producers
<1>4. ASSUME NEW i \in 1 .. k PROVE Records(head)[i] = Records(bytes)[i]
  <2>1. i \in 1 .. m
    OBVIOUS
  <2>2. PICK p \in 1 .. Len(head) : p = RecordBytes * (i - 1) + 1
    BY <1>2
  <2>3. Records(head)[i] = head[p][1] /\ Records(bytes)[i] = bytes[p][1]
    BY <1>1, <1>2, <2>1, <2>2
  <2> QED
    BY <2>2, <2>3
<1>5. ASSUME NEW i \in 1 .. m - k PROVE Records(tail)[i] = Records(bytes)[k + i]
  <2>1. k + i \in 1 .. m
    OBVIOUS
  <2>2. Records(bytes)[k + i] = bytes[RecordBytes * ((k + i) - 1) + 1][1]
    BY <1>1, <2>1
  <2>3. Records(tail)[i] = bytes[RecordBytes * k + (RecordBytes * (i - 1) + 1)][1]
    BY <1>3
  <2>4. RecordBytes * ((k + i) - 1) + 1 = RecordBytes * k + (RecordBytes * (i - 1) + 1)
    <3>1. RecordBytes \in Int /\ k \in Int /\ i \in Int
      BY DEF FifoAssumption
    <3> QED
      BY <3>1
  <2> QED
    BY <2>2, <2>3, <2>4
<1>6. Records(head) = SubSeq(Records(bytes), 1, k)
  <2>1. /\ SubSeq(Records(bytes), 1, k) \in Seq(Writers)
        /\ Len(SubSeq(Records(bytes), 1, k)) = k
        /\ \A i \in 1 .. k : SubSeq(Records(bytes), 1, k)[i] = Records(bytes)[i]
    BY <1>1
  <2> QED
    BY <1>2, <1>4, <2>1
<1>7. Records(tail) = SubSeq(Records(bytes), k + 1, m)
  <2>0. PICK q \in Seq(Writers) : q = Records(bytes)
    BY <1>1
  <2>1. Len(q) = m /\ SubSeq(q, k + 1, m) \in Seq(Writers) /\ Len(SubSeq(q, k + 1, m)) = m - k
    BY <1>1, <2>0
  <2>2. ASSUME NEW i \in 1 .. m - k PROVE SubSeq(q, k + 1, m)[i] = q[k + i]
    <3>1. i \in 1 .. m - (k + 1) + 1 /\ (k + 1) + i - 1 = k + i
      OBVIOUS
    <3> QED
      BY <2>1, <3>1
  <2> QED
    BY <1>3, <1>5, <2>0, <2>1, <2>2
<1> QED
  BY <1>1, <1>6, <1>7 DEF Delivers

(* A work that publishes appends its record, if it had room for it.        *)
LEMMA PublishProduces ==
  ASSUME FifoAssumption, FifoInv, DataInv, WholeInv, careful, FifoTypes',
         NEW w \in Writers, Publishes(w)
  PROVE  \/ Records(Bytes(kfifo_len))' = Append(Records(Bytes(kfifo_len)), w)
         \/ Records(Bytes(kfifo_len))' = Records(Bytes(kfifo_len))
<1>1. wpc[w] = "publish" /\ UNCHANGED <<buf, out>> /\ FifoTypes
  BY DEF Publishes, Publish, FifoInv
<1>2. /\ kfifo_len \in Nat /\ wlen[w] \in Nat /\ wlen[w] + kfifo_len <= FifoBytes
      /\ RecordBytes \in Nat \ {0}
  BY <1>1, Level DEF FifoInv, FillInv, Room, WriterTypes, FifoAssumption
<1>3. kfifo_len' = kfifo_len + wlen[w]
  BY <1>1, <1>2, PublishAdds DEF Publishes
<1>4. wlen[w] \in {0, RecordBytes} /\ kfifo_len % RecordBytes = 0
  BY <1>1 DEF WholeInv
<1>5. CASE wlen[w] = 0
  <2>1. kfifo_len' = kfifo_len
    BY <1>2, <1>3, <1>5
  <2> QED
    BY <1>1, <2>1 DEF Records, Bytes
<1>6. CASE wlen[w] = RecordBytes
  <2>1. PICK k \in Nat : kfifo_len = RecordBytes * k
    BY <1>2, <1>4, InRecords
  <2>2. PICK m \in Nat : m = kfifo_len + RecordBytes
    BY <1>2
  <2>3. m = RecordBytes * (k + 1)
    BY <1>2, <2>1, <2>2
  <2>4. /\ Bytes(m)' \in Seq(Writers \X Nat) /\ Len(Bytes(m)') = m
        /\ \A i \in 1 .. m : Bytes(m)'[i] = At(i - 1)'
    BY BytesThen
  <2>5. /\ Bytes(kfifo_len) \in Seq(Writers \X Nat) /\ Len(Bytes(kfifo_len)) = kfifo_len
        /\ \A i \in 1 .. kfifo_len : Bytes(kfifo_len)[i] = At(i - 1)
    BY <1>1, <1>2, BytesAre
  <2>6. \A i \in Int : At(i)' = At(i)
    BY <1>1 DEF At
  <2>7. ASSUME NEW i \in 1 .. kfifo_len PROVE Bytes(m)'[i] = Bytes(kfifo_len)[i]
    <3>1. i \in 1 .. m /\ i - 1 \in Int
      BY <1>2, <2>2
    <3> QED
      BY <2>4, <2>5, <2>6, <3>1
  <2>8. Bytes(m)'[RecordBytes * k + 1] = <<w, 0>>
    <3>1. PICK last \in Nat : last = kfifo_len
      BY <1>2
    <3>2. last + 1 \in 1 .. m /\ (last + 1) - 1 = last /\ kfifo_len + 0 = last
      BY <1>2, <2>2, <3>1
    <3>3. 0 \in 0 .. wlen[w] - 1
      BY <1>2, <1>6
    <3>4. At(kfifo_len + 0) = <<w, 0>>
      BY <1>1, <3>3 DEF DataInv, Copied
    <3>5. Bytes(m)'[last + 1] = At(last)'
      BY <2>4, <3>2
    <3>6. At(last)' = At(last)
      BY <2>6
    <3> QED
      BY <2>1, <3>1, <3>2, <3>4, <3>5, <3>6
  <2>9. Records(Bytes(m)') = Append(Records(Bytes(kfifo_len)), w)
    <3>1. PICK more \in Seq(Writers \X Nat) : more = Bytes(m)'
      BY <2>4
    <3>2. PICK bytes \in Seq(Writers \X Nat) : bytes = Bytes(kfifo_len)
      BY <2>5
    <3>3. Longer(bytes, more, k, w)
      <4>1. Len(bytes) = RecordBytes * k /\ Len(more) = RecordBytes * (k + 1)
        BY <2>1, <2>3, <2>4, <2>5, <3>1, <3>2
      <4>2. \A i \in 1 .. Len(bytes) : more[i] = bytes[i]
        BY <2>5, <2>7, <3>1, <3>2
      <4>3. more[RecordBytes * k + 1] = <<w, 0>>
        BY <2>8, <3>1
      <4> QED
        BY <4>1, <4>2, <4>3 DEF Longer
    <3>4. Appends(Records(bytes), Records(more), w)
      BY <3>3, RecordsAppend
    <3> QED
      BY <3>1, <3>2, <3>4 DEF Appends
  <2>10. kfifo_len' = m
    BY <1>3, <1>6, <2>2
  <2>11. Bytes(kfifo_len)' = Bytes(m)'
    BY <2>10 DEF Bytes
  <2>12. Records(Bytes(kfifo_len))' = Records(Bytes(m)')
    BY <2>11 DEF Records
  <2> QED
    BY <2>9, <2>12
<1> QED
  BY <1>4, <1>5, <1>6

(* A read that returns delivers the oldest records.                        *)
LEMMA AdvanceDelivers ==
  ASSUME FifoAssumption, FifoInv, WholeInv, careful, FifoTypes', NEW r \in Readers, Advances(r)
  PROVE  LET queue == Records(Bytes(kfifo_len))
         IN  \E k \in 1 .. Len(queue) :
               /\ delivered' = SubSeq(queue, 1, k)
               /\ Records(Bytes(kfifo_len))' = SubSeq(queue, k + 1, Len(queue))
<1>1. rpc[r] = "advance" /\ delivered' = Records(rdata[r]) /\ FifoTypes
  BY DEF Advances, ReadAdvance, FifoInv
<1>2. PICK n \in Nat : n = Len(rdata[r])
  BY <1>1, Level DEF FifoInv, FillInv, Taken
<1>3. n \in 1 .. kfifo_len /\ kfifo_len \in Nat /\ RecordBytes \in Nat \ {0} /\ rdata[r] = Bytes(n)
  BY <1>1, <1>2, Level DEF FifoInv, FillInv, Taken, FifoAssumption
<1>4. kfifo_len' = kfifo_len - n /\ \A i \in Int : At(i)' = At(n + i)
  <2>1. kfifo_len <= FifoBytes /\ ReadAdvance(r)
    BY DEF Advances, FifoInv, FillInv
  <2>2. Len(rdata[r]) \in 0 .. kfifo_len
    BY <1>2, <1>3
  <2>3. /\ kfifo_len' = kfifo_len - Len(rdata[r])
        /\ \A i \in Int : At(i)' = At(Len(rdata[r]) + i)
    BY <1>1, <2>1, <2>2, AdvanceTakes
  <2> QED
    BY <1>2, <2>3
<1>5. n % RecordBytes = 0 /\ kfifo_len % RecordBytes = 0
  BY <1>2 DEF WholeInv
<1>6. PICK k \in Nat : n = RecordBytes * k
  BY <1>5, InRecords
<1>7. PICK m \in Nat : kfifo_len = RecordBytes * m
  BY <1>3, <1>5, InRecords
<1>8. k \in 1 .. m
  <2>1. k # 0
    BY <1>3, <1>6
  <2>2. ~(k > m)
    <3> SUFFICES ASSUME k > m PROVE FALSE
      OBVIOUS
    <3>1. PICK d \in Nat : k = m + 1 + d
      <4>1. k - m - 1 \in Nat /\ k = m + 1 + (k - m - 1)
        OBVIOUS
      <4> QED
        BY <4>1
    <3>2. /\ RecordBytes * k = RecordBytes * m + RecordBytes + RecordBytes * d
          /\ RecordBytes * d \in Nat /\ RecordBytes * m \in Nat
      BY <1>3, <3>1
    <3> QED
      BY <1>3, <1>6, <1>7, <3>2
  <2> QED
    BY <2>1, <2>2
<1>9. PICK l \in Nat : l = kfifo_len - n
  BY <1>3
<1>10. l = RecordBytes * (m - k)
  BY <1>3, <1>6, <1>7, <1>9
<1>11. /\ Bytes(l)' \in Seq(Writers \X Nat) /\ Len(Bytes(l)') = l
       /\ \A i \in 1 .. l : Bytes(l)'[i] = At(i - 1)'
  BY BytesThen
<1>12. /\ Bytes(kfifo_len) \in Seq(Writers \X Nat) /\ Len(Bytes(kfifo_len)) = kfifo_len
       /\ \A i \in 1 .. kfifo_len : Bytes(kfifo_len)[i] = At(i - 1)
  BY <1>1, <1>3, BytesAre
<1>13. /\ Bytes(n) \in Seq(Writers \X Nat) /\ Len(Bytes(n)) = n
       /\ \A i \in 1 .. n : Bytes(n)[i] = At(i - 1)
  BY <1>1, BytesAre
<1>14. \A i \in 1 .. n : Bytes(n)[i] = Bytes(kfifo_len)[i]
  BY <1>3, <1>12, <1>13
<1>15. ASSUME NEW i \in 1 .. l PROVE Bytes(l)'[i] = Bytes(kfifo_len)[RecordBytes * k + i]
  <2>1. PICK j \in Int : j = i - 1
    OBVIOUS
  <2>2. n + i \in 1 .. kfifo_len /\ (n + i) - 1 = n + j
    BY <1>3, <1>9, <2>1
  <2>3. Bytes(l)'[i] = At(j)' /\ At(j)' = At(n + j)
    BY <1>4, <1>11, <2>1
  <2>4. Bytes(kfifo_len)[n + i] = At(n + j)
    BY <1>12, <2>2
  <2> QED
    BY <1>6, <2>3, <2>4
<1>16. /\ Len(Records(Bytes(kfifo_len))) = m
       /\ Records(Bytes(n)) = SubSeq(Records(Bytes(kfifo_len)), 1, k)
       /\ Records(Bytes(l)') = SubSeq(Records(Bytes(kfifo_len)), k + 1, m)
  <2>1. PICK bytes \in Seq(Writers \X Nat) : bytes = Bytes(kfifo_len)
    BY <1>12
  <2>2. PICK head \in Seq(Writers \X Nat) : head = Bytes(n)
    BY <1>13
  <2>3. PICK tail \in Seq(Writers \X Nat) : tail = Bytes(l)'
    BY <1>11
  <2>4. Parts(bytes, head, tail, m, k)
    <3>1. /\ Len(bytes) = RecordBytes * m /\ Len(head) = RecordBytes * k
          /\ Len(tail) = RecordBytes * (m - k)
      BY <1>6, <1>7, <1>10, <1>11, <1>12, <1>13, <2>1, <2>2, <2>3
    <3>2. /\ \A i \in 1 .. Len(head) : head[i] = bytes[i]
          /\ \A i \in 1 .. Len(tail) : tail[i] = bytes[RecordBytes * k + i]
      BY <1>11, <1>13, <1>14, <1>15, <2>1, <2>2, <2>3
    <3> QED
      BY <3>1, <3>2 DEF Parts
  <2>5. Delivers(Records(bytes), Records(head), Records(tail), m, k)
    BY <1>8, <2>4, RecordsSplit
  <2> QED
    BY <2>1, <2>2, <2>3, <2>5 DEF Delivers
<1>17. Records(Bytes(kfifo_len))' = Records(Bytes(l)')
  <2>1. kfifo_len' = l
    BY <1>4, <1>9
  <2> QED
    BY <2>1 DEF Records, Bytes
<1> QED
  BY <1>1, <1>3, <1>8, <1>16, <1>17

(* A step of the device is a step of the stream, or none.                  *)
LEMMA StreamStep ==
  ASSUME FifoAssumption, FifoInv, DataInv, WholeInv, FifoTypes', Next, careful
  PROVE  LET queue == Records(Bytes(kfifo_len))
         IN  \/ Records(Bytes(kfifo_len))' = queue /\ delivered' = delivered
             \/ \E w \in Writers :
                  Records(Bytes(kfifo_len))' = Append(queue, w) /\ delivered' = delivered
             \/ \E k \in 1 .. Len(queue) :
                  /\ delivered' = SubSeq(queue, 1, k)
                  /\ Records(Bytes(kfifo_len))' = SubSeq(queue, k + 1, Len(queue))
<1>1. CASE Moves /\ UNCHANGED <<careful, delivered>>
  <2>1. UNCHANGED fifoVars
    BY <1>1, MovesQuiet DEF Quiet, FifoInv
  <2> QED
    BY <1>1, <2>1 DEF fifoVars, Records, Bytes, kfifo_len
<1>2. ASSUME NEW w \in Writers, Fills(w)
      PROVE  Records(Bytes(kfifo_len))' = Records(Bytes(kfifo_len)) /\ delivered' = delivered
  BY <1>2, FillsBytes DEF Fills, produce_board, Records
<1>3. ASSUME NEW w \in Writers, Publishes(w)
      PROVE  /\ \/ Records(Bytes(kfifo_len))' = Append(Records(Bytes(kfifo_len)), w)
                \/ Records(Bytes(kfifo_len))' = Records(Bytes(kfifo_len))
             /\ delivered' = delivered
  BY <1>3, PublishProduces DEF Publishes, Publish
<1>4. ASSUME NEW r \in Readers, Advances(r)
      PROVE  LET queue == Records(Bytes(kfifo_len))
             IN  \E k \in 1 .. Len(queue) :
                   /\ delivered' = SubSeq(queue, 1, k)
                   /\ Records(Bytes(kfifo_len))' = SubSeq(queue, k + 1, Len(queue))
  BY <1>4, AdvanceDelivers
<1>5. ASSUME NEW r \in Readers, NEW n \in 0 .. kfifo_len,
             NEW stage \in {"idle", "test", "advance"}, Copies(r, n, stage)
      PROVE  Records(Bytes(kfifo_len))' = Records(Bytes(kfifo_len)) /\ delivered' = delivered
  BY <1>5 DEF Copies, fifoVars, Records, Bytes, kfifo_len
<1>6. FifoTypes /\ ReaderTypes
  BY DEF FifoInv
<1> QED
  BY <1>1, <1>2, <1>3, <1>4, <1>5, <1>6, StepIs

(* Only careful reads are on record.                                       *)
NoneInv == ~careful => delivered = <<>>

(* The history stays empty while reads are not careful.                    *)
LEMMA NoneStep == FifoAssumption /\ FifoInv /\ NoneInv /\ [Next]_vars => NoneInv'
<1> SUFFICES ASSUME FifoAssumption, FifoInv, NoneInv, [Next]_vars PROVE NoneInv'
  OBVIOUS
<1>1. CASE Next
  <2>1. careful' = careful
    BY <1>1 DEF Next
  <2>2. ASSUME NEW r \in Readers, Advances(r) PROVE ~careful => delivered' = <<>>
    BY <2>2 DEF Advances, ReadAdvance
  <2>3. ASSUME NEW w \in Writers, Fills(w) \/ Publishes(w) PROVE delivered' = delivered
    BY <2>3 DEF Fills, produce_board, Publishes, Publish
  <2>4. ASSUME NEW r \in Readers, NEW n \in 0 .. kfifo_len,
               NEW stage \in {"idle", "test", "advance"}, Copies(r, n, stage)
        PROVE  delivered' = delivered
    BY <2>4 DEF Copies
  <2>5. FifoTypes /\ ReaderTypes
    BY DEF FifoInv
  <2> QED
    BY <1>1, <2>1, <2>2, <2>3, <2>4, <2>5, StepIs DEF NoneInv
<1>2. CASE UNCHANGED vars
  BY <1>2 DEF vars, flowVars, NoneInv
<1> QED
  BY <1>1, <1>2

(* The device delivers the records the works produced, in order and each   *)
(* once, whatever works and readers do between the two halves of a copy.   *)
THEOREM DeviceIsStream ==
  ASSUME FifoAssumption
  PROVE  Spec => StreamSpec
<1> DEFINE queue == Records(Bytes(kfifo_len))
           AllInv == FifoInv /\ DataInv /\ WholeInv /\ NoneInv
<1>1. Init => AllInv
  BY FifoStart DEF Init, NoneInv
<1>2. AllInv /\ [Next]_vars => AllInv'
  BY FifoStep, WholeStep, NoneStep
<1>3. Init => Stream!StreamInit
  <2> SUFFICES ASSUME Init PROVE Stream!StreamInit
    OBVIOUS
  <2>1. delivered = <<>>
    BY DEF Init
  <2>2. queue = <<>>
    <3>1. FifoTypes
      BY FifoStart DEF FifoInv
    <3>2. kfifo_len = 0
      BY DEF Init, kfifo_len, FifoAssumption
    <3>3. Bytes(0) \in Seq(Writers \X Nat) /\ Len(Bytes(0)) = 0
      BY <3>1, BytesAre
    <3>4. PICK none \in Seq(Writers \X Nat) : none = Bytes(0)
      BY <3>3
    <3>5. Records(none) \in Seq(Writers) /\ Len(Records(none)) = 0
      <4>1. Len(none) = RecordBytes * 0
        BY <3>3, <3>4 DEF FifoAssumption
      <4>2. Producers(none, Records(none), 0)
        BY <4>1, RecordsOf
      <4> QED
        BY <4>2 DEF Producers
    <3>6. Records(none) = <<>>
      BY <3>5
    <3> QED
      BY <3>2, <3>4, <3>6
  <2> QED
    BY <2>1, <2>2 DEF Stream!StreamInit
<1> DEFINE streamQueue == IF careful THEN queue ELSE <<>>
<1>4. AllInv /\ AllInv' /\ [Next]_vars
        => [Stream!Produce \/ Stream!Deliver]_<<streamQueue, delivered>>
  <2> SUFFICES ASSUME AllInv, AllInv', [Next]_vars
               PROVE  [Stream!Produce \/ Stream!Deliver]_<<streamQueue, delivered>>
    OBVIOUS
  <2>1. CASE UNCHANGED vars
    BY <2>1 DEF vars, flowVars, fifoVars, Records, Bytes, kfifo_len
  <2>2. CASE Next /\ ~careful
    <3>1. ~careful'
      BY <2>2 DEF Next
    <3>2. delivered' = delivered
      BY <2>2, <3>1 DEF NoneInv
    <3> HIDE DEF queue
    <3>3. streamQueue = <<>> /\ streamQueue' = <<>>
      BY <2>2, <3>1
    <3> QED
      BY <3>2, <3>3
  <2>3. CASE Next /\ careful
    <3>1. careful'
      BY <2>3 DEF Next
    <3>2. FifoInv /\ DataInv /\ WholeInv /\ FifoTypes'
      BY DEF FifoInv
    <3>3. \/ queue' = queue /\ delivered' = delivered
          \/ \E w \in Writers : queue' = Append(queue, w) /\ delivered' = delivered
          \/ \E k \in 1 .. Len(queue) :
               /\ delivered' = SubSeq(queue, 1, k)
               /\ queue' = SubSeq(queue, k + 1, Len(queue))
      BY <2>3, <3>2, StreamStep
    <3> HIDE DEF queue
    <3>4. streamQueue = queue /\ streamQueue' = queue'
      BY <2>3, <3>1
    <3> QED
      BY <2>3, <3>1, <3>3, <3>4 DEF Stream!Produce, Stream!Deliver, queue
  <2> QED
    BY <2>1, <2>2, <2>3
<1> QED
  BY <1>1, <1>2, <1>3, <1>4, PTL DEF Spec, StreamSpec, Stream!StreamSpec
=============================================================================
