------------------------------- MODULE KxoStream ------------------------------
(***************************************************************************)
(* What /dev/kxo promises its readers: a queue of whole records, in the    *)
(* order they were produced, each delivered once.                          *)
(***************************************************************************)
EXTENDS Naturals, Sequences

CONSTANT Writers

VARIABLES queue,      (* who produced the records not yet read             *)
          delivered   (* the records of the read that ended last           *)

StreamInit == queue = <<>> /\ delivered = <<>>

Produce == \E w \in Writers : queue' = Append(queue, w) /\ UNCHANGED delivered

Deliver ==
  \E n \in 1 .. Len(queue) :
    /\ delivered' = SubSeq(queue, 1, n)
    /\ queue' = SubSeq(queue, n + 1, Len(queue))

StreamSpec == StreamInit /\ [][Produce \/ Deliver]_<<queue, delivered>>
=============================================================================
