------------------------------ MODULE KxoChannel ------------------------------
(***************************************************************************)
(* What a channel between coroutines promises (co_chan of user/coro.c): a  *)
(* queue of at most Cap messages, received in the order they were sent.    *)
(***************************************************************************)
EXTENDS Naturals, Sequences

CONSTANTS Messages, Cap

VARIABLES queue,   (* messages sent and not yet received                   *)
          data     (* the message received last                            *)

ChannelInit == queue = <<>> /\ data \in Messages

Send ==
  /\ Len(queue) < Cap
  /\ \E m \in Messages : queue' = Append(queue, m)
  /\ UNCHANGED data

Receive ==
  /\ queue # <<>>
  /\ data' = Head(queue) /\ queue' = Tail(queue)

ChannelSpec == ChannelInit /\ [][Send \/ Receive]_<<queue, data>>
=============================================================================
