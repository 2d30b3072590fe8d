------------------------------ MODULE MCFifoStore ------------------------------
(***************************************************************************)
(* Parts of the kernel module that several contexts enter at once or that  *)
(* fill up: the record fifo, the RL agent's store of positions, the load   *)
(* averages.  They share no state, so a behaviour is that of one of them,  *)
(* while the others rest in an initial state.                              *)
(***************************************************************************)
EXTENDS KxoFifo, KxoRlStore, KxoLoadAvg

VARIABLES
  moving,                                   (* whose behaviour this is     *)
  long                                      (* and, of the load averages,  *)
                                            (* are searches long?          *)

(* Two works and two readers, one of them with O_NONBLOCK, on a fifo of    *)
(* two records of two bytes each, so that it fills and its indices wrap.   *)
(* Where reads are not of whole records, only the blocking one reads: part *)
(* of a record or nothing, into a buffer that may fault.                   *)
MCWriters == {"draw", "finish"}
MCReaders == {"blocking", "nonblocking"}
MCNonBlocking == {"nonblocking"}
MCCareless == {"blocking"}

(* Boards of three cells have twelve positions to store, in four slots.    *)
(* Bound: of them, the six where X has played on the last cell or nowhere. *)
OneLine == <<{0, 1, 2}>>
LastIsX == \A i \in DOMAIN lookups' : CELL_X \notin {lookups'[i][c] : c \in {0, 1}}

(* Searches of one or two ticks by one agent and of one by the other;      *)
(* or, where nobody copies and the timer is on time, of one agent that     *)
(* waits for its mutex and searches for so long that its average outgrows  *)
(* four bits.                                                              *)
SpansBounded ==
  /\ UNCHANGED long
  /\ IF long
     THEN /\ copied' = -1 /\ wait' <= avg_period /\ stage'[<<1, "o">>] = "idle"
          /\ stage'[<<1, "x">>] = "account" => span[<<1, "x">>] = MaxSpan
     ELSE span'[<<1, "x">>] <= 2 /\ span'[<<1, "o">>] <= 1

-----------------------------------------------------------------------------
FifoStoreInit ==
  /\ moving \in {"fifo", "store", "averages"} /\ long \in BOOLEAN
  /\ Init /\ StoreInit /\ LoadAvgInit
  /\ moving # "fifo" => careful /\ buf[0] = <<"draw", 0>>
  /\ moving # "averages" => ~long

FifoStoreNext ==
  /\ UNCHANGED moving
  /\ \/ moving = "fifo" /\ Next /\ UNCHANGED <<storeVars, loadAvgVars, long>>
     \/ moving = "store" /\ StoreNext /\ LastIsX /\ UNCHANGED <<vars, loadAvgVars, long>>
     \/ moving = "averages" /\ LoadAvgNext /\ SpansBounded /\ UNCHANGED <<vars, storeVars>>

FifoStoreSpec ==
  /\ FifoStoreInit
  /\ [][FifoStoreNext]_<<moving, long, vars, storeVars, loadAvgVars>>
  /\ Fairness
=============================================================================
