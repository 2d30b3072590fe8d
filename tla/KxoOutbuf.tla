------------------------------ MODULE KxoOutbuf -------------------------------
(***************************************************************************)
(* The output buffer of user/tui.c: what is written goes to the terminal   *)
(* when the buffer is half full, when it would not fit, at the end of a    *)
(* round of main, and when the viewer leaves.  A byte is its number in the *)
(* order of the calls; the switch back to the primary screen is not a byte *)
(* but a place in what the terminal has got.                               *)
(* write(2) takes all it is given (safe_write does not look).  What        *)
(* xo-user.c prints by stdio does not pass through here.                   *)
(***************************************************************************)
EXTENDS Integers, Sequences, SequencesExt

CONSTANTS
  OUTBUF_SIZE, FLUSH_THRESHOLD,     (* 4096 and 2048 in the program        *)
  WriteSizes, PrintSizes,           (* lengths of one call's text          *)
  MaxBytes                          (* written in a behaviour              *)

OutbufAssumption ==
  /\ OUTBUF_SIZE \in Nat /\ FLUSH_THRESHOLD \in 1 .. OUTBUF_SIZE
  /\ WriteSizes \subseteq Nat /\ PrintSizes \subseteq Nat /\ MaxBytes \in Nat

VARIABLES
  outbuf, disabled,       (* the buffer has outbuf.len bytes               *)
  term,                   (* what the terminal has got                     *)
  left,                   (* where in it the primary screen comes back     *)
  written,                (* bytes that callers have written: history      *)
  lost,                   (* bytes of texts too long to format: history    *)
  where                   (* tasks, flushed (between rounds), quit, exit   *)

outbufVars == <<outbuf, disabled, term, left, written, lost, where>>

Text(n) == [i \in 1 .. n |-> written + i]

(* What a sequence of writes does to the buffer and to the terminal.       *)
Out(t, b) == term' = term \o t /\ outbuf' = b
FlushedAll(b) == Len(b) >= FLUSH_THRESHOLD
AddTo(t, b) == IF FlushedAll(b) THEN Out(t \o b, <<>>) ELSE Out(t, b)

CallWith(n) ==
  /\ where = "tasks" /\ written + n <= MaxBytes /\ written' = written + n
  /\ UNCHANGED <<left, where>>

(* Larger texts go out at once, behind what is buffered.                   *)
Bypasses(n) == Out(outbuf \o Text(n), <<>>)

outbuf_write(n) ==
  /\ CallWith(n) /\ UNCHANGED <<disabled, lost>>
  /\ IF disabled THEN Out(Text(n), outbuf)
     ELSE IF n >= OUTBUF_SIZE THEN Bypasses(n)
     ELSE IF Len(outbuf) + n > OUTBUF_SIZE THEN AddTo(outbuf, Text(n))
     ELSE AddTo(<<>>, outbuf \o Text(n))

(* vsnprintf needs room for its terminator.  A text that does not fit is   *)
(* formatted again into the emptied buffer; one that cannot fit disables   *)
(* the buffer and is lost.  disabled is not looked at.                     *)
FitsBarely(n) == n <= OUTBUF_SIZE - Len(outbuf)  \* MUTANT: no terminator
Fits(n) == n < OUTBUF_SIZE - Len(outbuf)

Formatted(n) ==           \* an unterminated text has its last byte cut off
  IF Len(outbuf) + n < OUTBUF_SIZE THEN Text(n)
  ELSE SubSeq(Text(n), 1, OUTBUF_SIZE - Len(outbuf) - 1)

outbuf_printf(n) ==
  /\ CallWith(n)
  /\ IF Fits(n) THEN AddTo(<<>>, outbuf \o Formatted(n)) /\ UNCHANGED <<disabled, lost>>
     ELSE IF n < OUTBUF_SIZE THEN AddTo(outbuf, Text(n)) /\ UNCHANGED <<disabled, lost>>
     ELSE /\ Out(outbuf, <<>>) /\ disabled' = TRUE
          /\ lost' = lost \cup {written + i : i \in 1 .. n}

outbuf_flush == Out(outbuf, <<>>)

(* The end of a round in main: the next one, or out of the loop.           *)
RoundEnds ==
  /\ where = "tasks" /\ where' = "flushed" /\ outbuf_flush
  /\ UNCHANGED <<disabled, left, written, lost>>

RoundBegins ==
  /\ where = "flushed" /\ where' = "tasks"
  /\ UNCHANGED <<outbuf, disabled, term, left, written, lost>>

(* disable_raw leaves the alternate screen by a write of its own.          *)
disable_raw == left' = left \cup {Len(term)} /\ Out(outbuf, <<>>)

tui_quit ==
  /\ where = "flushed" /\ where' = "quit" /\ disable_raw
  /\ UNCHANGED <<disabled, written, lost>>

(* atexit: after tui_quit, or from task_io when select fails.              *)
Exit(from) ==
  /\ where = from /\ where' = "exit" /\ disable_raw
  /\ UNCHANGED <<disabled, written, lost>>

OutbufInit ==
  /\ outbuf = <<>> /\ disabled = FALSE /\ term = <<>> /\ left = {}
  /\ written = 0 /\ lost = {} /\ where = "tasks"

OutbufNext ==
  \/ \E n \in WriteSizes : outbuf_write(n)
  \/ \E n \in PrintSizes : outbuf_printf(n)
  \/ RoundEnds \/ RoundBegins \/ tui_quit \/ Exit("quit") \/ Exit("tasks")

OutbufSpec == OutbufInit /\ [][OutbufNext]_outbufVars

-----------------------------------------------------------------------------
Missing == 1 .. written \ ToSet(term \o outbuf)

(* The terminal and the buffer hold the calls' texts, each once and in the *)
(* order of the calls, and all of them, as long as every text can be       *)
(* formatted; nothing but the text that disabled the buffer is ever lost.  *)
InOrder ==
  /\ Missing \subseteq lost
  /\ ~disabled => term \o outbuf = [i \in 1 .. written |-> i]

(* A viewer that leaves by its loop shows nothing of its screen on the     *)
(* primary one.                                                            *)
LeavesClean == where = "quit" => outbuf = <<>> /\ left = {Len(term)}

(* What is written (tui.c, outbuf_write, outbuf_printf) arrives in order,  *)
(* and nothing of it on the primary screen.                                *)
OutbufTrue == InOrder /\ LeavesClean
=============================================================================
