------------------------------- MODULE WSConn -------------------------------
(***************************************************************************)
(* The byte stream that yamux gets from a websocket connection             *)
(* (pkg/yamuxws/yamuxws.go), in one direction: the goroutines that Write   *)
(* at one end, the messages on the way, and the goroutine that Reads at    *)
(* the other end.                                                          *)
(*                                                                         *)
(* A byte is named by its place in the order in which the calls of Write   *)
(* got the write lock, so a frame is a range of numbers.  The websocket    *)
(* library (external) may split a message into frames, hands a message out *)
(* in pieces, ends each one with io.EOF, and fails for good once a read or *)
(* a write has failed.  yamux (external) never writes nothing; it reads    *)
(* through a bufio.Reader, which gives up after 100 reads that bring       *)
(* nothing.                                                                *)
(***************************************************************************)
EXTENDS Integers, Sequences

CONSTANTS Writers,   \* goroutines that call Write
          MaxMsg,    \* bound on the bytes of one call
          Buf,       \* the reader's buffer
          MaxBytes,  \* bound on the bytes that are written
          None

ASSUME WSAssumption ==
  None \notin Writers /\ MaxMsg \in Nat /\ Buf \in Nat \ {0} /\ MaxBytes \in Nat

VARIABLES
  total,    \* bytes that calls of Write were given, once they had the lock
  lock,     \* the writer that holds writeMux, or None
  todo,     \* the range of bytes each writer has still to send
  wire,     \* frames on their way
  reader,   \* c.reader is set: a message is being read
  rem,      \* what is left of its current frame
  last,     \* the last byte that Read returned
  count,    \* how many bytes Read has returned
  zeros,    \* calls of Read in a row that returned nothing and no error
  broken,   \* the connection is broken or closed
  failed    \* Read has returned an error

writeVars == <<total, lock, todo>>
readVars == <<reader, rem, last, count, zeros, failed>>
vars == <<writeVars, wire, readVars, broken>>

Span(lo, hi) == [lo |-> lo, hi |-> hi]
Frame == [lo : Int, hi : Int, fin : BOOLEAN, bin : BOOLEAN]
Empty(r) == r.lo > r.hi

\* Every value has its type; a writer with bytes to send holds the lock; a
\* reader between two messages has nothing left of the last one.
WSTypeOK ==
  /\ total \in Nat /\ lock \in Writers \cup {None}
  /\ todo \in [Writers -> [lo : Int, hi : Int]]
  /\ wire \in Seq(Frame) /\ rem \in Frame
  /\ {reader, broken, failed} \subseteq BOOLEAN
  /\ last \in Int /\ count \in Nat /\ zeros \in Nat
  /\ \A w \in Writers : ~ Empty(todo[w]) => lock = w
  /\ ~ reader => Empty(rem)

Init ==
  /\ total = 0 /\ lock = None /\ todo = [w \in Writers |-> Span(1, 0)]
  /\ wire = <<>> /\ reader = FALSE
  /\ rem = [lo |-> 1, hi |-> 0, fin |-> TRUE, bin |-> TRUE]
  /\ last = 0 /\ count = 0 /\ zeros = 0 /\ broken = FALSE /\ failed = FALSE

-----------------------------------------------------------------------------
(* Write.                                                                  *)

WriteUnlocked(w, n) ==
  /\ Empty(todo[w]) /\ lock # w /\ total + n <= MaxBytes
  /\ total' = total + n
  /\ todo' = [todo EXCEPT ![w] = Span(total + 1, total + n)]
  /\ UNCHANGED <<lock, wire, readVars, broken>>

\* A call gets the lock.
WriteLocks(w, n) ==
  /\ lock = None /\ total + n <= MaxBytes
  /\ lock' = w /\ total' = total + n
  /\ todo' = [todo EXCEPT ![w] = Span(total + 1, total + n)]
  /\ UNCHANGED <<wire, readVars, broken>>

\* WriteMessage sends a frame that ends with byte k; after the last one the call
\* returns and the lock is free.
WriteFrame(w, k) ==
  /\ ~ broken /\ k \in todo[w].lo .. todo[w].hi
  /\ wire' = Append(wire, [lo |-> todo[w].lo, hi |-> k, fin |-> k = todo[w].hi, bin |-> TRUE])
  /\ todo' = [todo EXCEPT ![w] = Span(k + 1, @.hi)]
  /\ lock' = IF k = todo[w].hi THEN None ELSE lock
  /\ UNCHANGED <<total, readVars, broken>>

WriteFails(w) ==
  /\ broken /\ ~ Empty(todo[w])
  /\ todo' = [todo EXCEPT ![w] = Span(@.hi + 1, @.hi)]
  /\ lock' = None
  /\ UNCHANGED <<total, wire, readVars, broken>>

-----------------------------------------------------------------------------
(* Read: one step for a call, which blocks until it can return.            *)

Returned(f, k) ==
  /\ rem' = [f EXCEPT !.lo = k + 1]
  /\ last' = k /\ count' = count + (k - f.lo + 1) /\ zeros' = 0
  /\ UNCHANGED <<failed, writeVars, broken>>

\* The bytes of the current frame up to k.
ReadSome(k) ==
  /\ ~ failed /\ reader /\ ~ Empty(rem)
  /\ k \in rem.lo .. rem.hi /\ k - rem.lo < Buf
  /\ Returned(rem, k)
  /\ UNCHANGED <<reader, wire>>

ReadFrameDroppingRest(k) ==
  /\ ~ failed /\ wire # <<>> /\ Head(wire).bin
  /\ k \in Head(wire).lo .. Head(wire).hi /\ k - Head(wire).lo < Buf
  /\ reader' = FALSE /\ wire' = Tail(wire)
  /\ last' = k /\ count' = count + (k - Head(wire).lo + 1) /\ zeros' = 0
  /\ UNCHANGED <<rem, failed, writeVars, broken>>

\* The message goes on with the next frame, or NextReader finds a new one.
ReadFrame(k) ==
  /\ ~ failed /\ wire # <<>>
  /\ IF reader THEN Empty(rem) /\ ~ rem.fin ELSE Head(wire).bin
  /\ k \in Head(wire).lo .. Head(wire).hi /\ k - Head(wire).lo < Buf
  /\ reader' = TRUE /\ wire' = Tail(wire)
  /\ Returned(Head(wire), k)

ReadEOFKeepingReader ==
  /\ ~ failed /\ reader /\ Empty(rem) /\ rem.fin
  /\ zeros' = zeros + 1
  /\ UNCHANGED <<reader, rem, last, count, failed, writeVars, wire, broken>>

ReadEOFReported ==
  /\ ~ failed /\ reader /\ Empty(rem) /\ rem.fin
  /\ reader' = FALSE /\ failed' = TRUE
  /\ UNCHANGED <<rem, last, count, zeros, writeVars, wire, broken>>

\* The message is at its end: no bytes and no error; the next call looks for the
\* next message.
ReadEOF ==
  /\ ~ failed /\ reader /\ Empty(rem) /\ rem.fin
  /\ reader' = FALSE /\ zeros' = zeros + 1
  /\ UNCHANGED <<rem, last, count, failed, writeVars, wire, broken>>

\* A message that is not binary, or no more frames on a broken connection.
ReadFails ==
  /\ ~ failed
  /\ \/ ~ reader /\ wire # <<>> /\ ~ Head(wire).bin
     \/ broken /\ wire = <<>> /\ Empty(rem) /\ (reader => ~ rem.fin)
  /\ failed' = TRUE
  /\ UNCHANGED <<reader, rem, last, count, zeros, writeVars, wire, broken>>

-----------------------------------------------------------------------------
(* The other program may send a text message, which carries no bytes of    *)
(* the stream.  A connection that breaks, or is closed at either end,      *)
(* loses what has not arrived.                                             *)

Misused == \E i \in 1 .. Len(wire) : ~ wire[i].bin

SendsText ==
  /\ ~ broken /\ lock = None /\ ~ Misused
  /\ wire' = Append(wire, [lo |-> total + 1, hi |-> total, fin |-> TRUE, bin |-> FALSE])
  /\ UNCHANGED <<writeVars, readVars, broken>>

Breaks(arrived) ==
  /\ ~ broken
  /\ broken' = TRUE /\ wire' = SubSeq(wire, 1, arrived)
  /\ UNCHANGED <<writeVars, readVars>>

Write(w) == WriteFails(w) \/ \E k \in 1 .. MaxBytes : WriteFrame(w, k)
Read == ReadEOF \/ ReadFails \/ \E k \in 1 .. MaxBytes : ReadSome(k) \/ ReadFrame(k)

Next ==
  \/ \E w \in Writers : Write(w) \/ \E n \in 1 .. MaxMsg : WriteLocks(w, n)
  \/ Read \/ SendsText
  \/ \E arrived \in 0 .. Len(wire) : Breaks(arrived)

Spec == Init /\ [][Next]_vars

\* Fairness: a call of Write goes on, and yamux reads until it gets an error.
FairSpec == Spec /\ (\A w \in Writers : WF_vars(Write(w))) /\ WF_vars(Read)

-----------------------------------------------------------------------------
\* What Read returns are the bytes that were written, each once and in order,
\* also when writers meet and when messages, frames and buffers end in different
\* places: after any number of calls the bytes returned are the first ones.
InOrder == last = count /\ count <= total

\* No two calls of Read in a row return nothing without an error, so the
\* bufio.Reader of yamux never takes the connection for one without progress.
NoIdleReads == zeros <= 1

\* What was written is read, unless the connection breaks or a text message is
\* in the way.
Delivered ==
  \A n \in 1 .. MaxBytes : total >= n ~> count >= n \/ broken \/ Misused

=============================================================================
