---------------------------- MODULE WSConnProofs ----------------------------
(***************************************************************************)
(* Read returns the bytes that were written, in order, for any number of   *)
(* writers, any sizes of messages, frames and buffers.  What is left of    *)
(* the current frame, the frames on the wire and what the holder of the    *)
(* lock has still to send follow each other without a gap (Contiguous): it *)
(* begins after the last byte returned and, while the connection holds,    *)
(* reaches to the last byte that a writer was given.                       *)
(***************************************************************************)
EXTENDS WSConn, TLAPS

\* The first byte that is not yet on the wire.
Front == IF lock = None THEN total + 1 ELSE todo[lock].lo

\* The first byte after the wire's last frame.
WireEnd == IF wire = <<>> THEN rem.hi + 1 ELSE wire[Len(wire)].hi + 1

Contiguous ==
  /\ last = count /\ rem.lo = count + 1 /\ rem.lo <= rem.hi + 1
  /\ wire # <<>> => wire[1].lo = rem.hi + 1
  /\ \A i \in 1 .. Len(wire) :
       /\ wire[i].lo <= wire[i].hi + 1
       /\ i > 1 => wire[i].lo = wire[i - 1].hi + 1
  /\ ~ broken => WireEnd = Front

\* Nothing is beyond what writers were given, and the lock's holder has the last of it.
Within ==
  /\ rem.hi <= total /\ \A i \in 1 .. Len(wire) : wire[i].hi <= total
  /\ lock # None => todo[lock].lo <= todo[lock].hi /\ todo[lock].hi = total

\* A message that is being read has brought some bytes already.
Progress ==
  /\ reader => zeros = 0
  /\ zeros <= 1

WSInv == WSTypeOK /\ Contiguous /\ Within /\ Progress

\* A frame has numbers, and keeps its end when its beginning has been read.
LEMMA FrameFacts ==
  ASSUME NEW f \in Frame
  PROVE  /\ f.lo \in Int /\ f.hi \in Int
         /\ \A k \in Int : LET g == [f EXCEPT !.lo = k + 1]
                          IN  g \in Frame /\ g.lo = k + 1 /\ g.hi = f.hi
  BY DEF Frame

\* The numbers of all frames.
LEMMA Numbers ==
  WSTypeOK => /\ rem.lo \in Int /\ rem.hi \in Int /\ Len(wire) \in Nat
              /\ \A i \in 1 .. Len(wire) :
                   wire[i] \in Frame /\ wire[i].lo \in Int /\ wire[i].hi \in Int
<1> SUFFICES ASSUME WSTypeOK
             PROVE  /\ rem.lo \in Int /\ rem.hi \in Int /\ Len(wire) \in Nat
                    /\ \A i \in 1 .. Len(wire) :
                         wire[i] \in Frame /\ wire[i].lo \in Int /\ wire[i].hi \in Int
  OBVIOUS
<1>1. Len(wire) \in Nat /\ \A i \in 1 .. Len(wire) : wire[i] \in Frame
  BY DEF WSTypeOK
<1>2. rem \in Frame
  BY DEF WSTypeOK
<1> QED BY <1>1, <1>2, FrameFacts

\* Nothing was written.
LEMMA WSInit == Init => WSInv
<1> SUFFICES ASSUME Init PROVE WSInv
  OBVIOUS
<1>1. {reader, broken, failed} \subseteq BOOLEAN
  BY Zenon DEF Init
<1> QED
  BY <1>1, WSAssumption
  DEF Init, WSInv, WSTypeOK, Contiguous, Within, Progress, Front, WireEnd, Span, Empty, Frame

\* Appending a frame that begins where the wire ends keeps it without a gap.
LEMMA AppendFrame ==
  ASSUME WSInv, NEW f \in Frame, f.lo = WireEnd, f.lo <= f.hi + 1, f.hi <= total,
         wire' = Append(wire, f), UNCHANGED <<rem, last, count, total>>
  PROVE  /\ wire' \in Seq(Frame) /\ wire' # <<>>
         /\ wire'[1].lo = rem.hi + 1
         /\ wire'[Len(wire')].hi = f.hi
         /\ \A i \in 1 .. Len(wire') :
              /\ wire'[i].lo <= wire'[i].hi + 1
              /\ i > 1 => wire'[i].lo = wire'[i - 1].hi + 1
              /\ wire'[i].hi <= total
<1> USE DEF WSInv, WSTypeOK, Contiguous, Within, WireEnd
<1>1. /\ wire' \in Seq(Frame) /\ Len(wire') = Len(wire) + 1 /\ Len(wire) \in Nat
      /\ wire'[Len(wire) + 1] = f
      /\ \A i \in 1 .. Len(wire) : wire'[i] = wire[i]
  OBVIOUS
<1>2. wire = <<>> <=> Len(wire) = 0
  OBVIOUS
<1>3. wire'[1].lo = rem.hi + 1
  BY <1>1, <1>2
<1>4. ASSUME NEW i \in 1 .. Len(wire')
      PROVE  /\ wire'[i].lo <= wire'[i].hi + 1
             /\ i > 1 => wire'[i].lo = wire'[i - 1].hi + 1
             /\ wire'[i].hi <= total
  <2>1. CASE i = Len(wire) + 1
    BY <1>1, <1>2, <2>1
  <2>2. CASE i \in 1 .. Len(wire)
    BY <1>1, <2>2
  <2> QED BY <1>1, <2>1, <2>2
<1> QED BY <1>1, <1>3, <1>4

\* Every step of a writer, the reader or the network preserves the invariant.
LEMMA WSStep == WSInv /\ [Next]_vars => WSInv'
<1> SUFFICES ASSUME WSInv, [Next]_vars PROVE WSInv'
  OBVIOUS
<1> USE WSAssumption DEF writeVars, readVars, Span, Empty
<1>1. ASSUME NEW w \in Writers, NEW n \in 1 .. MaxMsg, WriteLocks(w, n) PROVE WSInv'
  <2>1. todo'[w].lo = total + 1 /\ todo'[w].hi = total + n
    BY <1>1 DEF WriteLocks, WSInv, WSTypeOK
  <2>2. WSTypeOK'
    BY <1>1 DEF WriteLocks, WSInv, WSTypeOK
  <2>3. UNCHANGED <<wire, rem, last, count, broken, zeros, reader>>
    BY <1>1 DEF WriteLocks
  <2>4. lock' = w /\ w # None /\ lock = None /\ total' = total + n /\ n >= 1
    BY <1>1 DEF WriteLocks
  <2>5. Front' = Front /\ WireEnd' = WireEnd
    BY <2>1, <2>3, <2>4 DEF Front, WireEnd
  <2>6. Contiguous'
    BY <2>3, <2>5 DEF WSInv, Contiguous
  <2>7. Within' /\ Progress'
    BY <2>1, <2>3, <2>4, Numbers DEF WSInv, WSTypeOK, Within, Progress
  <2> QED BY <2>2, <2>6, <2>7 DEF WSInv
<1>2. ASSUME NEW w \in Writers, NEW k \in 1 .. MaxBytes, WriteFrame(w, k) PROVE WSInv'
  <2> DEFINE f == [lo |-> todo[w].lo, hi |-> k, fin |-> k = todo[w].hi, bin |-> TRUE]
  <2>1. lock = w /\ todo[w].hi = total /\ todo[w].lo <= k /\ k <= total /\ ~ broken
    BY <1>2 DEF WriteFrame, WSInv, WSTypeOK, Within
  <2>2. f \in Frame /\ f.lo = WireEnd /\ f.lo <= f.hi + 1 /\ f.hi = k
    BY <2>1 DEF WSInv, WSTypeOK, Contiguous, Front, Frame
  <2>3. wire' = Append(wire, f) /\ UNCHANGED <<rem, last, count, total, zeros, reader, failed, broken>>
    BY <1>2 DEF WriteFrame
  <2> HIDE DEF f
  <2>4. /\ wire' \in Seq(Frame) /\ wire' # <<>>
        /\ wire'[1].lo = rem.hi + 1
        /\ wire'[Len(wire')].hi = k
        /\ \A i \in 1 .. Len(wire') :
             /\ wire'[i].lo <= wire'[i].hi + 1
             /\ i > 1 => wire'[i].lo = wire'[i - 1].hi + 1
             /\ wire'[i].hi <= total
    BY <2>1, <2>2, <2>3, AppendFrame
  <2>5. /\ todo' \in [Writers -> [lo : Int, hi : Int]]
        /\ todo'[w].lo = k + 1 /\ todo'[w].hi = total
        /\ \A v \in Writers : v # w => todo'[v] = todo[v]
        /\ lock' = IF k = total THEN None ELSE w
    BY <1>2, <2>1 DEF WriteFrame, WSInv, WSTypeOK
  <2>6. WSTypeOK'
    BY <2>1, <2>3, <2>4, <2>5 DEF WSInv, WSTypeOK
  <2>7. Contiguous'
    BY <2>1, <2>3, <2>4, <2>5 DEF WSInv, WSTypeOK, Contiguous, Front, WireEnd
  <2>8. Within' /\ Progress'
    BY <2>1, <2>3, <2>4, <2>5 DEF WSInv, WSTypeOK, Within, Progress
  <2> QED BY <2>6, <2>7, <2>8 DEF WSInv
<1>3. ASSUME NEW w \in Writers, WriteFails(w) PROVE WSInv'
  BY <1>3 DEF WriteFails, WSInv, WSTypeOK, Contiguous, Within, Progress, WireEnd
<1>4. ASSUME NEW k \in 1 .. MaxBytes, ReadSome(k) PROVE WSInv'
  <2>1. /\ rem' = [rem EXCEPT !.lo = k + 1] /\ rem \in Frame
        /\ k \in rem.lo .. rem.hi /\ last' = k /\ count' = count + (k - rem.lo + 1)
        /\ reader /\ zeros' = 0
        /\ UNCHANGED <<reader, wire, failed, total, lock, todo, broken>>
    BY <1>4 DEF ReadSome, Returned, WSInv, WSTypeOK
  <2>2. rem' \in Frame /\ rem'.lo = k + 1 /\ rem'.hi = rem.hi
    BY <2>1, FrameFacts
  <2>3. count' = k /\ k \in Nat
    BY <2>1, Numbers DEF WSInv, WSTypeOK, Contiguous
  <2>4. WSTypeOK'
    BY <2>1, <2>2, <2>3 DEF WSInv, WSTypeOK
  <2>5. Front' = Front /\ WireEnd' = WireEnd
    BY <2>1, <2>2 DEF Front, WireEnd
  <2>6. Contiguous'
    BY <2>1, <2>2, <2>3, <2>5, Numbers DEF WSInv, Contiguous
  <2>7. Within' /\ Progress'
    BY <2>1, <2>2 DEF WSInv, Within, Progress
  <2> QED BY <2>4, <2>6, <2>7 DEF WSInv
<1>5. ASSUME NEW k \in 1 .. MaxBytes, ReadFrame(k) PROVE WSInv'
  <2> DEFINE f == wire[1]
  <2>1. wire # <<>> /\ wire \in Seq(Frame)
    BY <1>5 DEF ReadFrame, WSInv, WSTypeOK
  <2>2. Head(wire) = f /\ f \in Frame /\ Len(wire) \in Nat /\ Len(wire) >= 1
    BY <2>1
  <2>3. /\ rem' = [f EXCEPT !.lo = k + 1]
        /\ k \in f.lo .. f.hi /\ last' = k /\ count' = count + (k - f.lo + 1)
        /\ reader' = TRUE /\ zeros' = 0 /\ wire' = Tail(wire) /\ Empty(rem)
        /\ UNCHANGED <<failed, total, lock, todo, broken>>
    BY <1>5, <2>2 DEF ReadFrame, Returned, WSInv, WSTypeOK
  <2>4. rem' \in Frame /\ rem'.lo = k + 1 /\ rem'.hi = f.hi /\ f.lo \in Int /\ f.hi \in Int
    BY <2>2, <2>3, FrameFacts
  <2>5. f.lo = count + 1
    BY <2>1, <2>3, Numbers DEF WSInv, WSTypeOK, Contiguous
  <2>6. count' = k /\ k \in Nat /\ k <= f.hi
    BY <2>3, <2>4, <2>5 DEF WSInv, WSTypeOK
  <2>7. /\ wire' \in Seq(Frame) /\ Len(wire') = Len(wire) - 1
        /\ \A i \in 1 .. Len(wire') : wire'[i] = wire[i + 1]
    BY <2>1, <2>2, <2>3
  <2>8. wire' = <<>> <=> Len(wire) = 1
    BY <2>2, <2>7
  <2>9. reader' \in BOOLEAN
    BY <2>3
  <2>10. WSTypeOK'
    BY <2>3, <2>4, <2>6, <2>7, <2>9 DEF WSInv, WSTypeOK
  <2>11. wire' # <<>> => wire'[1].lo = rem'.hi + 1
    <3> SUFFICES ASSUME wire' # <<>> PROVE wire'[1].lo = rem'.hi + 1
      OBVIOUS
    <3>1. 2 \in 1 .. Len(wire) /\ wire'[1] = wire[2]
      BY <2>2, <2>7, <2>8
    <3>2. wire[2].lo = wire[1].hi + 1
      BY <3>1 DEF WSInv, Contiguous
    <3> QED BY <3>1, <3>2, <2>4
  <2>12. ASSUME NEW i \in 1 .. Len(wire')
         PROVE  /\ wire'[i].lo <= wire'[i].hi + 1
                /\ i > 1 => wire'[i].lo = wire'[i - 1].hi + 1
                /\ wire'[i].hi <= total
    <3>1. i + 1 \in 1 .. Len(wire) /\ wire'[i] = wire[i + 1]
          /\ (i > 1 => wire'[i - 1] = wire[i])
      BY <2>2, <2>7
    <3> QED BY <3>1 DEF WSInv, Contiguous, Within
  <2>13. WireEnd' = WireEnd
    BY <2>1, <2>2, <2>4, <2>7, <2>8 DEF WireEnd
  <2>14. Front' = Front
    BY <2>3 DEF Front
  <2>15. Contiguous'
    <3>1. last' = count' /\ rem'.lo = count' + 1 /\ rem'.lo <= rem'.hi + 1
      BY <2>3, <2>4, <2>6
    <3>2. ~ broken' => WireEnd' = Front'
      BY <2>3, <2>13, <2>14 DEF WSInv, Contiguous
    <3> QED BY <3>1, <3>2, <2>11, <2>12 DEF Contiguous
  <2>16. Within' /\ Progress'
    BY <2>2, <2>3, <2>4, <2>12 DEF WSInv, Within, Progress
  <2> QED BY <2>10, <2>15, <2>16 DEF WSInv
<1>6. CASE ReadEOF
  <2>1. WSTypeOK'
    <3>1. reader' \in BOOLEAN
      BY <1>6 DEF ReadEOF
    <3>2. UNCHANGED <<rem, last, count, failed, total, lock, todo, wire, broken>>
      BY <1>6 DEF ReadEOF
    <3>3. zeros' \in Nat /\ Empty(rem)
      BY <1>6 DEF ReadEOF, WSInv, WSTypeOK
    <3> QED BY <3>1, <3>2, <3>3 DEF WSInv, WSTypeOK
  <2>2. Contiguous' /\ Within' /\ Progress'
    BY <1>6 DEF ReadEOF, WSInv, WSTypeOK, Contiguous, Within, Progress, Front, WireEnd
  <2> QED BY <2>1, <2>2 DEF WSInv
<1>7. CASE ReadFails
  BY <1>7 DEF ReadFails, WSInv, WSTypeOK, Contiguous, Within, Progress, Front, WireEnd
<1>8. CASE SendsText
  <2> DEFINE f == [lo |-> total + 1, hi |-> total, fin |-> TRUE, bin |-> FALSE]
  <2>1. f \in Frame /\ f.lo = WireEnd /\ f.lo <= f.hi + 1 /\ f.hi = total /\ lock = None
    BY <1>8 DEF SendsText, WSInv, WSTypeOK, Contiguous, Front, Frame
  <2>2. wire' = Append(wire, f) /\ UNCHANGED <<rem, last, count, total, lock, todo, zeros, reader, failed, broken>>
    BY <1>8 DEF SendsText
  <2> HIDE DEF f
  <2>3. /\ wire' \in Seq(Frame) /\ wire' # <<>>
        /\ wire'[1].lo = rem.hi + 1
        /\ wire'[Len(wire')].hi = total
        /\ \A i \in 1 .. Len(wire') :
             /\ wire'[i].lo <= wire'[i].hi + 1
             /\ i > 1 => wire'[i].lo = wire'[i - 1].hi + 1
             /\ wire'[i].hi <= total
    <3>1. f.hi <= total
      BY <2>1 DEF WSInv, WSTypeOK
    <3> QED BY <2>1, <2>2, <3>1, AppendFrame
  <2>4. WSTypeOK'
    BY <2>2, <2>3 DEF WSInv, WSTypeOK
  <2>5. Contiguous' /\ Within' /\ Progress'
    BY <2>1, <2>2, <2>3 DEF WSInv, WSTypeOK, Contiguous, Within, Progress, Front, WireEnd
  <2> QED BY <2>4, <2>5 DEF WSInv
<1>9. ASSUME NEW a \in 0 .. Len(wire), Breaks(a) PROVE WSInv'
  <2>1. /\ wire' \in Seq(Frame) /\ Len(wire') = a
        /\ \A i \in 1 .. a : wire'[i] = wire[i]
    BY <1>9 DEF Breaks, WSInv, WSTypeOK
  <2>2. wire' # <<>> => a >= 1 /\ wire # <<>>
    BY <2>1 DEF WSInv, WSTypeOK
  <2>3. /\ wire' # <<>> => wire'[1].lo = rem.hi + 1
        /\ \A i \in 1 .. Len(wire') :
             /\ wire'[i].lo <= wire'[i].hi + 1
             /\ i > 1 => wire'[i].lo = wire'[i - 1].hi + 1
             /\ wire'[i].hi <= total
    <3>1. ASSUME NEW i \in 1 .. Len(wire')
          PROVE  /\ wire'[i].lo <= wire'[i].hi + 1
                 /\ i > 1 => wire'[i].lo = wire'[i - 1].hi + 1
                 /\ wire'[i].hi <= total
      <4>1. i \in 1 .. Len(wire) /\ wire'[i] = wire[i] /\ (i > 1 => wire'[i - 1] = wire[i - 1])
        BY <2>1
      <4> QED BY <4>1 DEF WSInv, Contiguous, Within
    <3>2. wire' # <<>> => wire'[1].lo = rem.hi + 1
      BY <2>1, <2>2 DEF WSInv, Contiguous
    <3> QED BY <3>1, <3>2
  <2>4. broken' \in BOOLEAN /\ broken' = TRUE
    BY <1>9 DEF Breaks
  <2>5. WSTypeOK'
    BY <1>9, <2>1, <2>4 DEF Breaks, WSInv, WSTypeOK
  <2>6. Contiguous' /\ Within' /\ Progress'
    BY <1>9, <2>3, <2>4 DEF Breaks, WSInv, Contiguous, Within, Progress
  <2> QED BY <2>5, <2>6 DEF WSInv
<1>10. CASE UNCHANGED vars
  BY <1>10 DEF vars, WSInv, WSTypeOK, Contiguous, Within, Progress, Front, WireEnd
<1> QED
  BY <1>1, <1>2, <1>3, <1>4, <1>5, <1>6, <1>7, <1>8, <1>9, <1>10 DEF Next, Write, Read

\* The invariant holds in every reachable state.
THEOREM WSInvariant == Spec => []WSInv
  BY WSInit, WSStep, PTL DEF Spec

\* Only the holder of writeMux has bytes to send (pkg/yamuxws/yamuxws.go:55-63).
THEOREM WSTypeCorrect == Spec => []WSTypeOK
  BY WSInvariant, PTL DEF WSInv

\* Read returns the stream that was written (pkg/yamuxws/yamuxws.go:33-63).
THEOREM WSInOrder == Spec => []InOrder
<1>1. WSInv => InOrder
  BY DEF WSInv, WSTypeOK, Contiguous, Within, InOrder, Frame
<1> QED BY <1>1, WSInvariant, PTL

\* At most one call of Read in a row returns nothing (yamuxws.go:47-50).
THEOREM WSNoIdleReads == Spec => []NoIdleReads
<1>1. WSInv => NoIdleReads
  BY DEF WSInv, Progress, NoIdleReads
<1> QED BY <1>1, WSInvariant, PTL

-----------------------------------------------------------------------------
\* On a connection that holds, bytes are never stranded: a call that holds the
\* lock has bytes to send, and when none does and nothing is on its way or left
\* of a message, everything that was written has been read.
NothingStranded ==
  /\ lock # None => ~ Empty(todo[lock])
  /\ ~ broken /\ lock = None /\ wire = <<>> /\ Empty(rem) => count = total

\* The safety part of delivery: there is no state in which writers and reader are
\* at rest with bytes missing (pkg/yamuxws/yamuxws.go:26-90).
THEOREM WSNothingStranded == Spec => []NothingStranded
<1>1. ASSUME WSInv PROVE NothingStranded
  <2>1. rem.lo \in Int /\ rem.hi \in Int /\ total \in Nat /\ count \in Nat
    BY <1>1, Numbers DEF WSInv, WSTypeOK
  <2>2. lock # None => ~ Empty(todo[lock])
    BY <1>1 DEF WSInv, WSTypeOK, Within, Empty
  <2>3. ~ broken /\ lock = None /\ wire = <<>> /\ Empty(rem) => count = total
    BY <1>1, <2>1 DEF WSInv, Contiguous, Front, WireEnd, Empty
  <2> QED BY <2>2, <2>3 DEF NothingStranded
<1> QED BY <1>1, WSInvariant, PTL

=============================================================================
