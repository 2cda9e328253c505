----------------------------- MODULE UartProofs -----------------------------
(***************************************************************************)
(* Uart, for every buffer size and every bound: its types, the byte the    *)
(* DRE handler counts on, the order of what is sent, the echo that is not  *)
(* received in half duplex, and the order of what is received.             *)
(***************************************************************************)
EXTENDS Uart, SequenceTheorems, TLAPS

-----------------------------------------------------------------------------
(* Rings.                                                                  *)

\* What a ring holds is a sequence as long as the distance of its indices.
LEMMA RingedType ==
  ASSUME NEW n \in Nat \ {0, 1}, NEW ring \in [0 .. n - 1 -> Nat],
         NEW t \in 0 .. n - 1, NEW h \in 0 .. n - 1
  PROVE  /\ Span(t, h, n) \in 0 .. n - 1
         /\ Ringed(ring, t, h, n) \in Seq(Nat)
         /\ Len(Ringed(ring, t, h, n)) = Span(t, h, n)
<1>1. Span(t, h, n) \in 0 .. n - 1
  BY DEF Span
<1>2. \A i \in 1 .. Span(t, h, n) :
        ring[IF t + i - 1 < n THEN t + i - 1 ELSE t + i - 1 - n] \in Nat
  <2>1. SUFFICES ASSUME NEW i \in 1 .. Span(t, h, n)
                 PROVE  (IF t + i - 1 < n THEN t + i - 1 ELSE t + i - 1 - n) \in 0 .. n - 1
    OBVIOUS
  <2> QED BY <1>1
<1>3. Ringed(ring, t, h, n) \in Seq(Nat) /\ Len(Ringed(ring, t, h, n)) = Span(t, h, n)
  <2> DEFINE k == Span(t, h, n)
             e(i) == ring[IF t + i - 1 < n THEN t + i - 1 ELSE t + i - 1 - n]
  <2>1. k \in Nat /\ \A i \in 1 .. k : e(i) \in Nat
    BY <1>1, <1>2
  <2>2. Ringed(ring, t, h, n) = [i \in 1 .. k |-> e(i)]
    BY DEF Ringed
  <2> HIDE DEF k, e
  <2>3. [i \in 1 .. k |-> e(i)] \in Seq(Nat) /\ Len([i \in 1 .. k |-> e(i)]) = k
    BY <2>1, IsASeq
  <2> QED BY <2>2, <2>3 DEF k
<1> QED BY <1>1, <1>3

\* A ring whose indices meet is empty.
LEMMA RingedEmpty ==
  ASSUME NEW n \in Nat \ {0, 1}, NEW ring, NEW t \in 0 .. n - 1
  PROVE  Ringed(ring, t, t, n) = <<>>
BY DEF Ringed, Span

\* The index after i.
After(i, n) == IF i + 1 < n THEN i + 1 ELSE 0

\* The writer's store and advance append one byte.
LEMMA RingedAppend ==
  ASSUME NEW n \in Nat \ {0, 1}, NEW ring \in [0 .. n - 1 -> Nat],
         NEW t \in 0 .. n - 1, NEW h \in 0 .. n - 1, NEW b \in Nat,
         After(h, n) # t
  PROVE  Ringed([ring EXCEPT ![h] = b], t, After(h, n), n) = Append(Ringed(ring, t, h, n), b)
<1> DEFINE next == After(h, n)
<1>0. next = (IF h + 1 < n THEN h + 1 ELSE 0) /\ next # t
  BY DEF After
<1> HIDE DEF next
<1> DEFINE new == [ring EXCEPT ![h] = b]
           k == Span(t, h, n)
           A == Ringed(new, t, next, n)
           R == Ringed(ring, t, h, n)
           s(i) == IF t + i - 1 < n THEN t + i - 1 ELSE t + i - 1 - n
<1>1. next \in 0 .. n - 1 /\ new \in [0 .. n - 1 -> Nat]
  BY <1>0
<1>2. Span(t, next, n) = k + 1 /\ k \in 0 .. n - 2
  BY <1>0 DEF Span
<1>3. A \in Seq(Nat) /\ Len(A) = k + 1
  BY <1>1, <1>2, RingedType
<1>4. R \in Seq(Nat) /\ Len(R) = k
  BY RingedType
<1>5. \A i \in 1 .. k + 1 : A[i] = new[s(i)]
  BY <1>2 DEF Ringed
<1>6. \A i \in 1 .. k : R[i] = ring[s(i)]
  BY DEF Ringed
<1>7. s(k + 1) = h /\ \A i \in 1 .. k : s(i) # h /\ s(i) \in 0 .. n - 1
  BY <1>2 DEF Span
<1>8. new[h] = b /\ \A j \in 0 .. n - 1 : j # h => new[j] = ring[j]
  OBVIOUS
<1> HIDE DEF A, R, k, s, new
<1>10. k \in Nat /\ k + 1 \in 1 .. k + 1 /\ \A i \in 1 .. k : i \in 1 .. k + 1
  BY <1>2
<1>9. A[k + 1] = b /\ \A i \in 1 .. k : A[i] = R[i]
  <2>1. A[k + 1] = new[s(k + 1)]
    BY <1>5, <1>10
  <2>2. \A i \in 1 .. k : A[i] = new[s(i)] /\ new[s(i)] = ring[s(i)]
    BY <1>5, <1>7, <1>8, <1>10
  <2> QED BY <1>6, <1>7, <1>8, <2>1, <2>2
<1>11. Append(R, b) \in Seq(Nat) /\ Len(Append(R, b)) = k + 1
  BY <1>4, <1>10
<1>12. ASSUME NEW i \in 1 .. k + 1 PROVE A[i] = Append(R, b)[i]
  <2>1. Append(R, b)[i] = IF i <= k THEN R[i] ELSE b
    BY <1>4, <1>10, AppendProperties
  <2>2. CASE i = k + 1
    BY <1>9, <1>10, <2>1, <2>2
  <2>3. CASE i # k + 1
    <3>1. i \in 1 .. k /\ i <= k
      BY <1>10, <2>3
    <3> QED BY <1>9, <2>1, <3>1
  <2> QED BY <2>2, <2>3
<1>13. A = Append(R, b)
  BY <1>3, <1>11, <1>12, SeqEqual
<1> QED BY <1>13 DEF A, R, new, next

\* The reader's advance takes the oldest byte.
LEMMA RingedTake ==
  ASSUME NEW n \in Nat \ {0, 1}, NEW ring \in [0 .. n - 1 -> Nat],
         NEW t \in 0 .. n - 1, NEW h \in 0 .. n - 1, t # h
  PROVE  Ringed(ring, t, h, n) = <<ring[t]>> \o Ringed(ring, After(t, n), h, n)
<1> DEFINE next == After(t, n)
<1>0. next = (IF t + 1 < n THEN t + 1 ELSE 0)
  BY DEF After
<1> HIDE DEF next
<1> DEFINE k == Span(t, h, n)
           A == Ringed(ring, t, h, n)
           R == Ringed(ring, next, h, n)
           s(i) == IF t + i - 1 < n THEN t + i - 1 ELSE t + i - 1 - n
<1>1. next \in 0 .. n - 1 /\ ring[t] \in Nat
  BY <1>0
<1>2. Span(next, h, n) = k - 1 /\ k \in 1 .. n - 1
  BY <1>0 DEF Span
<1>3. A \in Seq(Nat) /\ Len(A) = k
  BY RingedType
<1>4. R \in Seq(Nat) /\ Len(R) = k - 1
  BY <1>1, <1>2, RingedType
<1>5. \A i \in 1 .. k : A[i] = ring[s(i)]
  BY DEF Ringed
<1>6. \A i \in 1 .. k - 1 : R[i] = ring[IF next + i - 1 < n THEN next + i - 1 ELSE next + i - 1 - n]
  BY <1>2 DEF Ringed
<1>7. s(1) = t
  OBVIOUS
<1>8. \A i \in 1 .. k - 1 :
        (IF next + i - 1 < n THEN next + i - 1 ELSE next + i - 1 - n) = s(i + 1)
  <2> HIDE DEF k
  <2> SUFFICES ASSUME NEW i \in 1 .. k - 1
               PROVE  (IF next + i - 1 < n THEN next + i - 1 ELSE next + i - 1 - n) = s(i + 1)
    OBVIOUS
  <2>1. i \in 1 .. n - 2
    BY <1>2
  <2> QED BY <1>0, <2>1
<1>9. \A i \in 1 .. k - 1 : R[i] = ring[s(i + 1)]
  BY <1>6, <1>8
<1> HIDE DEF A, R, k, s
<1>10. k \in Nat /\ k >= 1 /\ <<ring[t]>> \in Seq(Nat) /\ Len(<<ring[t]>>) = 1
  BY <1>1, <1>2
<1> DEFINE one == <<ring[t]>>
<1>11. one[1] = ring[t]
  OBVIOUS
<1> HIDE DEF one
<1>12. one \in Seq(Nat) /\ Len(one) = 1
  BY <1>10 DEF one
<1>13. /\ one \o R \in Seq(Nat) /\ Len(one \o R) = k
       /\ \A i \in 1 .. k : (one \o R)[i] = IF i <= 1 THEN one[i] ELSE R[i - 1]
  <2>1. Len(one) + Len(R) = k
    BY <1>4, <1>10, <1>12
  <2>2. /\ one \o R \in Seq(Nat) /\ Len(one \o R) = Len(one) + Len(R)
        /\ \A i \in 1 .. Len(one) + Len(R) :
             (one \o R)[i] = IF i <= Len(one) THEN one[i] ELSE R[i - Len(one)]
    BY <1>4, <1>12, ConcatProperties, Zenon
  <2> QED BY <1>12, <2>1, <2>2
<1>14. ASSUME NEW i \in 1 .. k PROVE A[i] = (one \o R)[i]
  <2>1. CASE i = 1
    <3>1. 1 \in 1 .. k /\ 1 <= 1
      BY <1>10
    <3>2. A[1] = ring[t] /\ (one \o R)[1] = one[1]
      BY <1>5, <1>7, <1>13, <3>1
    <3> QED BY <1>11, <2>1, <3>2
  <2>2. CASE i # 1
    <3>1. i - 1 \in 1 .. k - 1 /\ (i - 1) + 1 = i /\ ~(i <= 1)
      BY <1>10, <2>2
    <3>2. R[i - 1] = ring[s(i)]
      BY <1>9, <3>1
    <3> QED BY <1>5, <1>13, <3>1, <3>2
  <2> QED BY <2>1, <2>2
<1>15. A = one \o R
  BY <1>3, <1>13, <1>14, SeqEqual
<1> QED BY <1>15 DEF A, R, one, next

-----------------------------------------------------------------------------
(* Types.                                                                  *)

Flags ==
  /\ dreie \in BOOLEAN /\ txcie \in BOOLEAN /\ rxcie \in BOOLEAN /\ txcif \in BOOLEAN
  /\ used \in BOOLEAN /\ half \in BOOLEAN /\ masked \in BOOLEAN
  /\ raced \in BOOLEAN /\ cut \in BOOLEAN /\ lost \in BOOLEAN

Rings ==
  /\ txHead \in 0 .. TxSize - 1 /\ txTail \in 0 .. TxSize - 1
  /\ rxHead \in 0 .. RxSize - 1 /\ rxTail \in 0 .. RxSize - 1
  /\ txRing \in [0 .. TxSize - 1 -> Nat] /\ rxRing \in [0 .. RxSize - 1 -> Nat]

Wire ==
  /\ data \in Seq(Nat) /\ Len(data) <= 1 /\ shift \in Seq(Nat) /\ Len(shift) <= 1
  /\ data # <<>> => shift # <<>>
  /\ fifo \in Seq(Nat) /\ Len(fifo) <= 2 /\ out \in Seq(Nat)

Calls ==
  /\ readout \in Seq(Nat)
  /\ byte \in Nat /\ written \in 0 .. MaxBytes /\ arrived \in 0 .. MaxArrivals
  /\ pc \in {"idle", "check", "direct", "room", "enable", "flush", "close"}

LEMMA TypeParts == TypeOK <=> Flags /\ Rings /\ Wire /\ Calls
BY DEF TypeOK, Flags, Rings, Wire, Calls

LEMMA NextIndex ==
  /\ \A i \in 0 .. TxSize - 1 : TxNext(i) \in 0 .. TxSize - 1
  /\ \A i \in 0 .. RxSize - 1 : RxNext(i) \in 0 .. RxSize - 1
BY UartAssumption DEF TxNext, RxNext

\* Loading a byte keeps at most one byte in each stage of the transmitter.
LEMMA LoadWire ==
  ASSUME Wire, NEW b \in Nat, Load(b)
  PROVE  Wire'
<1>1. <<b>> \in Seq(Nat) /\ Len(<<b>>) = 1 /\ <<b>> # <<>>
  OBVIOUS
<1>2. CASE txcif' = FALSE /\ UNCHANGED <<out, cut, fifo>>
           /\ IF shift = <<>> THEN shift' = <<b>> /\ UNCHANGED data
                              ELSE data' = <<b>> /\ UNCHANGED shift
  <2>1. CASE shift = <<>>
    <3>1. shift' = <<b>> /\ UNCHANGED <<data, out, fifo>>
      BY <1>2, <2>1
    <3> QED BY <1>1, <3>1 DEF Wire
  <2>2. CASE shift # <<>>
    BY <1>1, <1>2, <2>2 DEF Wire
  <2> QED BY <2>1, <2>2
<1>3. CASE /\ shift # <<>> /\ txcif' = TRUE /\ cut' = TRUE
           /\ out' = Line(shift[1]) /\ fifo' = Heard(shift[1])
           /\ shift' = <<b>> /\ UNCHANGED data
  <2>1. shift[1] \in Nat
    BY <1>3 DEF Wire
  <2>2. Line(shift[1]) \in Seq(Nat) /\ Heard(shift[1]) \in Seq(Nat) /\ Len(Heard(shift[1])) <= 2
    BY <2>1 DEF Line, Heard, Wire
  <2> QED BY <1>1, <1>3, <2>2 DEF Wire
<1> QED BY <1>2, <1>3 DEF Load

LEMMA SendNextWire ==
  ASSUME Rings, Wire, SendNext
  PROVE  Wire'
<1>1. txRing[txTail] \in Nat /\ Load(txRing[txTail])
  BY DEF SendNext, Rings
<1> QED BY <1>1, LoadWire

LEMMA PollWire ==
  ASSUME Rings, Wire, Poll
  PROVE  Wire'
<1>1. CASE SendNext
  BY <1>1, SendNextWire
<1>2. CASE ~SendNext
  BY <1>2 DEF Poll, lineVars, Wire
<1> QED BY <1>1, <1>2

LEMMA WireStep == TypeOK /\ [Next]_vars => Wire'
<1> SUFFICES ASSUME Rings, Wire, Calls, [Next]_vars PROVE Wire'
  BY TypeParts
<1>1. CASE Direct
  BY <1>1, LoadWire DEF Direct, Calls
<1>2. CASE WaitRoom \/ FlushWait
  BY <1>2, PollWire DEF WaitRoom, FlushWait
<1>3. CASE DreIsr
  BY <1>3, SendNextWire DEF DreIsr
<1>4. CASE Reopen
  BY <1>4 DEF Reopen, Wire
<1>5. CASE RxcIsr
  BY <1>5 DEF RxcIsr, RxcPending, lineVars, Wire
<1>6. CASE TxcIsr
  BY <1>6 DEF TxcIsr, lineVars, Wire
<1>7. CASE FrameEnd
  <2>1. shift[1] \in Nat
    BY <1>7 DEF FrameEnd, Wire
  <2>2. Line(shift[1]) \in Seq(Nat) /\ Heard(shift[1]) \in Seq(Nat) /\ Len(Heard(shift[1])) <= 2
    BY <2>1 DEF Line, Heard, Wire
  <2> QED BY <1>7, <2>2 DEF FrameEnd, Wire
<1>8. CASE Arrive
  <2>1. Foreign(arrived + 1) \in Nat
    BY UartAssumption DEF Foreign, Calls
  <2>2. fifo' \in Seq(Nat) /\ Len(fifo') <= 2
    <3>1. CASE Len(fifo) < 2
      <4>1. fifo' = Append(fifo, Foreign(arrived + 1))
        BY <1>8, <3>1 DEF Arrive
      <4> QED BY <2>1, <3>1, <4>1 DEF Wire
    <3>2. CASE ~(Len(fifo) < 2)
      BY <1>8, <3>2 DEF Arrive, Wire
    <3> QED BY <3>1, <3>2
  <2> QED BY <1>8, <2>2 DEF Arrive, lineVars, Wire
<1>9. CASE Check \/ Store \/ Enable \/ FlushDone \/ Write \/ Flush \/ Read \/ Mask \/ UNCHANGED vars
  BY <1>9 DEF Check, Store, Enable, FlushDone, Write, Flush, Read, Mask, vars, lineVars, Wire
<1> QED BY <1>1, <1>2, <1>3, <1>4, <1>5, <1>6, <1>7, <1>8, <1>9 DEF Next, Main, Isr

LEMMA RingsStep == TypeOK /\ [Next]_vars => Rings'
<1> SUFFICES ASSUME Rings, Wire, Calls, [Next]_vars PROVE Rings'
  BY TypeParts
<1>1. CASE WaitRoom \/ FlushWait \/ DreIsr
  BY <1>1, NextIndex DEF WaitRoom, FlushWait, DreIsr, Poll, SendNext, Rest, rxVars, txVars, Rings
<1>2. CASE Store
  BY <1>2, NextIndex DEF Store, Rest, rxVars, Rings, Calls
<1>3. CASE RxcIsr
  <2>1. RxNext(rxHead) \in 0 .. RxSize - 1 /\ Head(fifo) \in Nat
    <3>1. fifo \in Seq(Nat) /\ fifo # <<>>
      BY <1>3 DEF RxcIsr, RxcPending, Wire
    <3>2. Head(fifo) \in Nat
      BY <3>1
    <3>3. RxNext(rxHead) \in 0 .. RxSize - 1
      BY NextIndex DEF Rings
    <3> QED BY <3>2, <3>3
  <2>2. rxHead' \in 0 .. RxSize - 1 /\ rxRing' \in [0 .. RxSize - 1 -> Nat]
    BY <1>3, <2>1 DEF RxcIsr, Rings
  <2> QED BY <1>3, <2>2 DEF RxcIsr, txVars, Rings
<1>4. CASE Reopen
  BY <1>4 DEF Reopen, txVars, Rings
<1>5. CASE Read
  BY <1>5, NextIndex DEF Read, txVars, Rings
<1>6. CASE Check \/ Enable \/ FlushDone \/ Write \/ Flush \/ Mask \/ UNCHANGED vars
  BY <1>6 DEF Check, Enable, FlushDone, Write, Flush, Mask, Rest, vars, txVars, rxVars, Rings
<1>7. CASE TxcIsr \/ FrameEnd \/ Arrive \/ Direct
  BY <1>7 DEF TxcIsr, FrameEnd, Arrive, Direct, Rest, txVars, rxVars, Rings
<1> QED BY <1>1, <1>2, <1>3, <1>4, <1>5, <1>6, <1>7 DEF Next, Main, Isr

LEMMA CallsStep == TypeOK /\ [Next]_vars => Calls'
<1> SUFFICES ASSUME Rings, Wire, Calls, [Next]_vars PROVE Calls'
  BY TypeParts
<1>1. CASE WaitRoom \/ FlushWait
  BY <1>1 DEF WaitRoom, FlushWait, Rest, mainVars, Calls
<1>2. CASE DreIsr \/ RxcIsr \/ TxcIsr \/ FrameEnd
  BY <1>2 DEF DreIsr, RxcIsr, TxcIsr, FrameEnd, mainVars, Calls
<1>3. CASE Write
  BY <1>3, UartAssumption DEF Write, Rest, Calls
<1>4. CASE Read
  <2>1. rxRing[rxTail] \in Nat
    BY DEF Rings
  <2> QED BY <1>4, <2>1 DEF Read, mainVars, Calls
<1>5. CASE Arrive
  BY <1>5, UartAssumption DEF Arrive, mainVars, Calls
<1>6. CASE Check \/ Direct \/ Store \/ Enable \/ Flush \/ FlushDone \/ Reopen \/ Mask
  BY <1>6 DEF Check, Direct, Store, Enable, Flush, FlushDone, Reopen, Mask, Rest, Calls
<1>7. CASE UNCHANGED vars
  BY <1>7 DEF vars, mainVars, Calls
<1> QED BY <1>1, <1>2, <1>3, <1>4, <1>5, <1>6, <1>7 DEF Next, Main, Isr

LEMMA FlagsStep == TypeOK /\ [Next]_vars => Flags'
<1> SUFFICES ASSUME Flags, [Next]_vars PROVE Flags'
  BY TypeParts
<1>1. CASE WaitRoom \/ FlushWait \/ DreIsr
  <2>1. dreie' \in BOOLEAN /\ txcie' \in BOOLEAN /\ rxcie' \in BOOLEAN
    BY <1>1 DEF WaitRoom, FlushWait, DreIsr, Poll, SendNext, irqVars, Flags
  <2>2. txcif' \in BOOLEAN /\ cut' \in BOOLEAN /\ raced' \in BOOLEAN
    BY <1>1 DEF WaitRoom, FlushWait, DreIsr, Poll, SendNext, Load, lineVars, Flags
  <2>3. UNCHANGED <<used, half, masked, lost>>
    BY <1>1 DEF WaitRoom, FlushWait, DreIsr, mainVars, Rest
  <2> QED BY <2>1, <2>2, <2>3 DEF Flags
<1>2. CASE Direct
  <2>1. txcif' \in BOOLEAN /\ cut' \in BOOLEAN
    BY <1>2 DEF Direct, Load, Flags
  <2>2. txcie' \in BOOLEAN /\ rxcie' \in BOOLEAN
    BY <1>2 DEF Direct, Turn, Flags
  <2> QED BY <1>2, <2>1, <2>2 DEF Direct, Rest, Flags
<1>3. CASE Enable
  BY <1>3 DEF Enable, Turn, Rest, Flags
<1>4. CASE RxcIsr
  BY <1>4 DEF RxcIsr, irqVars, lineVars, mainVars, Flags
<1>5. CASE TxcIsr
  BY <1>5 DEF TxcIsr, lineVars, mainVars, Flags
<1>6. CASE FrameEnd
  BY <1>6 DEF FrameEnd, irqVars, mainVars, Flags
<1>7. CASE Arrive
  BY <1>7 DEF Arrive, irqVars, lineVars, mainVars, Flags
<1>8. CASE Reopen
  BY <1>8 DEF Reopen, Flags
<1>9. CASE Check \/ Store \/ FlushDone \/ Write \/ Flush
  <2>1. CASE Check \/ Store \/ FlushDone
    BY <2>1 DEF Check, Store, FlushDone, Rest, irqVars, lineVars, Flags
  <2>2. CASE Write
    BY <2>2 DEF Write, Rest, irqVars, lineVars, Flags
  <2>3. CASE Flush
    BY <2>3 DEF Flush, Rest, irqVars, lineVars, Flags
  <2> QED BY <1>9, <2>1, <2>2, <2>3
<1>10. CASE Mask
  BY <1>10 DEF Mask, Rest, irqVars, lineVars, Flags
<1>11. CASE Read \/ UNCHANGED vars
  BY <1>11 DEF Read, vars, irqVars, lineVars, mainVars, Flags
<1> QED BY <1>1, <1>2, <1>3, <1>4, <1>5, <1>6, <1>7, <1>8, <1>9, <1>10, <1>11 DEF Next, Main, Isr

LEMMA TypeInit == Init => TypeOK
BY UartAssumption DEF Init, TypeOK

LEMMA TypeStep == TypeOK /\ [Next]_vars => TypeOK'
BY WireStep, RingsStep, CallsStep, FlagsStep DEF TypeOK, Wire, Rings, Calls, Flags

\* Every index stays in its ring and the transmitter holds at most two bytes,
\* for every buffer size.
THEOREM TypeCorrect == Spec => []TypeOK
BY TypeInit, TypeStep, PTL DEF Spec

-----------------------------------------------------------------------------
(* The order of what is sent.                                              *)

\* While the DRE interrupt is off outside write() nothing is queued; write()
\* puts a byte into the transmitter only past an empty queue; the flag that
\* the last frame has ended is set only when nothing follows it.
SendInv ==
  /\ MoreData
  /\ Sound /\ pc # "enable" /\ txHead # txTail => dreie
  /\ Sound /\ pc = "direct" => txHead = txTail /\ data = <<>>
  /\ Sound /\ txcif => shift = <<>>
  /\ pc \in {"check", "direct", "room"} => byte = written /\ written > 0

SendTypeInv == TypeOK /\ SendInv

LEMMA SendInit == Init => SendInv
BY DEF Init, SendInv, MoreData

\* The handler's step, from the interrupt or from a waiting call.
LEMMA SendNextInv ==
  ASSUME TypeOK, SendInv, SendNext, data = <<>>, ~raced => txHead # txTail,
         Sound /\ pc # "enable" => dreie,
         UNCHANGED <<pc, byte, written>>
  PROVE  SendInv'
<1>1. /\ txTail' = TxNext(txTail) /\ txHead' = txHead /\ raced' = raced
      /\ dreie' = (dreie /\ ~LastByte)
  BY DEF SendNext
<1>2. MoreData'
  BY <1>1 DEF SendInv, MoreData, LastByte
<1>3. pc # "direct" \/ ~Sound
  BY DEF SendInv, Sound
<1>4. Sound' => Sound /\ txcif' = FALSE
  BY DEF SendNext, Load, Sound, TypeOK
<1>5. Sound' /\ pc' # "enable" /\ txHead' # txTail' => dreie'
  BY <1>1, <1>4 DEF LastByte
<1> QED BY <1>2, <1>3, <1>4, <1>5 DEF SendInv

LEMMA PollInv ==
  ASSUME TypeOK, SendInv, Poll, pc \in {"room", "flush", "close"},
         UNCHANGED <<pc, byte, written>>
  PROVE  SendInv'
<1>1. CASE Polled /\ txHead # txTail
  <2>1. SendNext /\ data = <<>>
    BY <1>1 DEF Poll, Polled, dreif
  <2>2. Sound => dreie
    BY <1>1 DEF SendInv
  <2> QED BY <1>1, <2>1, <2>2, SendNextInv
<1>2. CASE Polled /\ txHead = txTail
  <2>1. dreie' = FALSE /\ UNCHANGED <<txHead, txTail, data, shift, txcif, raced, cut>>
    BY <1>2 DEF Poll, txVars, lineVars
  <2> QED BY <1>2, <2>1 DEF SendInv, MoreData, Sound
<1>3. CASE ~Polled
  <2>1. UNCHANGED <<txHead, txTail, dreie, data, shift, txcif, raced, cut>>
    BY <1>3 DEF Poll, txVars, irqVars, lineVars
  <2> QED BY <2>1 DEF SendInv, MoreData, Sound
<1> QED BY <1>1, <1>2, <1>3

LEMMA SendStep == TypeOK /\ SendInv /\ [Next]_vars => SendInv'
<1> SUFFICES ASSUME TypeOK, SendInv, [Next]_vars PROVE SendInv'
  OBVIOUS
<1>1. CASE WaitRoom \/ FlushWait
  BY <1>1, PollInv DEF WaitRoom, FlushWait, mainVars
<1>2. CASE DreIsr
  <2>1. SendNext /\ data = <<>> /\ dreie /\ UNCHANGED <<pc, byte, written>>
    BY <1>2 DEF DreIsr, DrePending, dreif, mainVars
  <2>2. ~raced => txHead # txTail
    BY <2>1 DEF SendInv, MoreData
  <2> QED BY <2>1, <2>2, SendNextInv
<1>3. CASE Check
  <2>1. UNCHANGED <<txHead, txTail, dreie, data, shift, txcif, raced, cut, byte, written>>
    BY <1>3 DEF Check, txVars, irqVars, lineVars
  <2> QED BY <1>3, <2>1 DEF Check, dreif, SendInv, MoreData, Sound
<1>4. CASE Direct
  <2>1. UNCHANGED <<txHead, txTail, dreie, raced>> /\ pc' = "idle"
    BY <1>4 DEF Direct, txVars
  <2>2. Sound' => Sound /\ txcif' = FALSE
    BY <1>4, <2>1 DEF Direct, Load, Sound, TypeOK
  <2> QED BY <1>4, <2>1, <2>2 DEF Direct, SendInv, MoreData
<1>5. CASE Store
  <2>1. UNCHANGED <<txTail, dreie, data, shift, txcif, raced, cut>> /\ pc' = "enable"
    BY <1>5 DEF Store, irqVars, lineVars
  <2>2. txHead' # txTail'
    BY <1>5, <2>1 DEF Store, Full
  <2> QED BY <2>1, <2>2 DEF SendInv, MoreData, Sound
<1>6. CASE Enable
  <2>1. UNCHANGED <<txHead, txTail, data, shift, cut>> /\ pc' = "idle" /\ dreie' = TRUE
    BY <1>6 DEF Enable, txVars
  <2>2. /\ ~raced' => ~raced /\ txHead # txTail
        /\ txcif' => txcif
    BY <1>6 DEF Enable, TypeOK
  <2> QED BY <2>1, <2>2 DEF SendInv, MoreData, Sound
<1>7. CASE Reopen
  <2>1. /\ UNCHANGED <<txHead, txTail, raced, cut, written>> /\ pc' = "idle"
        /\ dreie' = FALSE /\ txcif' = FALSE /\ ~dreie /\ pc = "close"
    BY <1>7 DEF Reopen, txVars, Flushed
  <2> QED BY <2>1 DEF SendInv, MoreData, Sound
<1>8. CASE FrameEnd
  <2>1. /\ UNCHANGED <<txHead, txTail, dreie, raced, cut, pc, byte, written>>
        /\ shift # <<>> /\ shift' = data /\ data' = <<>> /\ (txcif' => txcif \/ data = <<>>)
    BY <1>8 DEF FrameEnd, txVars, irqVars, mainVars
  <2> QED BY <2>1 DEF SendInv, MoreData, Sound
<1>9. CASE Write
  <2>1. /\ UNCHANGED <<txHead, txTail, dreie, data, shift, txcif, raced, cut>>
        /\ pc = "idle" /\ pc' = "check" /\ written' = written + 1 /\ byte' = written + 1
    BY <1>9 DEF Write, txVars, irqVars, lineVars
  <2> QED BY <2>1 DEF SendInv, MoreData, Sound, TypeOK
<1>10. CASE Flush \/ FlushDone
  <2>1. /\ UNCHANGED <<txHead, txTail, dreie, data, shift, txcif, raced, cut>>
        /\ pc # "enable" /\ pc' \in {"idle", "flush", "close"}
    BY <1>10 DEF Flush, FlushDone, txVars, irqVars, lineVars
  <2> QED BY <2>1 DEF SendInv, MoreData, Sound
<1>11. CASE RxcIsr \/ TxcIsr \/ Read \/ Mask \/ Arrive \/ UNCHANGED vars
  <2>1. UNCHANGED <<txHead, txTail, dreie, data, shift, txcif, raced, cut, pc, byte, written>>
    BY <1>11 DEF RxcIsr, TxcIsr, Read, Mask, Arrive, vars, Rest, txVars, irqVars, lineVars, mainVars
  <2> QED BY <2>1 DEF SendInv, MoreData, Sound
<1> QED BY <1>1, <1>2, <1>3, <1>4, <1>5, <1>6, <1>7, <1>8, <1>9, <1>10, <1>11 DEF Next, Main, Isr

\* The DRE handler always finds a byte, until write() enables it on an emptied
\* buffer.
THEOREM MoreDataCorrect == Spec => []MoreData
<1>1. Init => SendTypeInv
  BY TypeInit, SendInit DEF SendTypeInv
<1>2. SendTypeInv /\ [Next]_vars => SendTypeInv'
  BY TypeStep, SendStep DEF SendTypeInv
<1>3. SendTypeInv => MoreData
  BY DEF SendTypeInv, SendInv
<1> QED BY <1>1, <1>2, <1>3, PTL DEF Spec

\* The numbers of the bytes written so far, and one more.
LEMMA CountAppend ==
  ASSUME NEW n \in Nat
  PROVE  /\ [i \in 1 .. n |-> i] \in Seq(Nat) /\ Len([i \in 1 .. n |-> i]) = n
         /\ Append([i \in 1 .. n |-> i], n + 1) = [i \in 1 .. n + 1 |-> i]
<1> DEFINE S == [i \in 1 .. n |-> i]
           T == [i \in 1 .. n + 1 |-> i]
<1>1. S \in Seq(Nat) /\ Len(S) = n
  BY IsASeq
<1>2. T \in Seq(Nat) /\ Len(T) = n + 1
  BY IsASeq
<1>3. /\ Append(S, n + 1) \in Seq(Nat) /\ Len(Append(S, n + 1)) = n + 1
      /\ \A i \in 1 .. n : Append(S, n + 1)[i] = S[i]
      /\ Append(S, n + 1)[n + 1] = n + 1
  BY <1>1, AppendProperties
<1>4. \A i \in 1 .. n + 1 : Append(S, n + 1)[i] = T[i]
  BY <1>3
<1>5. Append(S, n + 1) = T
  BY <1>2, <1>3, <1>4, SeqEqual
<1> QED BY <1>1, <1>5

\* Moving a byte along the transmitter leaves the whole as it was.
LEMMA OneByte ==
  ASSUME NEW x \in Seq(Nat), NEW q \in Seq(Nat), NEW b \in Nat
  PROVE  x \o (<<b>> \o q) = (x \o <<b>>) \o q
<1>1. <<b>> \in Seq(Nat)
  OBVIOUS
<1> QED BY <1>1, ConcatAssociative

LEMMA HeadTailBack ==
  ASSUME NEW s \in Seq(Nat), s # <<>>
  PROVE  s = <<Head(s)>> \o Tail(s)
<1>1. Head(s) \in Nat /\ Tail(s) \in Seq(Nat) /\ Len(Tail(s)) = Len(s) - 1
      /\ \A i \in 1 .. Len(Tail(s)) : Tail(s)[i] = s[i + 1]
  BY HeadTailProperties
<1>2. Head(s) = s[1] /\ Len(s) \in Nat \ {0}
  BY EmptySeq
<1> DEFINE h == <<Head(s)>>
           t == Tail(s)
<1>3. h \in Seq(Nat) /\ Len(h) = 1 /\ h[1] = s[1]
  BY <1>1, <1>2
<1>4. /\ h \o t \in Seq(Nat) /\ Len(h \o t) = Len(h) + Len(t)
      /\ \A i \in 1 .. Len(h) + Len(t) : (h \o t)[i] = IF i <= Len(h) THEN h[i] ELSE t[i - Len(h)]
  BY <1>1, <1>3, ConcatProperties
<1> HIDE DEF h, t
<1>5. \A i \in 1 .. Len(s) : s[i] = (h \o t)[i]
  <2> SUFFICES ASSUME NEW i \in 1 .. Len(s) PROVE s[i] = (h \o t)[i]
    OBVIOUS
  <2>1. CASE i = 1
    BY <1>1, <1>2, <1>3, <1>4, <2>1 DEF t
  <2>2. CASE i # 1
    <3>1. i - 1 \in 1 .. Len(t) /\ (i - 1) + 1 = i /\ ~(i <= 1) /\ i \in 1 .. 1 + Len(t)
      BY <1>1, <1>2, <2>2 DEF t
    <3> QED BY <1>1, <1>3, <1>4, <3>1 DEF t
  <2> QED BY <2>1, <2>2
<1>6. Len(s) = Len(h \o t)
  BY <1>1, <1>2, <1>3, <1>4 DEF t
<1>7. s = h \o t
  BY <1>4, <1>5, <1>6, SeqEqual
<1> QED BY <1>7 DEF h, t

LEMMA AppendLast ==
  ASSUME NEW x \in Seq(Nat), NEW q \in Seq(Nat), NEW b \in Nat
  PROVE  x \o Append(q, b) = Append(x \o q, b)
<1>1. <<b>> \in Seq(Nat) /\ x \o q \in Seq(Nat)
  BY ConcatProperties
<1>2. Append(q, b) = q \o <<b>> /\ Append(x \o q, b) = (x \o q) \o <<b>>
  BY <1>1, AppendIsConcat
<1> QED BY <1>1, <1>2, ConcatAssociative

LEMMA QueuedType == TypeOK => Queued \in Seq(Nat) /\ (txHead = txTail => Queued = <<>>)
BY UartAssumption, RingedType, RingedEmpty DEF TypeOK, Queued

\* What the handler takes from the ring it puts into the transmitter.
LEMMA SendNextOrder ==
  ASSUME TypeOK, TypeOK', SendNext, data = <<>>, txHead # txTail, Sound'
  PROVE  out' \o shift' \o data' \o Queued' = out \o shift \o data \o Queued
<1> DEFINE b == txRing[txTail]
<1>1. b \in Nat
  BY DEF TypeOK
<1>2. txTail' = TxNext(txTail) /\ UNCHANGED <<txRing, txHead>> /\ Load(b)
  BY DEF SendNext
<1>3. Queued = <<b>> \o Queued'
  <2>1. Ringed(txRing, txTail, txHead, TxSize) = <<b>> \o Ringed(txRing, TxNext(txTail), txHead, TxSize)
    <3>1. /\ TxSize \in Nat \ {0, 1} /\ txRing \in [0 .. TxSize - 1 -> Nat]
          /\ txTail \in 0 .. TxSize - 1 /\ txHead \in 0 .. TxSize - 1 /\ txTail # txHead
      BY UartAssumption DEF TypeOK
    <3>2. TxNext(txTail) = After(txTail, TxSize)
      BY DEF TxNext, After
    <3> QED BY <3>1, <3>2, RingedTake, Zenon DEF b
  <2> QED BY <1>2, <2>1 DEF Queued
<1>4. Queued' \in Seq(Nat) /\ out \in Seq(Nat) /\ shift \in Seq(Nat) /\ out \o shift \in Seq(Nat)
  BY <1>2, UartAssumption, RingedType, ConcatProperties DEF Queued, TypeOK
<1>5. out' = out /\ IF shift = <<>> THEN shift' = <<b>> /\ data' = data
                                    ELSE data' = <<b>> /\ shift' = shift
  BY <1>2 DEF Load, Sound
<1> HIDE DEF b
<1>6. CASE shift = <<>>
  <2>1. out \o shift \o data \o Queued = out \o (<<b>> \o Queued')
    BY <1>3, <1>4, <1>6, <1>1, ConcatEmptySeq
  <2>2. out' \o shift' \o data' \o Queued' = (out \o <<b>>) \o Queued'
    <3>1. out \o <<b>> \in Seq(Nat)
      BY <1>1, <1>4, ConcatProperties
    <3> QED BY <1>5, <1>6, <3>1, ConcatEmptySeq
  <2>3. out \o (<<b>> \o Queued') = (out \o <<b>>) \o Queued'
    BY <1>1, <1>4, OneByte
  <2> QED BY <2>1, <2>2, <2>3
<1>7. CASE shift # <<>>
  <2>1. out \o shift \o data \o Queued = (out \o shift) \o (<<b>> \o Queued')
    BY <1>3, <1>4, ConcatEmptySeq
  <2>2. out' \o shift' \o data' \o Queued' = ((out \o shift) \o <<b>>) \o Queued'
    BY <1>5, <1>7
  <2>3. (out \o shift) \o (<<b>> \o Queued') = ((out \o shift) \o <<b>>) \o Queued'
    BY <1>1, <1>4, OneByte
  <2> QED BY <2>1, <2>2, <2>3
<1> QED BY <1>6, <1>7

LEMMA OrderInit == Init => WrittenInOrder
<1> SUFFICES ASSUME Init PROVE WrittenInOrder
  OBVIOUS
<1>1. Queued = <<>>
  BY TypeInit, QueuedType DEF Init
<1>2. [i \in 1 .. 0 |-> i] = <<>>
  OBVIOUS
<1> QED BY <1>1, <1>2, EmptySeq, ConcatEmptySeq DEF Init, WrittenInOrder, Taken

LEMMA SoundStays == [Next]_vars /\ TypeOK => (Sound' => Sound)
<1> SUFFICES ASSUME [Next]_vars, TypeOK, Sound' PROVE Sound
  OBVIOUS
<1>1. CASE WaitRoom \/ FlushWait \/ DreIsr
  BY <1>1 DEF WaitRoom, FlushWait, DreIsr, Poll, SendNext, Load, lineVars, Sound, TypeOK
<1>2. CASE Direct \/ Enable
  BY <1>2 DEF Direct, Enable, Load, Sound, TypeOK
<1>3. CASE Check \/ Store \/ FlushDone \/ Reopen \/ RxcIsr \/ TxcIsr \/ FrameEnd
  BY <1>3 DEF Check, Store, FlushDone, Reopen, RxcIsr, TxcIsr, FrameEnd, lineVars, Sound
<1>4. CASE Write \/ Flush \/ Read \/ Mask \/ Arrive \/ UNCHANGED vars
  BY <1>4 DEF Write, Flush, Read, Mask, Arrive, vars, lineVars, Sound
<1> QED BY <1>1, <1>2, <1>3, <1>4 DEF Next, Main, Isr

LEMMA SendNextLine ==
  ASSUME TypeOK, TypeOK', WrittenInOrder, SendNext, data = <<>>, txHead # txTail,
         Sound' => Sound, Taken' = Taken
  PROVE  WrittenInOrder'
BY SendNextOrder DEF WrittenInOrder

LEMMA PollLine ==
  ASSUME TypeOK, TypeOK', WrittenInOrder, Poll, Sound' => Sound, Taken' = Taken
  PROVE  WrittenInOrder'
<1>1. CASE Polled /\ txHead # txTail
  <2>1. SendNext /\ data = <<>>
    BY <1>1 DEF Poll, Polled, dreif
  <2> QED BY <1>1, <2>1, SendNextLine
<1>2. CASE ~(Polled /\ txHead # txTail)
  <2>1. UNCHANGED <<txRing, txHead, txTail, out, shift, data>>
    BY <1>2 DEF Poll, txVars, lineVars
  <2> QED BY <2>1 DEF WrittenInOrder, Queued
<1> QED BY <1>1, <1>2

LEMMA OrderStep == SendTypeInv /\ WrittenInOrder /\ [Next]_vars => WrittenInOrder'
<1> SUFFICES ASSUME TypeOK, SendInv, WrittenInOrder, [Next]_vars PROVE WrittenInOrder'
  BY DEF SendTypeInv
<1>t. TypeOK' /\ (Sound' => Sound)
  BY TypeStep, SoundStays
<1>q. /\ Queued \in Seq(Nat) /\ out \in Seq(Nat) /\ shift \in Seq(Nat) /\ data \in Seq(Nat)
      /\ out \o shift \in Seq(Nat) /\ out \o shift \o data \in Seq(Nat)
  BY QueuedType, ConcatProperties DEF TypeOK
<1>1. CASE WaitRoom \/ FlushWait
  BY <1>1, <1>t, PollLine DEF WaitRoom, FlushWait, mainVars, Taken
<1>2. CASE DreIsr
  <2>1. SendNext /\ data = <<>> /\ dreie /\ Taken' = Taken
    BY <1>2 DEF DreIsr, DrePending, dreif, mainVars, Taken
  <2>2. Sound => txHead # txTail
    BY <2>1 DEF SendInv, MoreData, Sound
  <2> QED BY <1>t, <2>1, <2>2, SendNextLine DEF WrittenInOrder
<1>3. CASE Direct
  <2> SUFFICES ASSUME Sound' PROVE out' \o shift' \o data' \o Queued' = [i \in 1 .. Taken' |-> i]
    BY DEF WrittenInOrder
  <2>1. /\ Sound /\ pc = "direct" /\ txHead = txTail /\ data = <<>>
        /\ byte = written /\ written \in Nat \ {0} /\ Taken = written - 1 /\ Taken' = written
    BY <1>3, <1>t DEF Direct, SendInv, Taken, TypeOK
  <2>2. Queued = <<>> /\ Queued' = Queued
    BY <1>3, <2>1, QueuedType DEF Direct, txVars, Queued
  <2>3. out \o shift = [i \in 1 .. written - 1 |-> i]
    BY <1>q, <2>1, <2>2, ConcatEmptySeq DEF WrittenInOrder
  <2>4. out' = out /\ IF shift = <<>> THEN shift' = <<byte>> /\ data' = data
                                      ELSE data' = <<byte>> /\ shift' = shift
    BY <1>3 DEF Direct, Load, Sound
  <2>5. out' \o shift' \o data' \o Queued' = (out \o shift) \o <<byte>>
    <3>1. (out \o shift) \o <<byte>> \in Seq(Nat) /\ <<byte>> \in Seq(Nat)
      BY <1>q, <2>1, ConcatProperties
    <3>2. CASE shift = <<>>
      <4>1. out \o <<byte>> \in Seq(Nat)
        BY <1>q, <3>1, ConcatProperties
      <4>2. out \o <<>> = out /\ (out \o <<byte>>) \o <<>> = out \o <<byte>>
        BY <1>q, <4>1, ConcatEmptySeq
      <4>3. out' = out /\ shift' = <<byte>> /\ data' = <<>> /\ Queued' = <<>>
        BY <2>1, <2>2, <2>4, <3>2
      <4> QED BY <3>2, <4>2, <4>3
    <3>3. CASE shift # <<>>
      BY <2>2, <2>4, <3>1, <3>3, ConcatEmptySeq
    <3> QED BY <3>2, <3>3
  <2>6. (out \o shift) \o <<byte>> = Append([i \in 1 .. written - 1 |-> i], written)
    BY <1>q, <2>1, <2>3, AppendIsConcat
  <2>7. Append([i \in 1 .. written - 1 |-> i], written) = [i \in 1 .. written |-> i]
    <3>1. written - 1 \in Nat /\ (written - 1) + 1 = written
      BY <2>1
    <3> QED BY <3>1, CountAppend
  <2> QED BY <2>1, <2>5, <2>6, <2>7
<1>4. CASE Store
  <2> SUFFICES ASSUME Sound' PROVE out' \o shift' \o data' \o Queued' = [i \in 1 .. Taken' |-> i]
    BY DEF WrittenInOrder
  <2>1. /\ Sound /\ byte = written /\ written \in Nat \ {0} /\ Taken = written - 1 /\ Taken' = written
        /\ UNCHANGED <<out, shift, data, txTail>> /\ txHead' = TxNext(txHead) /\ TxNext(txHead) # txTail
        /\ txRing' = [txRing EXCEPT ![txHead] = byte]
    BY <1>4, <1>t DEF Store, SendInv, Taken, TypeOK, Full, lineVars
  <2>2. Queued' = Append(Queued, byte)
    <3>1. /\ TxSize \in Nat \ {0, 1} /\ txRing \in [0 .. TxSize - 1 -> Nat] /\ byte \in Nat
          /\ txTail \in 0 .. TxSize - 1 /\ txHead \in 0 .. TxSize - 1
      BY UartAssumption DEF TypeOK
    <3>2. TxNext(txHead) = After(txHead, TxSize) /\ After(txHead, TxSize) # txTail
      BY <2>1 DEF TxNext, After
    <3>3. Ringed([txRing EXCEPT ![txHead] = byte], txTail, After(txHead, TxSize), TxSize)
            = Append(Ringed(txRing, txTail, txHead, TxSize), byte)
      BY <3>1, <3>2, RingedAppend
    <3> QED BY <2>1, <3>2, <3>3 DEF Queued
  <2>3. out' \o shift' \o data' \o Queued' = Append(out \o shift \o data \o Queued, written)
    BY <1>q, <2>1, <2>2, AppendLast
  <2>4. Append([i \in 1 .. written - 1 |-> i], written) = [i \in 1 .. written |-> i]
    <3>1. written - 1 \in Nat /\ (written - 1) + 1 = written
      BY <2>1
    <3> QED BY <3>1, CountAppend
  <2> QED BY <2>1, <2>3, <2>4 DEF WrittenInOrder
<1>5. CASE FrameEnd
  <2> SUFFICES ASSUME Sound' PROVE out' \o shift' \o data' \o Queued' = [i \in 1 .. Taken' |-> i]
    BY DEF WrittenInOrder
  <2>1. /\ Sound /\ shift # <<>> /\ out' = Append(out, shift[1]) /\ shift' = data /\ data' = <<>>
        /\ Taken' = Taken /\ Queued' = Queued
    BY <1>5, <1>t DEF FrameEnd, Line, Sound, Taken, Queued, mainVars, txVars
  <2>2. shift = <<shift[1]>> /\ shift[1] \in Nat
    <3>1. shift \in Seq(Nat) /\ Len(shift) = 1
      <4>1. Len(shift) <= 1
        BY DEF TypeOK
      <4>2. Len(shift) \in Nat \ {0}
        BY <1>q, <2>1, EmptySeq
      <4>3. Len(shift) = 1
        BY <4>1, <4>2
      <4> QED BY <1>q, <4>3
    <3>2. shift[1] \in Nat
      <4>1. 1 \in 1 .. Len(shift)
        BY <3>1
      <4> QED BY <3>1, <4>1, ElementOfSeq
    <3>3. <<shift[1]>> \in Seq(Nat) /\ Len(<<shift[1]>>) = 1 /\ <<shift[1]>>[1] = shift[1]
      BY <3>2
    <3>4. shift = <<shift[1]>>
      <4>1. Len(shift) = Len(<<shift[1]>>) /\ \A i \in 1 .. Len(shift) : shift[i] = <<shift[1]>>[i]
        BY <3>1, <3>3
      <4> QED BY <3>1, <3>3, <4>1, SeqEqual, Zenon
    <3> QED BY <3>2, <3>4
  <2>3. out' = out \o shift
    BY <1>q, <2>1, <2>2, AppendIsConcat
  <2>4. out' \o shift' \o data' \o Queued' = out \o shift \o data \o Queued
    BY <1>q, <2>1, <2>3, ConcatEmptySeq
  <2> QED BY <2>1, <2>4 DEF WrittenInOrder
<1>6. CASE Reopen
  <2> SUFFICES ASSUME Sound' PROVE out' \o shift' \o data' \o Queued' = [i \in 1 .. Taken' |-> i]
    BY DEF WrittenInOrder
  <2>1. /\ pc = "close" /\ ~dreie /\ txcif /\ UNCHANGED <<txRing, txHead, txTail, out>>
        /\ shift' = <<>> /\ data' = <<>> /\ Taken' = Taken
    BY <1>6 DEF Reopen, Flushed, txVars, Taken
  <2>2. shift = <<>> /\ data = <<>> /\ Sound
    BY <1>t, <2>1 DEF SendInv, TypeOK
  <2>3. Queued' = Queued
    BY <2>1 DEF Queued
  <2> QED BY <2>1, <2>2, <2>3 DEF WrittenInOrder
<1>7. CASE Write
  <2>1. UNCHANGED <<txRing, txHead, txTail, out, shift, data>> /\ Taken' = Taken
    BY <1>7 DEF Write, txVars, lineVars, Taken, TypeOK
  <2> QED BY <1>t, <2>1 DEF WrittenInOrder, Queued
<1>8. CASE Check \/ Enable \/ Flush \/ FlushDone
  <2>1. UNCHANGED <<txRing, txHead, txTail, out, shift, data>> /\ Taken' = Taken
    BY <1>8 DEF Check, Enable, Flush, FlushDone, txVars, lineVars, Taken
  <2> QED BY <1>t, <2>1 DEF WrittenInOrder, Queued
<1>9. CASE RxcIsr \/ TxcIsr \/ Read \/ Mask \/ Arrive \/ UNCHANGED vars
  <2>1. UNCHANGED <<txRing, txHead, txTail, out, shift, data>> /\ Taken' = Taken
    BY <1>9 DEF RxcIsr, TxcIsr, Read, Mask, Arrive, vars, txVars, lineVars, mainVars, Taken
  <2> QED BY <1>t, <2>1 DEF WrittenInOrder, Queued
<1> QED BY <1>1, <1>2, <1>3, <1>4, <1>5, <1>6, <1>7, <1>8, <1>9 DEF Next, Main, Isr

LEMMA OrderCorrect == Spec => [](SendTypeInv /\ WrittenInOrder)
<1>1. Init => SendTypeInv /\ WrittenInOrder
  BY TypeInit, SendInit, OrderInit DEF SendTypeInv
<1>2. SendTypeInv /\ WrittenInOrder /\ [Next]_vars => (SendTypeInv /\ WrittenInOrder)'
  BY TypeStep, SendStep, OrderStep DEF SendTypeInv
<1> QED BY <1>1, <1>2, PTL DEF Spec

\* The bytes on the line, in the transmitter and in the ring are the bytes
\* written, in order and each once, until one of the two races happens.
THEOREM WrittenCorrect == Spec => []WrittenInOrder
BY OrderCorrect, PTL

\* When flush() or end() comes back the line has carried every byte written,
\* until one of the two races happens.
THEOREM FlushCorrect == Spec => FlushMeansSent
<1>1. SendTypeInv /\ WrittenInOrder /\ [Next]_vars
        => [Sound /\ pc \in {"flush", "close"} /\ pc' = "idle" => Len(out) = written]_vars
  <2> SUFFICES ASSUME TypeOK, SendInv, WrittenInOrder, Next, Sound, pc \in {"flush", "close"}, pc' = "idle"
               PROVE  Len(out) = written
    BY DEF SendTypeInv
  <2>1. ~dreie /\ txcif
    BY DEF Next, Main, Isr, Check, Direct, WaitRoom, Store, Enable, FlushWait, FlushDone, Reopen,
           RxcIsr, DreIsr, TxcIsr, FrameEnd, Write, Flush, Read, Mask, Arrive, mainVars, Flushed
  <2>2. shift = <<>> /\ data = <<>> /\ txHead = txTail
    BY <2>1 DEF SendInv, TypeOK
  <2>3. Queued = <<>> /\ out \in Seq(Nat) /\ Taken = written
    BY <2>2, QueuedType DEF TypeOK, Taken
  <2>4. out = [i \in 1 .. written |-> i]
    BY <2>2, <2>3, ConcatEmptySeq DEF WrittenInOrder
  <2> QED BY <2>4, CountAppend DEF TypeOK
<1> QED BY <1>1, OrderCorrect, PTL DEF Spec, FlushMeansSent

-----------------------------------------------------------------------------
(* Half duplex.                                                            *)

AllForeign(s) == \A i \in 1 .. Len(s) : IsForeign(s[i])

\* While the receive interrupt is on nothing of the port's own is on the line
\* or in the receiver.
EchoInv ==
  half /\ Sound => /\ rxcie => shift = <<>> /\ ~dreie /\ AllForeign(fifo)
                   /\ AllForeign(Kept) /\ AllForeign(readout)

LEMMA ForeignParts ==
  ASSUME NEW s \in Seq(Nat), NEW b \in Nat
  PROVE  /\ AllForeign(<<>>)
         /\ AllForeign(Append(s, b)) <=> AllForeign(s) /\ IsForeign(b)
         /\ AllForeign(<<b>> \o s) <=> AllForeign(s) /\ IsForeign(b)
<1>1. AllForeign(<<>>)
  BY DEF AllForeign
<1>2. AllForeign(Append(s, b)) <=> AllForeign(s) /\ IsForeign(b)
  <2>1. /\ Append(s, b) \in Seq(Nat) /\ Len(Append(s, b)) = Len(s) + 1 /\ Len(s) \in Nat
        /\ \A i \in 1 .. Len(s) : Append(s, b)[i] = s[i]
        /\ Append(s, b)[Len(s) + 1] = b
    BY AppendProperties
  <2> QED BY <2>1 DEF AllForeign, IsForeign
<1>3. AllForeign(<<b>> \o s) <=> AllForeign(s) /\ IsForeign(b)
  <2>1. <<b>> \in Seq(Nat) /\ Len(<<b>>) = 1 /\ <<b>>[1] = b /\ Len(s) \in Nat
    OBVIOUS
  <2>2. /\ Len(<<b>> \o s) = 1 + Len(s)
        /\ (<<b>> \o s)[1] = b
        /\ \A i \in 1 .. Len(s) : (<<b>> \o s)[i + 1] = s[i]
    BY <2>1, ConcatProperties
  <2>3. ASSUME AllForeign(<<b>> \o s) PROVE AllForeign(s) /\ IsForeign(b)
    <3>1. 1 \in 1 .. Len(<<b>> \o s) /\ \A i \in 1 .. Len(s) : i + 1 \in 1 .. Len(<<b>> \o s)
      BY <2>1, <2>2
    <3>2. IsForeign(b)
      BY <2>2, <2>3, <3>1 DEF AllForeign
    <3>3. \A i \in 1 .. Len(s) : IsForeign(s[i])
      BY <2>2, <2>3, <3>1 DEF AllForeign
    <3> QED BY <3>2, <3>3 DEF AllForeign
  <2>4. ASSUME AllForeign(s), IsForeign(b) PROVE AllForeign(<<b>> \o s)
    <3> SUFFICES ASSUME NEW i \in 1 .. Len(<<b>> \o s) PROVE IsForeign((<<b>> \o s)[i])
      BY DEF AllForeign
    <3>1. CASE i = 1
      BY <2>2, <2>4, <3>1
    <3>2. CASE i # 1
      <4>1. i - 1 \in 1 .. Len(s) /\ (i - 1) + 1 = i
        BY <2>1, <2>2, <3>2
      <4>2. (<<b>> \o s)[i] = s[i - 1]
        BY <2>2, <4>1
      <4> QED BY <2>4, <4>1, <4>2 DEF AllForeign
    <3> QED BY <3>1, <3>2
  <2> QED BY <2>3, <2>4
<1> QED BY <1>1, <1>2, <1>3

LEMMA ForeignTail ==
  ASSUME NEW s \in Seq(Nat), s # <<>>, AllForeign(s)
  PROVE  Head(s) \in Nat /\ IsForeign(Head(s)) /\ AllForeign(Tail(s))
<1>1. Len(s) \in Nat \ {0}
  BY EmptySeq
<1>2. Head(s) = s[1] /\ Len(Tail(s)) = Len(s) - 1 /\ \A i \in 1 .. Len(s) - 1 : Tail(s)[i] = s[i + 1]
  BY <1>1
<1> QED BY <1>1, <1>2 DEF AllForeign

LEMMA KeptType == TypeOK => Kept \in Seq(Nat) /\ (rxHead = rxTail => Kept = <<>>)
BY UartAssumption, RingedType, RingedEmpty DEF TypeOK, Kept

LEMMA EchoInit == Init => EchoInv
<1> SUFFICES ASSUME Init PROVE EchoInv
  OBVIOUS
<1>1. Kept = <<>>
  BY TypeInit, KeptType DEF Init
<1> QED BY <1>1 DEF Init, EchoInv, AllForeign

\* The handler runs only while the receive interrupt is off.
LEMMA SendNextEcho ==
  ASSUME TypeOK, EchoInv, SendNext, Sound => dreie, Sound' => Sound,
         UNCHANGED <<half, rxVars, readout>>
  PROVE  EchoInv'
<1>1. Kept' = Kept /\ rxcie' = rxcie
  BY DEF Kept, rxVars, SendNext
<1> QED BY <1>1 DEF EchoInv

LEMMA EchoStep == SendTypeInv /\ EchoInv /\ [Next]_vars => EchoInv'
<1> SUFFICES ASSUME TypeOK, SendInv, EchoInv, [Next]_vars PROVE EchoInv'
  BY DEF SendTypeInv
<1>t. TypeOK' /\ (Sound' => Sound)
  BY TypeStep, SoundStays
<1>1. CASE WaitRoom \/ FlushWait
  <2>1. Poll /\ UNCHANGED <<half, rxVars, readout, pc>> /\ pc \in {"room", "flush", "close"}
    BY <1>1 DEF WaitRoom, FlushWait, mainVars, Rest
  <2>2. CASE Polled /\ txHead # txTail
    BY <1>t, <2>1, <2>2, SendNextEcho DEF Poll, SendInv
  <2>3. CASE ~(Polled /\ txHead # txTail)
    <3>1. UNCHANGED <<rxcie, shift, fifo>> /\ dreie' \in {dreie, FALSE} /\ Kept' = Kept
      BY <2>1, <2>3 DEF Poll, irqVars, lineVars, rxVars, Kept
    <3> QED BY <1>t, <2>1, <3>1 DEF EchoInv, TypeOK
  <2> QED BY <2>2, <2>3
<1>2. CASE DreIsr
  BY <1>2, <1>t, SendNextEcho DEF DreIsr, DrePending, mainVars
<1>3. CASE Direct \/ Enable
  <2>1. (half => rxcie' = FALSE) /\ UNCHANGED <<half, rxVars, readout>>
    BY <1>3 DEF Direct, Enable, Turn, Rest
  <2>2. Kept' = Kept
    BY <2>1 DEF Kept, rxVars
  <2> QED BY <1>t, <2>1, <2>2 DEF EchoInv
<1>4. CASE Reopen
  <2>1. /\ shift' = <<>> /\ dreie' = FALSE /\ fifo' = <<>> /\ UNCHANGED <<half, readout>>
        /\ rxHead' = rxTail' 
    BY <1>4 DEF Reopen
  <2>2. Kept' = <<>>
    BY <2>1, <1>t, UartAssumption, RingedEmpty DEF TypeOK, Kept
  <2> QED BY <1>t, <2>1, <2>2 DEF EchoInv, AllForeign
<1>5. CASE RxcIsr
  <2> SUFFICES ASSUME half', Sound' PROVE /\ rxcie' => shift' = <<>> /\ ~dreie' /\ AllForeign(fifo')
                                          /\ AllForeign(Kept') /\ AllForeign(readout')
    BY DEF EchoInv
  <2>1. /\ rxcie /\ fifo # <<>> /\ fifo' = Tail(fifo) /\ UNCHANGED <<half, shift, dreie, readout, rxTail>>
        /\ IF RxFull THEN UNCHANGED <<rxRing, rxHead>>
           ELSE rxRing' = [rxRing EXCEPT ![rxHead] = Head(fifo)] /\ rxHead' = RxNext(rxHead)
    BY <1>5 DEF RxcIsr, RxcPending, irqVars, lineVars, mainVars
  <2>2. /\ shift = <<>> /\ ~dreie /\ AllForeign(fifo) /\ AllForeign(Kept) /\ AllForeign(readout)
        /\ fifo \in Seq(Nat) /\ Kept \in Seq(Nat)
    BY <1>t, <2>1, KeptType DEF EchoInv, TypeOK
  <2>3. IsForeign(Head(fifo)) /\ AllForeign(Tail(fifo)) /\ Head(fifo) \in Nat
    BY <2>1, <2>2, ForeignTail, Zenon
  <2>4. AllForeign(Kept')
    <3>1. CASE RxFull
      BY <2>1, <2>2, <3>1 DEF Kept
    <3>2. CASE ~RxFull
      <4>1. /\ RxSize \in Nat \ {0, 1} /\ rxRing \in [0 .. RxSize - 1 -> Nat]
            /\ rxTail \in 0 .. RxSize - 1 /\ rxHead \in 0 .. RxSize - 1
        BY UartAssumption DEF TypeOK
      <4>2. RxNext(rxHead) = After(rxHead, RxSize) /\ After(rxHead, RxSize) # rxTail
        BY <3>2 DEF RxNext, RxFull, After
      <4>3. Ringed([rxRing EXCEPT ![rxHead] = Head(fifo)], rxTail, After(rxHead, RxSize), RxSize)
              = Append(Ringed(rxRing, rxTail, rxHead, RxSize), Head(fifo))
        BY <2>3, <4>1, <4>2, RingedAppend
      <4>4. Kept' = Append(Kept, Head(fifo))
        BY <2>1, <3>2, <4>2, <4>3 DEF Kept
      <4> QED BY <2>2, <2>3, <4>4, ForeignParts
    <3> QED BY <3>1, <3>2
  <2> QED BY <2>1, <2>2, <2>3, <2>4
<1>6. CASE TxcIsr
  <2> SUFFICES ASSUME half', Sound' PROVE /\ rxcie' => shift' = <<>> /\ ~dreie' /\ AllForeign(fifo')
                                          /\ AllForeign(Kept') /\ AllForeign(readout')
    BY DEF EchoInv
  <2>1. /\ txcif /\ ~(dreie /\ data = <<>>) /\ fifo' = <<>>
        /\ UNCHANGED <<half, shift, dreie, readout, rxVars>>
    BY <1>6 DEF TxcIsr, DrePending, dreif, lineVars, mainVars
  <2>2. shift = <<>> /\ data = <<>> /\ half /\ Sound
    BY <1>t, <2>1 DEF SendInv, TypeOK
  <2>3. Kept' = Kept
    BY <2>1 DEF Kept, rxVars
  <2> QED BY <2>1, <2>2, <2>3 DEF EchoInv, AllForeign
<1>7. CASE FrameEnd
  <2>1. shift # <<>> /\ UNCHANGED <<half, rxcie, readout, rxVars>>
    BY <1>7 DEF FrameEnd, irqVars, mainVars
  <2>2. Kept' = Kept
    BY <2>1 DEF Kept, rxVars
  <2> QED BY <1>t, <2>1, <2>2 DEF EchoInv
<1>8. CASE Read
  <2> SUFFICES ASSUME half', Sound' PROVE /\ rxcie' => shift' = <<>> /\ ~dreie' /\ AllForeign(fifo')
                                          /\ AllForeign(Kept') /\ AllForeign(readout')
    BY DEF EchoInv
  <2>1. /\ rxHead # rxTail /\ readout' = Append(readout, rxRing[rxTail]) /\ rxTail' = RxNext(rxTail)
        /\ UNCHANGED <<half, rxcie, shift, dreie, fifo, rxRing, rxHead>>
    BY <1>8 DEF Read, irqVars, lineVars, mainVars
  <2>2. /\ (rxcie => shift = <<>> /\ ~dreie /\ AllForeign(fifo))
        /\ AllForeign(Kept) /\ AllForeign(readout) /\ readout \in Seq(Nat)
    BY <1>t, <2>1 DEF EchoInv, TypeOK
  <2>3. rxRing[rxTail] \in Nat /\ Kept' \in Seq(Nat)
    <3>1. Kept' \in Seq(Nat)
      BY <1>t, UartAssumption, RingedType DEF Kept, TypeOK
    <3> QED BY <3>1 DEF TypeOK
  <2>4. Kept = <<rxRing[rxTail]>> \o Kept'
    <3>1. /\ RxSize \in Nat \ {0, 1} /\ rxRing \in [0 .. RxSize - 1 -> Nat]
          /\ rxTail \in 0 .. RxSize - 1 /\ rxHead \in 0 .. RxSize - 1 /\ rxTail # rxHead
      BY <2>1, UartAssumption DEF TypeOK
    <3>2. RxNext(rxTail) = After(rxTail, RxSize)
      BY DEF RxNext, After
    <3>3. Ringed(rxRing, rxTail, rxHead, RxSize)
            = <<rxRing[rxTail]>> \o Ringed(rxRing, After(rxTail, RxSize), rxHead, RxSize)
      BY <3>1, RingedTake
    <3> QED BY <2>1, <3>2, <3>3 DEF Kept
  <2>5. AllForeign(Kept') /\ IsForeign(rxRing[rxTail])
    BY <2>2, <2>3, <2>4, ForeignParts
  <2>6. AllForeign(readout')
    BY <2>1, <2>2, <2>3, <2>5, ForeignParts
  <2> QED BY <2>1, <2>2, <2>5, <2>6
<1>9. CASE Arrive
  <2>1. UNCHANGED <<half, rxcie, shift, dreie, readout, rxVars>>
    BY <1>9 DEF Arrive, irqVars, lineVars, mainVars
  <2>2. Kept' = Kept
    BY <2>1 DEF Kept, rxVars
  <2>3. Foreign(arrived + 1) \in Nat /\ IsForeign(Foreign(arrived + 1)) /\ fifo \in Seq(Nat)
    BY UartAssumption DEF Foreign, IsForeign, TypeOK
  <2>4. fifo' = Append(fifo, Foreign(arrived + 1)) \/ fifo' = fifo
    BY <1>9 DEF Arrive
  <2>5. AllForeign(fifo) => AllForeign(fifo')
    <3>1. AllForeign(fifo) => AllForeign(Append(fifo, Foreign(arrived + 1)))
      BY <2>3, ForeignParts
    <3> QED BY <2>4, <3>1
  <2> QED BY <1>t, <2>1, <2>2, <2>5 DEF EchoInv
<1>10. CASE Check \/ Store \/ FlushDone \/ Write \/ Flush \/ Mask \/ UNCHANGED vars
  <2>1. UNCHANGED <<half, rxcie, shift, dreie, fifo, readout, rxVars>>
    BY <1>10 DEF Check, Store, FlushDone, Write, Flush, Mask, vars, Rest, irqVars, lineVars, mainVars
  <2>2. Kept' = Kept
    BY <2>1 DEF Kept, rxVars
  <2> QED BY <1>t, <2>1, <2>2 DEF EchoInv
<1> QED BY <1>1, <1>2, <1>3, <1>4, <1>5, <1>6, <1>7, <1>8, <1>9, <1>10 DEF Next, Main, Isr

\* In half duplex the port never receives a byte of its own, until one of the
\* two races happens.
THEOREM NoEchoCorrect == Spec => []NoEcho
<1>1. Init => SendTypeInv /\ EchoInv
  BY TypeInit, SendInit, EchoInit DEF SendTypeInv
<1>2. SendTypeInv /\ EchoInv /\ [Next]_vars => (SendTypeInv /\ EchoInv)'
  BY TypeStep, SendStep, EchoStep DEF SendTypeInv
<1>3. SendTypeInv /\ EchoInv => NoEcho
  <2> SUFFICES ASSUME TypeOK, EchoInv, half, Sound, NEW b \in ToSet(readout \o Kept)
               PROVE  IsForeign(b)
    BY DEF SendTypeInv, NoEcho
  <2>1. readout \in Seq(Nat) /\ Kept \in Seq(Nat) /\ AllForeign(readout) /\ AllForeign(Kept)
    BY KeptType DEF TypeOK, EchoInv
  <2>2. /\ readout \o Kept \in Seq(Nat) /\ Len(readout \o Kept) = Len(readout) + Len(Kept)
        /\ \A i \in 1 .. Len(readout) + Len(Kept) : (readout \o Kept)[i] =
             IF i <= Len(readout) THEN readout[i] ELSE Kept[i - Len(readout)]
        /\ Len(readout) \in Nat /\ Len(Kept) \in Nat
    BY <2>1, ConcatProperties
  <2>3. PICK i \in 1 .. Len(readout) + Len(Kept) : b = (readout \o Kept)[i]
    BY <2>2 DEF ToSet
  <2>4. CASE i <= Len(readout)
    BY <2>1, <2>2, <2>3, <2>4 DEF AllForeign
  <2>5. CASE ~(i <= Len(readout))
    BY <2>1, <2>2, <2>3, <2>5 DEF AllForeign
  <2> QED BY <2>4, <2>5
<1> QED BY <1>1, <1>2, <1>3, PTL DEF Spec

-----------------------------------------------------------------------------
(* What the other side sends.                                              *)

\* s carries the first a bytes of the other side, each once and in order.
Carries(s, a) ==
  /\ \A k \in 1 .. Len(s) : IsForeign(s[k]) => s[k] <= MaxBytes + a
  /\ \A n \in 1 .. a : \E k \in 1 .. Len(s) : s[k] = Foreign(n)
  /\ \A j, k \in 1 .. Len(s) : j < k /\ IsForeign(s[j]) /\ IsForeign(s[k]) => s[j] < s[k]

LEMMA CarriesOwn ==
  ASSUME NEW s \in Seq(Nat), NEW a \in Nat, NEW b \in Nat, ~IsForeign(b), Carries(s, a)
  PROVE  Carries(Append(s, b), a)
<1> DEFINE t == Append(s, b)
           l == Len(s)
<1>1. /\ l \in Nat /\ Len(t) = l + 1 /\ t[l + 1] = b /\ \A k \in 1 .. l : t[k] = s[k]
  BY AppendProperties
<1>2. /\ \A k \in 1 .. l : IsForeign(s[k]) => s[k] <= MaxBytes + a
      /\ \A n \in 1 .. a : \E k \in 1 .. l : s[k] = Foreign(n)
      /\ \A j, k \in 1 .. l : j < k /\ IsForeign(s[j]) /\ IsForeign(s[k]) => s[j] < s[k]
  BY DEF Carries
<1> HIDE DEF t, l
<1>3. \A k \in 1 .. Len(t) : IsForeign(t[k]) => k \in 1 .. l
  BY <1>1
<1>4. \A k \in 1 .. l : k \in 1 .. Len(t)
  BY <1>1
<1>5. \A k \in 1 .. Len(t) : IsForeign(t[k]) => t[k] <= MaxBytes + a
  BY <1>1, <1>2, <1>3
<1>6. \A n \in 1 .. a : \E k \in 1 .. Len(t) : t[k] = Foreign(n)
  BY <1>1, <1>2, <1>4
<1>7. \A j, k \in 1 .. Len(t) : j < k /\ IsForeign(t[j]) /\ IsForeign(t[k]) => t[j] < t[k]
  BY <1>1, <1>2, <1>3
<1> QED BY <1>5, <1>6, <1>7 DEF Carries, t

LEMMA CarriesNext ==
  ASSUME NEW s \in Seq(Nat), NEW a \in Nat, Carries(s, a)
  PROVE  Carries(Append(s, Foreign(a + 1)), a + 1)
<1> DEFINE b == Foreign(a + 1)
           t == Append(s, b)
           l == Len(s)
<1>1. b \in Nat /\ b = MaxBytes + a + 1 /\ MaxBytes \in Nat
  BY UartAssumption DEF Foreign
<1>2. /\ l \in Nat /\ Len(t) = l + 1 /\ t[l + 1] = b /\ \A k \in 1 .. l : t[k] = s[k]
      /\ \A k \in 1 .. l : s[k] \in Nat
  BY <1>1, AppendProperties, ElementOfSeq
<1>3. /\ \A k \in 1 .. l : IsForeign(s[k]) => s[k] <= MaxBytes + a
      /\ \A n \in 1 .. a : \E k \in 1 .. l : s[k] = Foreign(n)
      /\ \A j, k \in 1 .. l : j < k /\ IsForeign(s[j]) /\ IsForeign(s[k]) => s[j] < s[k]
  BY DEF Carries
<1> HIDE DEF b, t, l
<1>4. \A k \in 1 .. Len(t) : k \in 1 .. l \/ k = l + 1
  BY <1>2
<1>5. \A k \in 1 .. l + 1 : k \in 1 .. Len(t)
  BY <1>2
<1>6. ASSUME NEW k \in 1 .. Len(t), IsForeign(t[k]) PROVE t[k] <= MaxBytes + (a + 1)
  <2>1. CASE k \in 1 .. l
    <3>1. t[k] \in Nat /\ t[k] <= MaxBytes + a
      BY <1>2, <1>3, <1>6, <2>1
    <3> QED BY <1>1, <3>1
  <2>2. CASE k = l + 1
    BY <1>1, <1>2, <2>2
  <2> QED BY <1>4, <2>1, <2>2
<1>7. ASSUME NEW n \in 1 .. a + 1 PROVE \E k \in 1 .. Len(t) : t[k] = Foreign(n)
  <2>1. CASE n \in 1 .. a
    <3>1. PICK k \in 1 .. l : s[k] = Foreign(n)
      BY <1>3, <2>1
    <3>2. k \in 1 .. Len(t)
      BY <1>2
    <3> QED BY <1>2, <3>1, <3>2
  <2>2. CASE n = a + 1
    <3>1. l + 1 \in 1 .. Len(t) /\ t[l + 1] = Foreign(n)
      BY <1>2, <2>2 DEF b
    <3> QED BY <3>1
  <2> QED BY <2>1, <2>2
<1>8. ASSUME NEW j \in 1 .. Len(t), NEW k \in 1 .. Len(t),
             j < k, IsForeign(t[j]), IsForeign(t[k])
      PROVE  t[j] < t[k]
  <2>1. j \in 1 .. l
    BY <1>2, <1>8
  <2>2. CASE k \in 1 .. l
    BY <1>2, <1>3, <1>8, <2>1, <2>2
  <2>3. CASE k = l + 1
    <3>1. t[j] <= MaxBytes + a /\ t[j] \in Nat /\ t[k] = MaxBytes + a + 1
      BY <1>1, <1>2, <1>3, <1>8, <2>1, <2>3
    <3> QED BY <1>1, <3>1
  <2> QED BY <1>4, <2>2, <2>3
<1> QED BY <1>6, <1>7, <1>8 DEF Carries, t, b

\* Draining a part without bytes of the other side loses none of them.
LEMMA CarriesDrain ==
  ASSUME NEW s \in Seq(Nat), NEW t \in Seq(Nat), NEW a \in Nat,
         \A k \in 1 .. Len(t) : ~IsForeign(t[k]), Carries(s \o t, a)
  PROVE  Carries(s, a)
<1> DEFINE u == s \o t
           l == Len(s)
           m == Len(t)
<1>1. /\ l \in Nat /\ m \in Nat /\ Len(u) = l + m
      /\ \A k \in 1 .. l + m : u[k] = IF k <= l THEN s[k] ELSE t[k - l]
  BY ConcatProperties
<1>2. /\ \A k \in 1 .. Len(u) : IsForeign(u[k]) => u[k] <= MaxBytes + a
      /\ \A n \in 1 .. a : \E k \in 1 .. Len(u) : u[k] = Foreign(n)
      /\ \A j, k \in 1 .. Len(u) : j < k /\ IsForeign(u[j]) /\ IsForeign(u[k]) => u[j] < u[k]
  BY DEF Carries
<1> HIDE DEF u, l
<1>3. \A k \in 1 .. l : k \in 1 .. Len(u) /\ u[k] = s[k]
  BY <1>1
<1>4. \A k \in 1 .. l : IsForeign(s[k]) => s[k] <= MaxBytes + a
  BY <1>2, <1>3
<1>5. ASSUME NEW n \in 1 .. a PROVE \E k \in 1 .. l : s[k] = Foreign(n)
  <2>1. PICK k \in 1 .. Len(u) : u[k] = Foreign(n)
    BY <1>2
  <2>2. IsForeign(u[k])
    BY <2>1, UartAssumption DEF Foreign, IsForeign
  <2>3. k <= l
    <3>1. SUFFICES ASSUME ~(k <= l) PROVE FALSE
      OBVIOUS
    <3>2. k - l \in 1 .. m /\ u[k] = t[k - l]
      BY <1>1, <3>1
    <3> QED BY <2>2, <3>2
  <2>4. k \in 1 .. l
    BY <1>1, <2>3
  <2> QED BY <1>3, <2>1, <2>4
<1>6. \A j, k \in 1 .. l : j < k /\ IsForeign(s[j]) /\ IsForeign(s[k]) => s[j] < s[k]
  BY <1>2, <1>3
<1> QED BY <1>4, <1>5, <1>6 DEF Carries, l

\* The sequences a received byte goes through.
LEMMA IncomingType ==
  TypeOK => /\ readout \in Seq(Nat) /\ Kept \in Seq(Nat) /\ fifo \in Seq(Nat)
            /\ readout \o Kept \in Seq(Nat) /\ Incoming \in Seq(Nat)
<1> SUFFICES ASSUME TypeOK
             PROVE  /\ readout \in Seq(Nat) /\ Kept \in Seq(Nat) /\ fifo \in Seq(Nat)
                    /\ readout \o Kept \in Seq(Nat) /\ Incoming \in Seq(Nat)
  OBVIOUS
<1>1. readout \in Seq(Nat) /\ Kept \in Seq(Nat) /\ fifo \in Seq(Nat)
  BY KeptType DEF TypeOK
<1>2. readout \o Kept \in Seq(Nat)
  BY <1>1, ConcatProperties
<1> QED BY <1>1, <1>2, ConcatProperties DEF Incoming

\* What is on its way out is the port's own.
OwnInv ==
  /\ byte <= MaxBytes /\ \A k \in 0 .. TxSize - 1 : txRing[k] <= MaxBytes
  /\ data # <<>> => data[1] <= MaxBytes
  /\ shift # <<>> => shift[1] <= MaxBytes

LEMMA LoadOwn ==
  ASSUME OwnInv, NEW b, b <= MaxBytes, Load(b), UNCHANGED <<byte, txRing>>
  PROVE  OwnInv'
<1>1. <<b>>[1] = b
  OBVIOUS
<1> QED BY <1>1 DEF OwnInv, Load

LEMMA OwnStep == TypeOK /\ OwnInv /\ [Next]_vars => OwnInv'
<1> SUFFICES ASSUME TypeOK, OwnInv, [Next]_vars PROVE OwnInv'
  OBVIOUS
<1>1. CASE UNCHANGED <<byte, txRing, data, shift>>
  BY <1>1 DEF OwnInv
<1>2. ASSUME SendNext, UNCHANGED byte PROVE OwnInv'
  <2>1. txRing[txTail] <= MaxBytes /\ Load(txRing[txTail]) /\ UNCHANGED txRing
    BY <1>2 DEF OwnInv, SendNext, TypeOK
  <2> QED BY <1>2, <2>1, LoadOwn
<1>3. CASE WaitRoom \/ FlushWait
  BY <1>1, <1>2, <1>3 DEF WaitRoom, FlushWait, Poll, txVars, lineVars, mainVars
<1>4. CASE DreIsr
  BY <1>2, <1>4 DEF DreIsr, mainVars
<1>5. CASE Direct
  <2>1. Load(byte) /\ UNCHANGED <<byte, txRing>> /\ byte <= MaxBytes
    BY <1>5 DEF Direct, txVars, OwnInv
  <2> QED BY <2>1, LoadOwn
<1>6. CASE FrameEnd
  BY <1>6 DEF FrameEnd, OwnInv, mainVars, txVars
<1>7. CASE Store
  BY <1>7 DEF Store, OwnInv, lineVars, TypeOK
<1>8. CASE Write
  BY <1>8, UartAssumption DEF Write, OwnInv, lineVars, txVars, TypeOK
<1>9. CASE Reopen
  BY <1>9 DEF Reopen, OwnInv, txVars
<1>10. CASE Check \/ Enable \/ FlushDone \/ RxcIsr \/ TxcIsr
  BY <1>1, <1>10 DEF Check, Enable, FlushDone, RxcIsr, TxcIsr, txVars, lineVars, mainVars
<1>11. CASE Flush \/ Read \/ Mask \/ Arrive \/ UNCHANGED vars
  BY <1>1, <1>11 DEF Flush, Read, Mask, Arrive, vars, txVars, lineVars, mainVars
<1> QED BY <1>3, <1>4, <1>5, <1>6, <1>7, <1>8, <1>9, <1>10, <1>11 DEF Next, Main, Isr

\* Nothing of the other side is missing.
InInv == ~lost => Carries(Incoming, arrived)

\* What is heard is the port's own, and comes last.
LEMMA HeardIn ==
  ASSUME TypeOK, OwnInv, InInv, shift # <<>>, fifo' = Heard(shift[1]),
         UNCHANGED <<readout, rxVars, lost, arrived>>
  PROVE  InInv'
<1> DEFINE b == shift[1]
<1>1. Kept' = Kept
  BY DEF Kept, rxVars
<1>2. CASE fifo' = fifo
  BY <1>1, <1>2 DEF InInv, Incoming
<1>3. CASE fifo' = Append(fifo, b)
  <2>1. b \in Nat /\ b <= MaxBytes
    <3>1. 1 \in 1 .. Len(shift) /\ shift \in Seq(Nat)
      BY EmptySeq DEF TypeOK
    <3>2. b \in Nat
      BY <3>1, ElementOfSeq
    <3> QED BY <3>2 DEF OwnInv
  <2>2. ~IsForeign(b)
    BY <2>1, UartAssumption DEF IsForeign
  <2> HIDE DEF b
  <2>3. readout \o Kept \in Seq(Nat) /\ fifo \in Seq(Nat) /\ Incoming \in Seq(Nat)
    BY IncomingType
  <2>4. (readout \o Kept) \o Append(fifo, b) = Append((readout \o Kept) \o fifo, b)
    BY <2>1, <2>3, AppendLast
  <2>5. Incoming' = Append(Incoming, b)
    BY <1>1, <1>3, <2>4 DEF Incoming
  <2>6. arrived \in Nat
    BY DEF TypeOK
  <2>7. Carries(Incoming, arrived) => Carries(Append(Incoming, b), arrived)
    BY <2>1, <2>2, <2>3, <2>6, CarriesOwn
  <2> QED BY <2>5, <2>7 DEF InInv
<1> QED BY <1>2, <1>3 DEF Heard

LEMMA LoadIn ==
  ASSUME TypeOK, OwnInv, InInv, NEW b, Load(b), UNCHANGED <<readout, rxVars, lost, arrived>>
  PROVE  InInv'
<1>1. CASE fifo' = fifo
  BY <1>1 DEF InInv, Incoming, Kept, rxVars
<1> QED BY <1>1, HeardIn DEF Load

\* The receive handler moves a byte into the ring, or drops it and says so.
LEMMA RxcIn ==
  ASSUME TypeOK, InInv, RxcIsr
  PROVE  InInv'
<1> DEFINE b == Head(fifo)
           t == Tail(fifo)
<1>1. fifo # <<>> /\ fifo' = t /\ UNCHANGED <<readout, arrived, rxTail>>
  BY DEF RxcIsr, RxcPending
<1>2. CASE RxFull
  BY <1>2 DEF RxcIsr, InInv
<1>3. CASE ~RxFull
  <2>1. rxRing' = [rxRing EXCEPT ![rxHead] = b] /\ rxHead' = RxNext(rxHead) /\ lost' = lost
    BY <1>3 DEF RxcIsr
  <2>2. b \in Nat /\ t \in Seq(Nat) /\ fifo = <<b>> \o t
    <3>1. fifo \in Seq(Nat) /\ Len(fifo) \in Nat \ {0}
      BY <1>1, EmptySeq DEF TypeOK
    <3>2. b \in Nat /\ t \in Seq(Nat)
      BY <1>1, <3>1, HeadTailProperties
    <3> QED BY <1>1, <3>1, <3>2, HeadTailBack
  <2>3. Kept' = Append(Kept, b)
    <3>1. /\ RxSize \in Nat \ {0, 1} /\ rxRing \in [0 .. RxSize - 1 -> Nat]
          /\ rxTail \in 0 .. RxSize - 1 /\ rxHead \in 0 .. RxSize - 1
      BY UartAssumption DEF TypeOK
    <3>2. RxNext(rxHead) = After(rxHead, RxSize) /\ After(rxHead, RxSize) # rxTail
      BY <1>3 DEF RxNext, RxFull, After
    <3> HIDE DEF b
    <3>3. Ringed([rxRing EXCEPT ![rxHead] = b], rxTail, After(rxHead, RxSize), RxSize)
            = Append(Ringed(rxRing, rxTail, rxHead, RxSize), b)
      BY <2>2, <3>1, <3>2, RingedAppend
    <3> QED BY <1>1, <2>1, <3>2, <3>3 DEF Kept
  <2> HIDE DEF b, t
  <2>4. readout \in Seq(Nat) /\ Kept \in Seq(Nat) /\ readout \o Kept \in Seq(Nat)
    BY IncomingType
  <2>5. (readout \o Kept) \o (<<b>> \o t) = ((readout \o Kept) \o <<b>>) \o t
    BY <2>2, <2>4, OneByte
  <2>6. (readout \o Kept) \o <<b>> = readout \o Append(Kept, b)
    <3>1. Append(readout \o Kept, b) = (readout \o Kept) \o <<b>>
      BY <2>2, <2>4, AppendIsConcat
    <3> QED BY <2>2, <2>4, <3>1, AppendLast
  <2>7. Incoming' = Incoming
    BY <1>1, <2>2, <2>3, <2>5, <2>6 DEF Incoming
  <2> QED BY <1>1, <2>1, <2>7 DEF InInv
<1> QED BY <1>2, <1>3

\* read() moves a byte from the ring to the sketch.
LEMMA ReadIn ==
  ASSUME TypeOK, TypeOK', InInv, Read
  PROVE  InInv'
<1> DEFINE b == rxRing[rxTail]
           k == Kept'
<1>1. /\ rxHead # rxTail /\ readout' = Append(readout, b) /\ rxTail' = RxNext(rxTail)
      /\ UNCHANGED <<fifo, rxRing, rxHead, arrived, lost>>
  BY DEF Read
<1>2. b \in Nat /\ k \in Seq(Nat)
  <2>1. k \in Seq(Nat)
    BY UartAssumption, RingedType DEF Kept, TypeOK
  <2> QED BY <2>1 DEF TypeOK
<1>3. Kept = <<b>> \o k
  <2>1. /\ RxSize \in Nat \ {0, 1} /\ rxRing \in [0 .. RxSize - 1 -> Nat]
        /\ rxTail \in 0 .. RxSize - 1 /\ rxHead \in 0 .. RxSize - 1 /\ rxTail # rxHead
    BY <1>1, UartAssumption DEF TypeOK
  <2>2. RxNext(rxTail) = After(rxTail, RxSize)
    BY DEF RxNext, After
  <2>3. Ringed(rxRing, rxTail, rxHead, RxSize)
          = <<rxRing[rxTail]>> \o Ringed(rxRing, After(rxTail, RxSize), rxHead, RxSize)
    BY <2>1, RingedTake
  <2> QED BY <1>1, <2>2, <2>3 DEF Kept
<1>4. readout \in Seq(Nat)
  BY DEF TypeOK
<1> HIDE DEF b, k
<1>5. readout \o (<<b>> \o k) = (readout \o <<b>>) \o k
  BY <1>2, <1>4, OneByte
<1>6. readout \o <<b>> = Append(readout, b)
  BY <1>2, <1>4, AppendIsConcat
<1>7. Incoming' = Incoming
  BY <1>1, <1>3, <1>5, <1>6 DEF Incoming, k
<1> QED BY <1>1, <1>7 DEF InInv

\* A byte arrives behind the others, or is dropped by the full receiver.
LEMMA ArriveIn ==
  ASSUME TypeOK, InInv, Arrive
  PROVE  InInv'
<1> DEFINE b == Foreign(arrived + 1)
<1>1. arrived' = arrived + 1 /\ UNCHANGED <<readout, rxVars>>
  BY DEF Arrive
<1>2. CASE fifo' = Append(fifo, b) /\ lost' = lost
  <2>1. b \in Nat /\ arrived \in Nat
    BY UartAssumption DEF TypeOK, Foreign
  <2>2. readout \o Kept \in Seq(Nat) /\ fifo \in Seq(Nat) /\ Incoming \in Seq(Nat)
    BY IncomingType
  <2>3. Kept' = Kept
    BY <1>1 DEF Kept, rxVars
  <2>4. Carries(Incoming, arrived) => Carries(Append(Incoming, b), arrived + 1)
    BY <2>1, <2>2, CarriesNext
  <2> HIDE DEF b
  <2>5. (readout \o Kept) \o Append(fifo, b) = Append((readout \o Kept) \o fifo, b)
    BY <2>1, <2>2, AppendLast
  <2>6. Incoming' = Append(Incoming, b)
    BY <1>1, <1>2, <2>3, <2>5 DEF Incoming
  <2> QED BY <1>1, <1>2, <2>4, <2>6 DEF InInv
<1>3. CASE lost'
  BY <1>3 DEF InInv
<1> QED BY <1>2, <1>3 DEF Arrive

\* The transmit-complete handler drains what was heard, and end() what is left:
\* a byte of the other side among it counts as lost.
LEMMA TxcIn ==
  ASSUME TypeOK, InInv, TxcIsr
  PROVE  InInv'
<1> SUFFICES ASSUME ~lost' PROVE Carries(Incoming', arrived')
  BY DEF InInv
<1>1. /\ fifo' = <<>> /\ UNCHANGED <<readout, rxVars, arrived>>
      /\ ~lost /\ \A b \in ToSet(fifo) : ~IsForeign(b)
  BY DEF TxcIsr
<1>2. /\ readout \o Kept \in Seq(Nat) /\ fifo \in Seq(Nat) /\ arrived \in Nat
  BY IncomingType DEF TypeOK
<1>3. \A k \in 1 .. Len(fifo) : ~IsForeign(fifo[k])
  BY <1>1, <1>2 DEF ToSet
<1>4. Incoming' = readout \o Kept
  <2>1. Kept' = Kept
    BY <1>1 DEF Kept, rxVars
  <2> QED BY <1>1, <1>2, <2>1, ConcatEmptySeq DEF Incoming
<1>5. Carries((readout \o Kept) \o fifo, arrived)
  BY <1>1 DEF InInv, Incoming
<1> QED BY <1>1, <1>2, <1>3, <1>4, <1>5, CarriesDrain

LEMMA ReopenIn ==
  ASSUME TypeOK, TypeOK', InInv, Reopen
  PROVE  InInv'
<1> SUFFICES ASSUME ~lost' PROVE Carries(Incoming', arrived')
  BY DEF InInv
<1>1. /\ fifo' = <<>> /\ rxHead' = rxTail /\ UNCHANGED <<readout, rxRing, rxTail, arrived>>
      /\ ~lost /\ rxHead = rxTail /\ fifo = <<>>
  BY DEF Reopen
<1>2. Kept' = Kept
  BY <1>1 DEF Kept
<1> QED BY <1>1, <1>2 DEF InInv, Incoming

LEMMA InStep == TypeOK /\ TypeOK' /\ OwnInv /\ InInv /\ [Next]_vars => InInv'
<1> SUFFICES ASSUME TypeOK, TypeOK', OwnInv, InInv, [Next]_vars PROVE InInv'
  OBVIOUS
<1>1. CASE UNCHANGED <<readout, rxVars, fifo, lost, arrived>>
  BY <1>1 DEF InInv, Incoming, Kept, rxVars
<1>2. CASE WaitRoom \/ FlushWait
  <2>1. Poll /\ UNCHANGED <<readout, rxVars, lost, arrived>>
    BY <1>2 DEF WaitRoom, FlushWait, Rest
  <2>2. CASE SendNext
    BY <2>1, <2>2, LoadIn DEF SendNext
  <2>3. CASE fifo' = fifo
    BY <1>1, <2>1, <2>3
  <2> QED BY <2>1, <2>2, <2>3 DEF Poll
<1>3. CASE DreIsr
  <2>1. Load(txRing[txTail]) /\ UNCHANGED <<readout, rxVars, lost, arrived>>
    BY <1>3 DEF DreIsr, SendNext
  <2> QED BY <2>1, LoadIn
<1>4. CASE Direct
  <2>1. Load(byte) /\ UNCHANGED <<readout, rxVars, lost, arrived>>
    BY <1>4 DEF Direct, Rest
  <2> QED BY <2>1, LoadIn
<1>5. CASE FrameEnd
  <2>1. /\ shift # <<>> /\ fifo' = Heard(shift[1])
        /\ UNCHANGED <<readout, rxVars, lost, arrived>>
    BY <1>5 DEF FrameEnd
  <2> QED BY <2>1, HeardIn
<1>6. CASE RxcIsr
  BY <1>6, RxcIn
<1>7. CASE TxcIsr
  BY <1>7, TxcIn
<1>8. CASE Reopen
  BY <1>8, ReopenIn
<1>9. CASE Read
  BY <1>9, ReadIn
<1>10. CASE Arrive
  BY <1>10, ArriveIn
<1>11. CASE Check \/ Store \/ Enable \/ FlushDone \/ Write \/ Flush \/ Mask \/ UNCHANGED vars
  BY <1>1, <1>11 DEF Check, Store, Enable, FlushDone, Write, Flush, Mask, Rest, vars
<1> QED BY <1>2, <1>3, <1>4, <1>5, <1>6, <1>7, <1>8, <1>9, <1>10, <1>11 DEF Next, Main, Isr

\* What the other side sends is read or on its way, each byte once and in order,
\* whatever echoes come between, until a byte is dropped by a full buffer or
\* drained by the end of a transmission.
THEOREM ReceivedCorrect == Spec => []ReceivedInOrder
<1>1. Init => OwnInv /\ InInv
  <2> SUFFICES ASSUME Init PROVE OwnInv /\ InInv
    OBVIOUS
  <2>1. OwnInv
    BY UartAssumption DEF Init, OwnInv
  <2>2. Kept = <<>>
    BY TypeInit, KeptType DEF Init
  <2>3. Incoming = <<>>
    BY <2>2, EmptySeq, ConcatEmptySeq DEF Init, Incoming
  <2>4. Len(Incoming) = 0 /\ arrived = 0
    BY <2>3, EmptySeq DEF Init
  <2>5. InInv
    BY <2>4 DEF InInv, Carries
  <2> QED BY <2>1, <2>5
<1>2. TypeOK /\ InInv => ReceivedInOrder
  <2> SUFFICES ASSUME TypeOK, InInv, ~lost
               PROVE  /\ {b \in ToSet(Incoming) : IsForeign(b)} = {Foreign(n) : n \in 1 .. arrived}
                      /\ \A j, k \in DOMAIN Incoming :
                           j < k /\ IsForeign(Incoming[j]) /\ IsForeign(Incoming[k])
                             => Incoming[j] < Incoming[k]
    BY DEF ReceivedInOrder
  <2> DEFINE s == Incoming
             l == Len(s)
             a == arrived
  <2>1. s \in Seq(Nat) /\ l \in Nat /\ DOMAIN s = 1 .. l /\ a \in Nat /\ Carries(s, a)
    BY IncomingType, LenProperties DEF TypeOK, InInv
  <2>2. \A k \in 1 .. l : s[k] \in Nat
    BY <2>1, ElementOfSeq
  <2> HIDE DEF s, a
  <2>3. ASSUME NEW b \in ToSet(s), IsForeign(b) PROVE b \in {Foreign(n) : n \in 1 .. a}
    <3>1. PICK k \in 1 .. l : b = s[k]
      BY <2>1 DEF ToSet
    <3>2. b \in Nat /\ b > MaxBytes /\ b <= MaxBytes + a
      BY <2>1, <2>2, <2>3, <3>1 DEF Carries, IsForeign
    <3>3. b - MaxBytes \in 1 .. a /\ b = Foreign(b - MaxBytes)
      BY <2>1, <3>2, UartAssumption DEF Foreign
    <3> QED BY <3>3
  <2>4. ASSUME NEW n \in 1 .. a PROVE Foreign(n) \in ToSet(s) /\ IsForeign(Foreign(n))
    <3>1. PICK k \in 1 .. l : s[k] = Foreign(n)
      BY <2>1 DEF Carries
    <3>2. IsForeign(Foreign(n))
      BY UartAssumption DEF Foreign, IsForeign
    <3> QED BY <2>1, <3>1, <3>2 DEF ToSet
  <2>5. {b \in ToSet(s) : IsForeign(b)} = {Foreign(n) : n \in 1 .. a}
    BY <2>3, <2>4
  <2>6. \A j, k \in DOMAIN s : j < k /\ IsForeign(s[j]) /\ IsForeign(s[k]) => s[j] < s[k]
    BY <2>1 DEF Carries
  <2> QED BY <2>5, <2>6 DEF s, a
<1>3. TypeOK /\ OwnInv /\ InInv /\ [Next]_vars => (TypeOK /\ OwnInv /\ InInv)'
  BY TypeStep, OwnStep, InStep
<1> QED BY <1>1, <1>2, <1>3, TypeInit, PTL DEF Spec
=============================================================================
