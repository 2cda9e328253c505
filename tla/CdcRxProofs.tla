---------------------------- MODULE CdcRxProofs -----------------------------
(***************************************************************************)
(* CdcRx, for every ring size, packet size and bound: its types, the       *)
(* promise of usbCdcAvailable(), what becomes of the bytes of a packet,    *)
(* and that the ring side implements BytePipe.                             *)
(***************************************************************************)
EXTENDS CdcRx, ByteRingProofs, SequenceTheorems

-----------------------------------------------------------------------------
(* Types.                                                                  *)

\* TypeOK is not inductive: the copy index stays inside the packet because
\* endpoint 2 does not take another one before it is armed again.
CopyOwned ==
  /\ trn => nak
  /\ isr \in {"copy", "arm"} => nak /\ ~trn
  /\ i > 0 => isr = "copy"
TypeInv == TypeOK /\ CopyOwned

\* The empty packet is a packet.
LEMMA NoBytes == <<>> \in Seq(Nat) /\ Len(<<>>) = 0
OBVIOUS

\* The initial state is well typed.
LEMMA TypeInit == Init => TypeInv
<1> SUFFICES ASSUME Init PROVE TypeInv
  OBVIOUS
<1>1. /\ buf \in Seq(Nat) /\ Len(buf) = 0 /\ Len(buf) <= PacketSize
      /\ got \in Seq(Nat) /\ i \in 0 .. Len(buf)
  BY RxAssumption, NoBytes DEF Init
<1>2. 0 \in Slot /\ ring \in [Slot -> Nat]
  BY RingSizeAssumption DEF Init, Slot
<1> QED BY <1>1, <1>2 DEF Init, TypeInv, TypeOK, CopyOwned

\* Every step keeps the types.
LEMMA TypeOKStep == TypeInv /\ [Next]_vars => TypeOK'
<1> SUFFICES ASSUME TypeOK, CopyOwned, [Next]_vars PROVE TypeOK'
  BY DEF TypeInv
<1> USE DEF ringVars, epVars, isrVars, callVars, history
<1>1. CASE AvailableHead
  BY <1>1 DEF AvailableHead, TypeOK
<1>2. CASE AvailableTail
  <2>1. Span(tail, seen) \in Nat
    BY SpanRange DEF TypeOK
  <2> QED BY <1>2, <2>1 DEF AvailableTail, TypeOK
<1>3. CASE ReadEmpty
  BY <1>3 DEF ReadEmpty, TypeOK
<1>4. CASE ReadByte
  <2>1. next' \in Slot
    BY <1>4, AdvInSlot, RingSizeAssumption DEF ReadByte, TypeOK
  <2>2. got' \in Seq(Nat)
    BY <1>4 DEF ReadByte, TypeOK
  <2> QED BY <1>4, <2>1, <2>2 DEF ReadByte, TypeOK
<1>5. CASE TakeByte
  BY <1>5 DEF TakeByte, TypeOK
<1>6. ASSUME NEW n \in 0 .. PacketSize, HostOut(n) PROVE TypeOK'
  <2>1. buf' = [k \in 1 .. n |-> sent + k] /\ n \in Nat /\ n <= PacketSize
    BY <1>6, RxAssumption DEF HostOut
  <2>2. \A k \in 1 .. n : sent + k \in Nat
    BY DEF TypeOK
  <2>3. buf' \in Seq(Nat) /\ Len(buf') = n
    BY <2>1, <2>2, IsASeq
  <2>4. i = 0
    BY <1>6 DEF HostOut, CopyOwned, TypeOK
  <2> QED BY <1>6, <2>1, <2>3, <2>4 DEF HostOut, TypeOK
<1>7. CASE OtherEndpoint
  BY <1>7 DEF OtherEndpoint, TypeOK
<1>8. CASE BusReset
  <2>1. /\ buf' \in Seq(Nat) /\ Len(buf') = 0 /\ Len(buf') <= PacketSize
        /\ got' \in Seq(Nat)
    BY <1>8, NoBytes, RxAssumption DEF BusReset
  <2>2. head' \in Slot /\ tail' \in Slot
    BY <1>8, RingSizeAssumption DEF BusReset, Slot
  <2>3. i' = 0
    BY <1>8 DEF BusReset, CopyOwned, TypeOK
  <2>4. nak' \in BOOLEAN /\ trn' \in BOOLEAN
    BY <1>8 DEF BusReset
  <2>5. cfg' = 0 /\ promise' = 0 /\ sent' = 0 /\ dropped' = 0 /\ cuts' = cuts + 1
    BY <1>8 DEF BusReset
  <2>6. UNCHANGED <<ring, irq, isr, i, call, next, seen>>
    BY <1>8 DEF BusReset
  <2> QED BY <2>1, <2>2, <2>3, <2>4, <2>5, <2>6 DEF TypeOK
<1>9. CASE Configure
  <2>1. buf' \in Seq(Nat) /\ Len(buf') = 0 /\ Len(buf') <= PacketSize
    BY <1>9, NoBytes, RxAssumption DEF Configure
  <2>2. i' = 0
    BY <1>9 DEF Configure, CopyOwned, TypeOK
  <2>3. dropped' \in Nat
    BY <1>9 DEF Configure, TypeOK
  <2>4. nak' \in BOOLEAN /\ trn' \in BOOLEAN
    BY <1>9 DEF Configure
  <2>5. cfg' = 1 /\ cuts' = cuts + 1
    BY <1>9 DEF Configure
  <2>6. UNCHANGED <<ringVars, irq, isr, i, callVars, sent, got>>
    BY <1>9 DEF Configure
  <2> QED BY <2>1, <2>2, <2>3, <2>4, <2>5, <2>6 DEF TypeOK
<1>10. CASE Deconfigure
  BY <1>10 DEF Deconfigure, TypeOK
<1>11. CASE Ep2Service
  <2>1. isr' \in {"copy", "ack"} /\ trn' = FALSE /\ i' = 0
    BY <1>11 DEF Ep2Service
  <2>2. UNCHANGED <<ringVars, cfg, nak, buf, irq, callVars, sent, dropped, got, cuts>>
    BY <1>11 DEF Ep2Service
  <2>3. i' \in 0 .. Len(buf')
    BY <2>1, <2>2 DEF TypeOK
  <2>4. trn' \in BOOLEAN
    BY <2>1
  <2> QED BY <2>1, <2>2, <2>3, <2>4 DEF TypeOK
<1>12. CASE CopyByte
  <2>1. head' \in Slot
    BY <1>12, AdvInSlot, RingSizeAssumption DEF CopyByte, TypeOK
  <2>2. ring' \in [Slot -> Nat]
    <3>1. buf[i + 1] \in Nat
      BY <1>12 DEF CopyByte, TypeOK
    <3>2. ring' = [ring EXCEPT ![head] = buf[i + 1]]
      BY <1>12 DEF CopyByte
    <3> QED BY <3>1, <3>2 DEF TypeOK
  <2>3. i' \in 0 .. Len(buf)
    BY <1>12 DEF CopyByte, TypeOK
  <2>4. UNCHANGED <<tail, cfg, epVars, irq, isr, callVars, history>>
    BY <1>12 DEF CopyByte
  <2> QED BY <2>1, <2>2, <2>3, <2>4 DEF TypeOK
<1>13. CASE CopyEnd
  BY <1>13, NoBytes, RxAssumption DEF CopyEnd, TypeOK
<1>14. CASE Ep2Arm
  BY <1>14 DEF Ep2Arm, TypeOK
<1>15. CASE AckTrncompl
  BY <1>15 DEF AckTrncompl, TypeOK
<1>16. CASE UNCHANGED vars
  BY <1>16 DEF vars, TypeOK
<1> QED
  BY <1>1, <1>2, <1>3, <1>4, <1>5, <1>6, <1>7, <1>8, <1>9, <1>10, <1>11,
     <1>12, <1>13, <1>14, <1>15, <1>16
     DEF Next, Sketch, Bus, Handler

\* Endpoint 2 belongs to the handler from the completion until it is armed.
LEMMA CopyOwnedStep == TypeInv /\ [Next]_vars => CopyOwned'
<1> SUFFICES ASSUME TypeOK, CopyOwned, [Next]_vars PROVE CopyOwned'
  BY DEF TypeInv
<1> USE DEF ringVars, epVars, isrVars, callVars, history
<1>1. CASE Sketch
  BY <1>1 DEF Sketch, AvailableHead, AvailableTail, ReadEmpty, ReadByte, TakeByte, CopyOwned
<1>2. CASE Bus
  BY <1>2 DEF Bus, HostOut, OtherEndpoint, BusReset, Configure, Deconfigure, CopyOwned
<1>3. CASE Handler
  BY <1>3 DEF Handler, Ep2Service, CopyByte, CopyEnd, Ep2Arm, AckTrncompl, CopyOwned
<1>4. CASE UNCHANGED vars
  BY <1>4 DEF vars, CopyOwned
<1> QED BY <1>1, <1>2, <1>3, <1>4 DEF Next

\* Both parts are kept.
LEMMA TypeStep == TypeInv /\ [Next]_vars => TypeInv'
BY TypeOKStep, CopyOwnedStep DEF TypeInv

\* Every variable keeps the type of the C object it stands for, for every ring
\* and packet size: neither the completion handler nor usbCdcRead() takes an
\* index out of 0..RingSize-1, and no more than a packet waits to be copied.
THEOREM TypeCorrect == Spec => []TypeOK
<1>1. TypeInv => TypeOK
  BY DEF TypeInv
<1> QED BY <1>1, TypeInit, TypeStep, PTL DEF Spec

-----------------------------------------------------------------------------
(* The promise of usbCdcAvailable().                                       *)

\* What was promised is there, what usbCdcRead() is about to take is still the
\* oldest byte, and the head index usbCdcAvailable() has loaded is at most
\* overtaken by the writer.
TakeValid  == call = "take" => head # tail /\ next = Adv(tail, 1)
SeenValid  == call = "available" => Span(tail, seen) <= Used
PromiseInv == PromiseKept /\ TakeValid /\ SeenValid

\* It holds at power-up.
LEMMA PromiseInit == Init => PromiseInv
<1> SUFFICES ASSUME Init PROVE PromiseInv
  OBVIOUS
<1>1. head = 0 /\ tail = 0 /\ promise = 0 /\ call = "idle"
  BY DEF Init
<1>2. Used = 0
  BY <1>1 DEF Used, Span
<1> QED BY <1>1, <1>2 DEF PromiseInv, PromiseKept, TakeValid, SeenValid

\* A byte enters the ring behind everything that was counted.
LEMMA PromiseCopy ==
  ASSUME TypeOK, PromiseInv, CopyByte
  PROVE  PromiseInv'
<1>1. Span(tail, head) < RingSize - 1
  BY NotFullHasRoom DEF CopyByte, TypeOK
<1>2. Used' = Used + 1
  BY <1>1, SpanAfterPut DEF CopyByte, TypeOK, Used
<1>3. Used \in Nat /\ head' \in Slot /\ tail \in Slot
  <2>1. head' \in Slot
    BY AdvInSlot, RingSizeAssumption DEF CopyByte, TypeOK
  <2> QED BY <2>1, SpanRange DEF Used, TypeOK
<1>4. UNCHANGED <<tail, call, next, seen, promise>>
  BY DEF CopyByte, callVars
<1>5. PromiseKept'
  BY <1>2, <1>3, <1>4 DEF PromiseInv, PromiseKept, TypeOK
<1>6. TakeValid'
  <2>1. Span(tail, head') # 0
    BY <1>2, <1>3, <1>4 DEF Used
  <2>2. head' # tail
    BY <1>3, <2>1, SpanRange
  <2> QED BY <1>4, <2>2 DEF PromiseInv, TakeValid
<1>7. SeenValid'
  <2>1. SUFFICES ASSUME call = "available" PROVE Span(tail, seen) <= Used'
    BY <1>4 DEF SeenValid
  <2>2. Span(tail, seen) \in 0 .. RingSize - 1
    BY SpanRange DEF TypeOK
  <2> QED BY <1>2, <1>3, <2>1, <2>2, RingSizeAssumption DEF PromiseInv, SeenValid
<1> QED BY <1>5, <1>6, <1>7 DEF PromiseInv

\* usbCdcRead() takes one byte and one promise.
LEMMA PromiseTake ==
  ASSUME TypeOK, PromiseInv, TakeByte
  PROVE  PromiseInv'
<1>1. head # tail /\ tail' = Adv(tail, 1) /\ call' = "idle" /\ UNCHANGED head
  BY DEF TakeByte, PromiseInv, TakeValid
<1>2. Used \in Nat /\ Used # 0
  BY <1>1, SpanRange DEF Used, TypeOK
<1>3. 1 \in 0 .. Span(tail, head)
  BY <1>2 DEF Used
<1>4. Used' = Used - 1
  BY <1>1, <1>3, SpanAfterTake DEF Used, TypeOK
<1>5. promise' = IF promise > 0 THEN promise - 1 ELSE 0
  BY DEF TakeByte
<1>6. PromiseKept'
  BY <1>2, <1>4, <1>5 DEF PromiseInv, PromiseKept, TypeOK
<1> QED BY <1>1, <1>6 DEF PromiseInv, TakeValid, SeenValid

\* Every step keeps it, unless a bus reset interrupts a call.
LEMMA PromiseStep ==
  ASSUME ~ResetMidCall
  PROVE  TypeOK /\ PromiseInv /\ [Next]_vars => PromiseInv'
<1> SUFFICES ASSUME TypeOK, PromiseInv, [Next]_vars PROVE PromiseInv'
  OBVIOUS
<1> USE DEF ringVars, epVars, isrVars, callVars, history
<1>1. ASSUME UNCHANGED <<head, tail, callVars>> PROVE PromiseInv'
  BY <1>1 DEF PromiseInv, PromiseKept, TakeValid, SeenValid, Used
<1>2. CASE AvailableHead
  <2>1. seen' = head /\ UNCHANGED <<head, tail, promise>> /\ call' = "available"
    BY <1>2 DEF AvailableHead
  <2>2. Span(tail, head) \in Nat
    BY SpanRange DEF TypeOK
  <2> QED BY <2>1, <2>2 DEF PromiseInv, PromiseKept, TakeValid, SeenValid, Used
<1>3. CASE AvailableTail
  BY <1>3 DEF AvailableTail, PromiseInv, PromiseKept, TakeValid, SeenValid, Used
<1>4. CASE ReadEmpty
  <2>1. promise' = 0 /\ call' = "idle" /\ UNCHANGED <<head, tail>>
    BY <1>4 DEF ReadEmpty
  <2>2. Used \in Nat
    BY SpanRange DEF TypeOK, Used
  <2> QED BY <2>1, <2>2 DEF PromiseInv, PromiseKept, TakeValid, SeenValid, Used
<1>5. CASE ReadByte
  BY <1>5 DEF ReadByte, PromiseInv, PromiseKept, TakeValid, SeenValid, Used
<1>6. CASE TakeByte
  BY <1>6, PromiseTake
<1>7. CASE BusReset
  <2>1. call' = "idle" /\ promise' = 0 /\ head' = 0 /\ tail' = 0
    BY <1>7 DEF BusReset
  <2>2. Used' = 0
    BY <2>1 DEF Used, Span
  <2> QED BY <2>1, <2>2 DEF PromiseInv, PromiseKept, TakeValid, SeenValid
<1>8. CASE CopyByte
  BY <1>8, PromiseCopy
<1>9. ASSUME NEW n \in 0 .. PacketSize, HostOut(n) PROVE PromiseInv'
  BY <1>1, <1>9 DEF HostOut
<1>10. CASE OtherEndpoint \/ Configure \/ Deconfigure
  BY <1>1, <1>10 DEF OtherEndpoint, Configure, Deconfigure
<1>11. CASE Ep2Service \/ CopyEnd \/ Ep2Arm \/ AckTrncompl
  BY <1>1, <1>11 DEF Ep2Service, CopyEnd, Ep2Arm, AckTrncompl
<1>12. CASE UNCHANGED vars
  BY <1>1, <1>12 DEF vars
<1> QED
  BY <1>2, <1>3, <1>4, <1>5, <1>6, <1>7, <1>8, <1>9, <1>10, <1>11, <1>12
     DEF Next, Sketch, Bus, Handler

\* However the completion handler falls between the two index loads of
\* usbCdcAvailable() and between the reads that follow, the ring holds as many
\* bytes as were promised, for every ring and packet size.
THEOREM PromiseCorrect ==
  ASSUME ~ResetMidCall
  PROVE  Spec => []PromiseKept
<1>1. TypeOK /\ PromiseInv /\ [Next]_vars => PromiseInv'
  BY PromiseStep
<1>2. PromiseInv => PromiseKept
  BY DEF PromiseInv
<1>3. TypeInv => TypeOK
  BY DEF TypeInv
<1> QED BY <1>1, <1>2, <1>3, PromiseInit, TypeInit, TypeStep, PTL DEF Spec

-----------------------------------------------------------------------------
(* The stream: what was read, what waits in the ring, what waits in the    *)
(* packet.                                                                 *)

\* The bytes of a ring between two indices, oldest first.
RingFrom(r, t, h) == [k \in 1 .. Span(t, h) |-> r[Adv(t, k - 1)]]

LEMMA FromType ==
  ASSUME NEW r \in [Slot -> Nat], NEW t \in Slot, NEW h \in Slot
  PROVE  /\ Span(t, h) \in 0 .. RingSize - 1
         /\ RingFrom(r, t, h) \in Seq(Nat) /\ Len(RingFrom(r, t, h)) = Span(t, h)
<1>1. Span(t, h) \in 0 .. RingSize - 1
  BY SpanRange
<1>2. \A k \in 1 .. Span(t, h) : r[Adv(t, k - 1)] \in Nat
  <2> SUFFICES ASSUME NEW k \in 1 .. Span(t, h) PROVE Adv(t, k - 1) \in Slot
    OBVIOUS
  <2>1. k - 1 \in 0 .. RingSize
    BY <1>1, RingSizeAssumption
  <2> QED BY <2>1, AdvInSlot
<1>3. RingFrom(r, t, h) \in Seq(Nat) /\ Len(RingFrom(r, t, h)) = Span(t, h)
  <2> DEFINE n == Span(t, h)
             e(k) == r[Adv(t, k - 1)]
  <2>1. n \in Nat /\ \A k \in 1 .. n : e(k) \in Nat
    BY <1>1, <1>2, RingSizeAssumption
  <2>2. RingFrom(r, t, h) = [k \in 1 .. n |-> e(k)]
    BY DEF RingFrom
  <2> HIDE DEF n, e
  <2>3. [k \in 1 .. n |-> e(k)] \in Seq(Nat) /\ Len([k \in 1 .. n |-> e(k)]) = n
    BY <2>1, IsASeq
  <2> QED BY <2>2, <2>3 DEF n
<1> QED BY <1>1, <1>3

\* The reader's advance takes the oldest byte.
LEMMA FromTake ==
  ASSUME NEW r \in [Slot -> Nat], NEW t \in Slot, NEW h \in Slot, t # h
  PROVE  /\ RingFrom(r, t, h) = <<r[t]>> \o RingFrom(r, Adv(t, 1), h)
         /\ Tail(RingFrom(r, t, h)) = RingFrom(r, Adv(t, 1), h)
<1> DEFINE u == Adv(t, 1)
           A == RingFrom(r, t, h)
           B == RingFrom(r, u, h)
           n == Span(t, h)
<1>1. u \in Slot /\ r[t] \in Nat /\ Adv(t, 0) = t
  BY RingSizeAssumption DEF Adv, Slot
<1>2. n \in 1 .. RingSize - 1 /\ Span(u, h) = n - 1
  <2>1. n \in 0 .. RingSize - 1 /\ n # 0
    BY SpanRange
  <2>2. 1 \in 0 .. n /\ n \in 1 .. RingSize - 1
    BY <2>1, RingSizeAssumption
  <2> QED BY <2>2, SpanAfterTake
<1>3. A \in Seq(Nat) /\ Len(A) = n /\ B \in Seq(Nat) /\ Len(B) = n - 1
  BY <1>1, <1>2, FromType
<1>4. \A k \in 1 .. n : A[k] = r[Adv(t, k - 1)]
  BY DEF RingFrom
<1>5. \A k \in 1 .. n - 1 : B[k] = r[Adv(u, k - 1)]
  BY <1>2 DEF RingFrom
<1>6. \A k \in 1 .. n - 1 : Adv(u, k - 1) = Adv(t, k)
  BY <1>2, RingSizeAssumption DEF Adv, Slot
<1> HIDE DEF A, B, n, u
<1>7. A[1] = r[t] /\ \A k \in 1 .. n - 1 : A[k + 1] = B[k]
  <2>1. 1 \in 1 .. n /\ 1 - 1 = 0 /\ \A k \in 1 .. n - 1 : k + 1 \in 1 .. n /\ k + 1 - 1 = k
    BY <1>2, RingSizeAssumption
  <2>2. \A k \in 1 .. n - 1 : A[k + 1] = r[Adv(t, k)]
    BY <1>4, <2>1
  <2> QED BY <1>1, <1>4, <1>5, <1>6, <2>1, <2>2
<1>8. A # <<>> /\ A = SubSeq(A, 1, Len(A)) /\ 1 \in 1 .. Len(A) /\ Len(A) \in 1 .. Len(A)
  <2>1. A # <<>>
    BY <1>2, <1>3, EmptySeq, RingSizeAssumption
  <2> QED BY <1>2, <1>3, <2>1, SubSeqFull, RingSizeAssumption
<1>9. Tail(A) = B
  <2>1. Tail(A) \in Seq(Nat) /\ Len(Tail(A)) = n - 1 /\ \A k \in 1 .. Len(Tail(A)) : Tail(A)[k] = A[k + 1]
    BY <1>3, <1>8, HeadTailProperties
  <2>2. \A k \in 1 .. Len(Tail(A)) : Tail(A)[k] = B[k]
    BY <1>7, <2>1
  <2> QED BY <1>3, <2>1, <2>2, SeqEqual
<1>10. A = <<A[1]>> \o Tail(A)
  <2>1. SubSeq(A, 1, Len(A)) = <<A[1]>> \o SubSeq(A, 1 + 1, Len(A))
    BY <1>3, <1>8, SubSeqRecursiveFirst
  <2>2. Tail(A) = SubSeq(A, 2, Len(A)) /\ 1 + 1 = 2
    BY <1>3, <1>8, TailIsSubSeq
  <2> QED BY <1>8, <2>1, <2>2
<1> QED BY <1>7, <1>9, <1>10 DEF A, B, u

\* The writer's store and advance append one byte.
LEMMA FromPut ==
  ASSUME NEW r \in [Slot -> Nat], NEW t \in Slot, NEW h \in Slot, NEW b \in Nat,
         Span(t, h) < RingSize - 1
  PROVE  RingFrom([r EXCEPT ![h] = b], t, Adv(h, 1)) = Append(RingFrom(r, t, h), b)
<1> DEFINE new == [r EXCEPT ![h] = b]
           A == RingFrom(new, t, Adv(h, 1))
           R == RingFrom(r, t, h)
           n == Span(t, h)
<1>1. new \in [Slot -> Nat] /\ new[h] = b /\ \A j \in Slot : j # h => new[j] = r[j]
  OBVIOUS
<1>2. n \in 0 .. RingSize - 2 /\ Span(t, Adv(h, 1)) = n + 1 /\ Adv(h, 1) \in Slot
  <2>1. n \in 0 .. RingSize - 1
    BY SpanRange
  <2>2. 1 \in 0 .. RingSize
    BY RingSizeAssumption
  <2> QED BY <2>1, <2>2, SpanAfterPut, AdvInSlot, RingSizeAssumption
<1>3. A \in Seq(Nat) /\ Len(A) = n + 1 /\ R \in Seq(Nat) /\ Len(R) = n
  BY <1>1, <1>2, FromType
<1>4. \A k \in 1 .. n + 1 : A[k] = new[Adv(t, k - 1)]
  BY <1>2 DEF RingFrom
<1>5. \A k \in 1 .. n : R[k] = r[Adv(t, k - 1)]
  BY DEF RingFrom
<1>6. Adv(t, n) = h
  BY SpanRange
<1>7. \A k \in 1 .. n : Adv(t, k - 1) \in Slot /\ Adv(t, k - 1) # h
  <2> SUFFICES ASSUME NEW k \in 1 .. n PROVE Adv(t, k - 1) \in Slot /\ Adv(t, k - 1) # h
    OBVIOUS
  <2>1. /\ k - 1 \in 0 .. RingSize /\ k - 1 \in 0 .. RingSize - 1 /\ k - 1 # n
        /\ n \in 0 .. RingSize - 1
    BY <1>2, RingSizeAssumption
  <2>2. Adv(t, k - 1) \in Slot
    BY <2>1, AdvInSlot
  <2>3. Adv(t, k - 1) # Adv(t, n)
    BY <2>1, AdvInjective
  <2> QED BY <1>6, <2>2, <2>3
<1> HIDE DEF A, R, n, new
<1>8. n \in Nat /\ n + 1 \in 1 .. n + 1 /\ n + 1 - 1 = n /\ \A k \in 1 .. n : k \in 1 .. n + 1
  BY <1>2, RingSizeAssumption
<1>9. A[n + 1] = b
  BY <1>1, <1>4, <1>6, <1>8
<1>10. \A k \in 1 .. n : A[k] = R[k]
  BY <1>1, <1>4, <1>5, <1>7, <1>8
<1>11. /\ Append(R, b) \in Seq(Nat) /\ Len(Append(R, b)) = n + 1
       /\ \A k \in 1 .. n : Append(R, b)[k] = R[k]
       /\ Append(R, b)[n + 1] = b
  BY <1>3, AppendProperties
<1>12. ASSUME NEW k \in 1 .. n + 1 PROVE A[k] = Append(R, b)[k]
  <2>1. k = n + 1 \/ k \in 1 .. n
    BY <1>8
  <2> QED BY <1>9, <1>10, <1>11, <2>1
<1>13. A = Append(R, b)
  BY <1>3, <1>11, <1>12, SeqEqual
<1> QED BY <1>13 DEF A, R, new

\* What usbCdcRead() has still to return: while it is about to store the new
\* tail, the oldest byte of the ring is already read.
UnreadOf(r, t, h, c) == IF c = "take" THEN Tail(RingFrom(r, t, h)) ELSE RingFrom(r, t, h)
Start(t, c) == IF c = "take" THEN Adv(t, 1) ELSE t

\* The unread bytes are those from Start on, whatever the sketch is doing.
LEMMA UnreadFrom ==
  ASSUME NEW r \in [Slot -> Nat], NEW t \in Slot, NEW h \in Slot, NEW c,
         c = "take" => t # h
  PROVE  /\ UnreadOf(r, t, h, c) = RingFrom(r, Start(t, c), h)
         /\ UnreadOf(r, t, h, c) \in Seq(Nat)
         /\ Start(t, c) \in Slot /\ Span(Start(t, c), h) <= Span(t, h)
<1>1. CASE c = "take"
  <2>1. Adv(t, 1) \in Slot /\ 1 \in 0 .. Span(t, h)
    <3>1. 1 \in 0 .. RingSize
      BY RingSizeAssumption
    <3>2. Span(t, h) \in 0 .. RingSize - 1 /\ Span(t, h) # 0
      BY <1>1, SpanRange
    <3> QED BY <3>1, <3>2, AdvInSlot, RingSizeAssumption
  <2>2. Span(Adv(t, 1), h) = Span(t, h) - 1 /\ Span(t, h) \in 0 .. RingSize - 1
    BY <2>1, SpanAfterTake, SpanRange
  <2>3. Span(Adv(t, 1), h) <= Span(t, h)
    BY <2>2, RingSizeAssumption
  <2>4. UnreadOf(r, t, h, c) = RingFrom(r, Adv(t, 1), h)
    BY <1>1, FromTake DEF UnreadOf
  <2>5. RingFrom(r, Adv(t, 1), h) \in Seq(Nat)
    BY <2>1, FromType
  <2> QED BY <1>1, <2>1, <2>3, <2>4, <2>5 DEF Start
<1>2. CASE c # "take"
  <2>1. Span(t, h) <= Span(t, h)
    BY SpanRange, RingSizeAssumption
  <2> QED BY <1>2, <2>1, FromType DEF UnreadOf, Start
<1> QED BY <1>1, <1>2

\* The definitions of CdcRx in these terms, before and after a step.
LEMMA UnreadIs ==
  /\ Unread = UnreadOf(ring, tail, head, call)
  /\ Unread' = UnreadOf(ring', tail', head', call')
BY DEF Unread, RingSeq, Used, UnreadOf, RingFrom

\* The parts of the stream are sequences of bytes.
LEMMA StreamParts ==
  ASSUME TypeOK, TakeValid
  PROVE  /\ Unread \in Seq(Nat) /\ got \in Seq(Nat) /\ got \o Unread \in Seq(Nat)
         /\ Pending \in Seq(Nat) /\ Len(Pending) = Len(buf) - i
<1>1. Unread \in Seq(Nat)
  BY UnreadIs, UnreadFrom DEF TypeOK, TakeValid
<1>2. got \in Seq(Nat) /\ got \o Unread \in Seq(Nat)
  BY <1>1, ConcatProperties DEF TypeOK
<1>3. Pending \in Seq(Nat) /\ Len(Pending) = Len(buf) - i
  <2> DEFINE m == i + 1
             n == Len(buf)
  <2>1. n \in Nat /\ buf \in [1 .. n -> Nat] /\ m \in Int /\ n \in Int /\ m >= 1 /\ m <= n + 1
    BY LenProperties DEF TypeOK
  <2>2. \A j \in m .. n : buf[j] \in Nat
    BY <2>1
  <2> HIDE DEF m, n
  <2>3. SubSeq(buf, m, n) \in Seq(Nat) /\ Len(SubSeq(buf, m, n)) = IF m <= n THEN n - m + 1 ELSE 0
    BY <2>1, <2>2, SubSeqProperties
  <2>4. Len(SubSeq(buf, m, n)) = n - m + 1
    BY <2>1, <2>3
  <2>5. n - m + 1 = n - i
    BY <2>1 DEF m, TypeOK
  <2> QED BY <2>3, <2>4, <2>5 DEF Pending, m, n
<1> QED BY <1>1, <1>2, <1>3

\* s is a part, in order, of a stream of n bytes of which d are missing.
Intact(s, d, n) ==
  /\ \A k \in 1 .. Len(s) - 1 : s[k] < s[k + 1]
  /\ \A k \in 1 .. Len(s) : s[k] <= n
  /\ Len(s) + d = n

\* Forgetting the youngest bytes and counting them keeps the rest intact.
LEMMA IntactCut ==
  ASSUME NEW s \in Seq(Nat), NEW p \in Seq(Nat), NEW d \in Nat, NEW n \in Nat,
         Intact(s \o p, d, n)
  PROVE  Intact(s, d + Len(p), n)
<1> DEFINE sp == s \o p
<1>1. Len(s) \in Nat /\ Len(p) \in Nat /\ Len(sp) = Len(s) + Len(p)
  BY LenProperties, ConcatProperties
<1>2. \A k \in 1 .. Len(s) : sp[k] = s[k]
  <2> SUFFICES ASSUME NEW k \in 1 .. Len(s) PROVE sp[k] = s[k]
    OBVIOUS
  <2>1. k \in 1 .. Len(s) + Len(p) /\ k <= Len(s)
    BY <1>1
  <2> QED BY <2>1, ConcatProperties
<1>3. /\ \A k \in 1 .. Len(sp) - 1 : sp[k] < sp[k + 1]
      /\ \A k \in 1 .. Len(sp) : sp[k] <= n
      /\ Len(sp) + d = n
  BY DEF Intact
<1> HIDE DEF sp
<1>4. \A k \in 1 .. Len(s) - 1 : s[k] < s[k + 1]
  <2> SUFFICES ASSUME NEW k \in 1 .. Len(s) - 1 PROVE s[k] < s[k + 1]
    OBVIOUS
  <2>1. k \in 1 .. Len(s) /\ k + 1 \in 1 .. Len(s) /\ k \in 1 .. Len(sp) - 1
    BY <1>1
  <2> QED BY <1>2, <1>3, <2>1
<1>5. \A k \in 1 .. Len(s) : s[k] <= n
  <2> SUFFICES ASSUME NEW k \in 1 .. Len(s) PROVE s[k] <= n
    OBVIOUS
  <2>1. k \in 1 .. Len(sp)
    BY <1>1
  <2> QED BY <1>2, <1>3, <2>1
<1> QED BY <1>1, <1>3, <1>4, <1>5 DEF Intact

\* The next packet of the host continues the stream.
LEMMA IntactPacket ==
  ASSUME NEW s \in Seq(Nat), NEW p \in Seq(Nat), NEW d \in Nat, NEW n \in Nat,
         Intact(s, d, n), \A k \in 1 .. Len(p) : p[k] = n + k
  PROVE  Intact(s \o p, d, n + Len(p))
<1> DEFINE sp == s \o p
           a == Len(s)
           b == Len(p)
<1>1. a \in Nat /\ b \in Nat /\ Len(sp) = a + b /\ s \in [1 .. a -> Nat]
  BY LenProperties, ConcatProperties
<1>2. \A k \in 1 .. a + b : sp[k] = IF k <= a THEN s[k] ELSE p[k - a]
  BY ConcatProperties
<1>3. /\ \A k \in 1 .. a - 1 : s[k] < s[k + 1]
      /\ \A k \in 1 .. a : s[k] <= n
      /\ a + d = n
  BY DEF Intact
<1>4. \A k \in 1 .. b : p[k] = n + k
  OBVIOUS
<1> HIDE DEF sp, a, b
<1>5. \A k \in 1 .. a : sp[k] = s[k] /\ sp[k] \in Nat /\ sp[k] <= n
  <2> SUFFICES ASSUME NEW k \in 1 .. a PROVE sp[k] = s[k] /\ s[k] \in Nat /\ s[k] <= n
    OBVIOUS
  <2>1. k \in 1 .. a + b /\ k <= a
    BY <1>1
  <2> QED BY <1>1, <1>2, <1>3, <2>1
<1>6. ASSUME NEW k \in a + 1 .. a + b PROVE sp[k] = n + (k - a)
  <2>1. k \in 1 .. a + b /\ ~(k <= a) /\ k - a \in 1 .. b
    BY <1>1
  <2> QED BY <1>2, <1>4, <2>1
<1>7. \A k \in 1 .. Len(sp) : sp[k] <= n + b
  <2> SUFFICES ASSUME NEW k \in 1 .. a + b PROVE sp[k] <= n + b
    BY <1>1
  <2>1. CASE k \in 1 .. a
    BY <1>1, <1>5, <2>1
  <2>2. CASE k \in a + 1 .. a + b
    BY <1>1, <1>6, <2>2
  <2> QED BY <1>1, <2>1, <2>2
<1>8. \A k \in 1 .. Len(sp) - 1 : sp[k] < sp[k + 1]
  <2> SUFFICES ASSUME NEW k \in 1 .. a + b - 1 PROVE sp[k] < sp[k + 1]
    BY <1>1
  <2>1. CASE k \in 1 .. a - 1
    <3>1. k \in 1 .. a /\ k + 1 \in 1 .. a
      BY <1>1, <2>1
    <3> QED BY <1>3, <1>5, <2>1, <3>1
  <2>2. CASE k = a
    <3>1. k \in 1 .. a /\ k + 1 \in a + 1 .. a + b /\ k + 1 - a = 1
      BY <1>1, <2>2
    <3>2. sp[k] <= n /\ sp[k] \in Nat
      BY <1>5, <3>1
    <3>3. sp[k + 1] = n + (k + 1 - a)
      BY <1>1, <1>6, <3>1
    <3> QED BY <3>1, <3>2, <3>3
  <2>3. CASE k > a
    <3>1. k \in a + 1 .. a + b /\ k + 1 \in a + 1 .. a + b
      BY <1>1, <2>3
    <3>2. sp[k] = n + (k - a)
      BY <1>6, <3>1
    <3>3. sp[k + 1] = n + (k + 1 - a)
      BY <1>1, <1>6, <3>1
    <3> QED BY <1>1, <3>2, <3>3
  <2> QED BY <1>1, <2>1, <2>2, <2>3
<1>9. Len(sp) + d = n + b
  BY <1>1, <1>3
<1> QED BY <1>7, <1>8, <1>9 DEF Intact, sp, b

\* Concatenation of the parts is associative.
LEMMA ConcatTriple ==
  \A s, t, u \in Seq(Nat) : (s \o t) \o u = s \o (t \o u)
<1> SUFFICES ASSUME NEW s \in Seq(Nat), NEW t \in Seq(Nat), NEW u \in Seq(Nat)
             PROVE  (s \o t) \o u = s \o (t \o u)
  OBVIOUS
<1> QED BY ConcatAssociative, SMTT(60)

\* A byte moves from the front of one part to the back of the part before it.
LEMMA MoveByte ==
  ASSUME NEW u \in Seq(Nat), NEW p \in Seq(Nat), NEW b \in Nat
  PROVE  u \o (<<b>> \o p) = Append(u, b) \o p
<1>1. <<b>> \in Seq(Nat) /\ Append(u, b) = u \o <<b>>
  BY AppendIsConcat
<1>2. (u \o <<b>>) \o p = u \o (<<b>> \o p)
  BY <1>1, ConcatAssociative
<1> QED BY <1>1, <1>2

\* The same behind a third part.
LEMMA MoveByteBehind ==
  ASSUME NEW g \in Seq(Nat), NEW u \in Seq(Nat), NEW p \in Seq(Nat), NEW b \in Nat
  PROVE  (g \o u) \o (<<b>> \o p) = (g \o Append(u, b)) \o p
<1> DEFINE bp == <<b>> \o p
           ub == Append(u, b)
<1>1. <<b>> \in Seq(Nat)
  OBVIOUS
<1>2. bp \in Seq(Nat)
  BY <1>1, ConcatProperties
<1>3. ub \in Seq(Nat)
  BY AppendProperties
<1>4. u \o bp = ub \o p
  BY MoveByte
<1> HIDE DEF bp, ub
<1>5. (g \o u) \o bp = g \o (u \o bp)
  BY <1>2, ConcatTriple
<1>6. (g \o ub) \o p = g \o (ub \o p)
  BY <1>3, ConcatTriple
<1>7. (g \o u) \o bp = (g \o ub) \o p
  BY <1>4, <1>5, <1>6
<1> QED BY <1>7 DEF bp, ub

\* RxIntact is not inductive: the bytes are ordered by their numbers, which
\* must not exceed the count of bytes sent, and a packet overwrites its buffer
\* only once the handler has emptied it.
BufFree   == ~nak \/ isr = "arm" => buf = <<>>
IntactInv == Intact(Stream, dropped, sent) /\ BufFree

\* It holds at power-up.
LEMMA IntactInit == Init => IntactInv
<1> SUFFICES ASSUME Init PROVE IntactInv
  OBVIOUS
<1>1. /\ head = 0 /\ tail = 0 /\ call = "idle" /\ buf = <<>> /\ i = 0 /\ got = <<>>
      /\ dropped = 0 /\ sent = 0
  BY DEF Init
<1>2. Unread = <<>>
  <2>1. Used = 0
    BY <1>1 DEF Used, Span
  <2> QED BY <1>1, <2>1 DEF Unread, RingSeq
<1>3. Pending = <<>>
  <2>1. Len(buf) = 0
    BY <1>1, NoBytes
  <2> QED BY <1>1, <2>1, SubSeqEmpty DEF Pending
<1>4. Stream = <<>>
  BY <1>1, <1>2, <1>3 DEF Stream
<1>5. Len(Stream) = 0
  BY <1>4, NoBytes
<1> QED BY <1>1, <1>5 DEF IntactInv, Intact, BufFree

\* A packet arrives in an empty buffer.
LEMMA IntactHostOut ==
  ASSUME TypeInv, TakeValid, IntactInv, NEW n \in 0 .. PacketSize, HostOut(n)
  PROVE  IntactInv'
<1>1. /\ ~nak /\ buf' = [k \in 1 .. n |-> sent + k] /\ sent' = sent + n
      /\ nak' = TRUE /\ UNCHANGED <<ringVars, isr, i, callVars, dropped, got>>
  BY DEF HostOut
<1>2. buf = <<>> /\ i = 0 /\ n \in Nat /\ sent \in Nat /\ dropped \in Nat /\ isr # "arm"
  BY <1>1, RxAssumption DEF IntactInv, BufFree, TypeInv, TypeOK, CopyOwned
<1>3. buf' \in Seq(Nat) /\ Len(buf') = n
  <2>1. \A k \in 1 .. n : sent + k \in Nat
    BY <1>2
  <2> QED BY <1>1, <1>2, <2>1, IsASeq
<1>4. Pending = <<>> /\ Pending' = buf'
  <2>1. Len(buf) = 0 /\ SubSeq(buf, 1, 0) = <<>>
    BY <1>2, NoBytes, SubSeqEmpty
  <2>2. i' = 0 /\ 0 + 1 = 1
    BY <1>1, <1>2
  <2>3. SubSeq(buf', 1, Len(buf')) = buf'
    BY <1>3, SubSeqFull
  <2> QED BY <1>2, <2>1, <2>2, <2>3 DEF Pending
<1>5. Unread' = Unread /\ got' = got
  BY <1>1, UnreadIs DEF ringVars, callVars
<1>6. got \o Unread \in Seq(Nat)
  BY StreamParts DEF TypeInv
<1>7. Stream = got \o Unread /\ Stream' = (got \o Unread) \o buf'
  BY <1>4, <1>5, <1>6, ConcatEmptySeq DEF Stream
<1>8. Intact(got \o Unread, dropped, sent)
  BY <1>7 DEF IntactInv
<1>9. \A k \in 1 .. Len(buf') : buf'[k] = sent + k
  BY <1>1, <1>3
<1>10. Intact((got \o Unread) \o buf', dropped, sent + Len(buf'))
  BY <1>2, <1>3, <1>6, <1>8, <1>9, IntactPacket
<1>11. BufFree'
  BY <1>1, <1>2 DEF BufFree
<1> QED BY <1>1, <1>3, <1>7, <1>10, <1>11 DEF IntactInv

\* The turn of the copy loop puts a byte at the back of the unread ones.
LEMMA CopyAppends ==
  ASSUME TypeInv, TakeValid, CopyByte
  PROVE  /\ i + 1 \in 1 .. Len(buf) /\ buf[i + 1] \in Nat
         /\ Unread' = Append(Unread, buf[i + 1]) /\ Len(Unread) < RingSize - 1
<1> DEFINE b == buf[i + 1]
           t == Start(tail, call)
<1>1. /\ isr = "copy" /\ i < Len(buf) /\ ~Full(tail, head)
      /\ ring' = [ring EXCEPT ![head] = b] /\ head' = Adv(head, 1) /\ i' = i + 1
      /\ UNCHANGED <<tail, nak, buf, isr, call, sent, dropped, got>>
  BY DEF CopyByte, epVars, callVars, history
<1>2. /\ ring \in [Slot -> Nat] /\ tail \in Slot /\ head \in Slot /\ buf \in Seq(Nat)
      /\ i \in 0 .. Len(buf) /\ Len(buf) \in Nat
  BY DEF TypeInv, TypeOK
<1>3. i + 1 \in 1 .. Len(buf) /\ Len(buf) \in i + 1 .. Len(buf) /\ b \in Nat
  <2>1. i + 1 \in 1 .. Len(buf) /\ Len(buf) \in i + 1 .. Len(buf)
    BY <1>1, <1>2
  <2> QED BY <1>2, <2>1, ElementOfSeq
<1>4. call = "take" => tail # head /\ tail # head'
  <2>1. Span(tail, head') = Span(tail, head) + 1 /\ Span(tail, head) \in 0 .. RingSize - 1
    BY <1>1, <1>2, NotFullHasRoom, SpanAfterPut, SpanRange
  <2>2. head' \in Slot
    BY <1>1, <1>2, AdvInSlot, RingSizeAssumption
  <2>3. Span(tail, head') # 0
    BY <2>1, RingSizeAssumption
  <2>4. tail # head'
    BY <1>2, <2>2, <2>3, SpanRange
  <2> QED BY <2>4 DEF TakeValid
<1>5. /\ Unread = RingFrom(ring, t, head) /\ t \in Slot
      /\ Span(t, head) < RingSize - 1
  <2>1. /\ UnreadOf(ring, tail, head, call) = RingFrom(ring, t, head)
        /\ t \in Slot /\ Span(t, head) <= Span(tail, head)
    BY <1>2, <1>4, UnreadFrom
  <2>2. Span(tail, head) < RingSize - 1
    BY <1>1, <1>2, NotFullHasRoom
  <2>3. Span(t, head) \in 0 .. RingSize - 1 /\ Span(tail, head) \in 0 .. RingSize - 1
    BY <1>2, <2>1, SpanRange
  <2> QED BY <2>1, <2>2, <2>3, UnreadIs, RingSizeAssumption
<1>6. Unread' = RingFrom(ring', t, head')
  <2> DEFINE new == ring'
             h == head'
  <2>1. new \in [Slot -> Nat]
    BY <1>1, <1>2, <1>3
  <2>2. h \in Slot
    BY <1>1, <1>2, AdvInSlot, RingSizeAssumption
  <2>3. call = "take" => tail # h
    BY <1>4
  <2>4. Unread' = UnreadOf(new, tail, h, call)
    BY <1>1, UnreadIs
  <2> HIDE DEF new, h
  <2>5. UnreadOf(new, tail, h, call) = RingFrom(new, Start(tail, call), h)
    <3>1. tail \in Slot
      BY <1>2
    <3> QED BY <2>1, <2>2, <2>3, <3>1, UnreadFrom
  <2> QED BY <2>4, <2>5 DEF new, h
<1>7. Len(Unread) = Span(t, head)
  BY <1>2, <1>5, FromType
<1> QED BY <1>1, <1>2, <1>3, <1>5, <1>6, <1>7, FromPut

\* usbCdcRead() takes the oldest unread byte when it loads it, not when it
\* stores the tail.
LEMMA ReadTakes ==
  ASSUME TypeInv, ReadByte
  PROVE  ring[tail] \in Nat /\ Unread = <<ring[tail]>> \o Unread' /\ Unread' \in Seq(Nat)
<1>1. /\ call = "idle" /\ head # tail /\ call' = "take" /\ UNCHANGED <<ring, head, tail>>
  BY DEF ReadByte, ringVars
<1>2. ring \in [Slot -> Nat] /\ tail \in Slot /\ head \in Slot
  BY DEF TypeInv, TypeOK
<1>3. Unread = RingFrom(ring, tail, head) /\ Unread' = Tail(RingFrom(ring, tail, head))
  BY <1>1, UnreadIs DEF UnreadOf
<1>4. Unread' \in Seq(Nat)
  BY <1>1, <1>2, UnreadIs, UnreadFrom
<1> QED BY <1>1, <1>2, <1>3, <1>4, FromTake

LEMMA TakeKeeps ==
  ASSUME TypeInv, TakeValid, TakeByte
  PROVE  Unread' = Unread
<1>1. call = "take" /\ tail' = next /\ call' = "idle" /\ UNCHANGED <<ring, head>>
  BY DEF TakeByte
<1>2. tail # head /\ next = Adv(tail, 1)
  BY <1>1 DEF TakeValid
<1>3. ring \in [Slot -> Nat] /\ tail \in Slot /\ head \in Slot
  BY DEF TypeInv, TypeOK
<1>4. Tail(RingFrom(ring, tail, head)) = RingFrom(ring, Adv(tail, 1), head)
  BY <1>2, <1>3, FromTake
<1> QED BY <1>1, <1>2, <1>4, UnreadIs DEF UnreadOf

\* A bus reset between two calls leaves nothing to read.
LEMMA ResetEmpties ==
  ASSUME BusReset, call = "idle"
  PROVE  Unread' = <<>>
<1>1. head' = 0 /\ tail' = 0 /\ call' = "idle"
  BY DEF BusReset
<1>2. Span(tail', head') = 0
  BY <1>1 DEF Span
<1> QED BY <1>1, <1>2, UnreadIs DEF UnreadOf, RingFrom

\* A byte goes from the packet to the back of the ring.
LEMMA IntactCopy ==
  ASSUME TypeInv, TakeValid, IntactInv, CopyByte
  PROVE  IntactInv'
<1> DEFINE b == buf[i + 1]
<1>1. i' = i + 1 /\ UNCHANGED <<nak, buf, isr, sent, dropped, got>>
  BY DEF CopyByte, epVars, history
<1>2. buf \in Seq(Nat) /\ Len(buf) \in Nat /\ i \in 0 .. Len(buf)
  BY DEF TypeInv, TypeOK
<1>3. i + 1 \in 1 .. Len(buf) /\ Len(buf) \in i + 1 .. Len(buf) /\ b \in Nat
  BY <1>2, CopyAppends
<1>4. Pending = <<b>> \o Pending'
  <2>1. SubSeq(buf, i + 1, Len(buf)) = <<buf[i + 1]>> \o SubSeq(buf, i + 1 + 1, Len(buf))
    BY <1>2, <1>3, SubSeqRecursiveFirst
  <2> QED BY <1>1, <2>1 DEF Pending
<1>5. Pending' \in Seq(Nat)
  <2>1. \A j \in i + 1 + 1 .. Len(buf) : buf[j] \in Nat
    BY <1>2, LenProperties
  <2>2. SubSeq(buf, i + 1 + 1, Len(buf)) \in Seq(Nat)
    BY <1>2, <2>1, SubSeqProperties
  <2> QED BY <1>1, <2>2 DEF Pending
<1>6. Unread' = Append(Unread, b)
  BY CopyAppends
<1> HIDE DEF b
<1>7. Stream' = Stream
  <2>1. Unread \in Seq(Nat) /\ got \in Seq(Nat)
    BY StreamParts DEF TypeInv
  <2>0. b \in Nat
    BY <1>3
  <2>2. (got \o Unread) \o (<<b>> \o Pending') = (got \o Append(Unread, b)) \o Pending'
    BY <1>5, <2>0, <2>1, MoveByteBehind, Zenon
  <2>3. Stream = (got \o Unread) \o (<<b>> \o Pending')
    BY <1>4 DEF Stream
  <2>4. Stream' = (got \o Append(Unread, b)) \o Pending'
    BY <1>1, <1>6 DEF Stream
  <2> QED BY <2>2, <2>3, <2>4
<1> QED BY <1>1, <1>7 DEF IntactInv, BufFree

\* A byte goes from the front of the ring to the sketch.
LEMMA IntactRead ==
  ASSUME TypeInv, IntactInv, ReadByte
  PROVE  IntactInv'
<1> DEFINE b == ring[tail]
<1>1. /\ call = "idle" /\ head # tail /\ got' = Append(got, b) /\ call' = "take"
      /\ UNCHANGED <<ring, head, tail, nak, buf, isr, i, sent, dropped>>
  BY DEF ReadByte, ringVars, epVars, isrVars
<1>2. got \in Seq(Nat)
  BY DEF TypeInv, TypeOK
<1>3. b \in Nat /\ Unread = <<b>> \o Unread' /\ Unread' \in Seq(Nat)
  BY ReadTakes
<1>4. Pending' = Pending
  BY <1>1 DEF Pending
<1> HIDE DEF b
<1>5. got \o Unread = Append(got, b) \o Unread'
  BY <1>2, <1>3, MoveByte
<1>6. Stream' = Stream
  BY <1>1, <1>4, <1>5 DEF Stream
<1> QED BY <1>1, <1>6 DEF IntactInv, BufFree

\* The rest of a packet is forgotten and counted.
LEMMA IntactDrop ==
  ASSUME TypeInv, TakeValid, IntactInv,
         buf' = <<>>, i' = 0, dropped' = dropped + Len(buf) - i,
         UNCHANGED <<ringVars, callVars, sent, got>>
  PROVE  IntactInv'
<1>1. /\ got \o Unread \in Seq(Nat) /\ Pending \in Seq(Nat) /\ Len(Pending) = Len(buf) - i
      /\ dropped \in Nat /\ sent \in Nat /\ Len(buf) \in Nat /\ i \in Nat
  BY StreamParts DEF TypeInv, TypeOK
<1>2. Unread' = Unread
  BY UnreadIs DEF ringVars, callVars
<1>3. Pending' = <<>>
  BY NoBytes, SubSeqEmpty DEF Pending
<1>4. Stream = (got \o Unread) \o Pending /\ Stream' = got \o Unread
  BY <1>1, <1>2, <1>3, ConcatEmptySeq DEF Stream
<1>5. Intact(got \o Unread, dropped + Len(Pending), sent)
  BY <1>1, <1>4, IntactCut DEF IntactInv
<1>6. dropped' = dropped + Len(Pending)
  BY <1>1
<1> QED BY <1>4, <1>5, <1>6 DEF IntactInv, BufFree

\* A bus reset between two calls starts a new stream.
LEMMA IntactReset ==
  ASSUME TypeInv, BusReset, call = "idle"
  PROVE  IntactInv'
<1>1. /\ head' = 0 /\ tail' = 0 /\ buf' = <<>> /\ sent' = 0 /\ dropped' = 0
      /\ got' = <<>> /\ call' = "idle" /\ isr = "off" /\ i' = i
  BY DEF BusReset, isrVars
<1>2. i' = 0
  BY <1>1 DEF TypeInv, TypeOK, CopyOwned
<1>3. Unread' = <<>>
  BY ResetEmpties
<1>4. Pending' = <<>>
  BY <1>1, <1>2, NoBytes, SubSeqEmpty DEF Pending
<1>5. Stream' = <<>>
  BY <1>1, <1>3, <1>4 DEF Stream
<1>6. Len(Stream') = 0
  BY <1>5, NoBytes
<1> QED BY <1>1, <1>6 DEF IntactInv, Intact, BufFree

\* Every step keeps the stream, unless a bus reset interrupts a call.
LEMMA IntactStep ==
  ASSUME ~ResetMidCall
  PROVE  TypeInv /\ PromiseInv /\ IntactInv /\ [Next]_vars => IntactInv'
<1> SUFFICES ASSUME TypeInv, TakeValid, IntactInv, [Next]_vars PROVE IntactInv'
  BY DEF PromiseInv
<1>1. ASSUME UNCHANGED <<ring, head, tail, call, buf, i, got, sent, dropped>>,
             nak' = nak, isr' = "arm" => isr = "arm"
      PROVE  IntactInv'
  <2>1. Unread' = Unread /\ Pending' = Pending
    BY <1>1, UnreadIs DEF Pending
  <2>2. Stream' = Stream
    BY <1>1, <2>1 DEF Stream
  <2> QED BY <1>1, <2>2 DEF IntactInv, BufFree
<1>2. CASE AvailableHead \/ AvailableTail
  <2>1. /\ UNCHANGED <<ring, head, tail, buf, i, got, sent, dropped, nak, isr>>
        /\ call # "take" /\ call' # "take"
    BY <1>2 DEF AvailableHead, AvailableTail, ringVars, epVars, isrVars, history
  <2>2. Unread' = Unread /\ Pending' = Pending
    BY <2>1, UnreadIs DEF Pending, UnreadOf
  <2>3. Stream' = Stream
    BY <2>1, <2>2 DEF Stream
  <2> QED BY <2>1, <2>3 DEF IntactInv, BufFree
<1>3. CASE ReadEmpty
  BY <1>1, <1>3 DEF ReadEmpty, ringVars, epVars, isrVars, history
<1>4. CASE ReadByte
  BY <1>4, IntactRead
<1>5. CASE TakeByte
  <2>1. UNCHANGED <<nak, isr, buf, i, got, sent, dropped>>
    BY <1>5 DEF TakeByte, epVars, isrVars, history
  <2>2. Unread' = Unread /\ Pending' = Pending
    BY <1>5, <2>1, TakeKeeps DEF Pending
  <2>3. Stream' = Stream
    BY <2>1, <2>2 DEF Stream
  <2> QED BY <2>1, <2>3 DEF IntactInv, BufFree
<1>6. ASSUME NEW n \in 0 .. PacketSize, HostOut(n) PROVE IntactInv'
  BY <1>6, IntactHostOut
<1>7. CASE OtherEndpoint \/ Deconfigure
  BY <1>1, <1>7 DEF OtherEndpoint, Deconfigure, ringVars, epVars, isrVars, callVars, history
<1>8. CASE BusReset
  <2>1. call = "idle"
    BY <1>8 DEF BusReset
  <2> QED BY <1>8, <2>1, IntactReset
<1>9. CASE Configure
  <2>1. i = 0 /\ i' = i /\ dropped' = dropped + Len(buf) /\ dropped \in Nat
        /\ Len(buf) \in Nat
    BY <1>9 DEF Configure, isrVars, TypeInv, TypeOK, CopyOwned
  <2>2. buf' = <<>> /\ UNCHANGED <<ringVars, callVars, sent, got>>
    BY <1>9 DEF Configure
  <2>3. dropped' = dropped + Len(buf) - i
    BY <2>1
  <2> QED BY <2>1, <2>2, <2>3, IntactDrop
<1>10. CASE Ep2Service
  BY <1>1, <1>10 DEF Ep2Service, CopyOwned, TypeInv, ringVars, callVars, history, TypeOK
<1>11. CASE CopyByte
  BY <1>11, IntactCopy
<1>12. CASE CopyEnd
  BY <1>12, IntactDrop DEF CopyEnd
<1>13. CASE Ep2Arm
  <2>1. /\ UNCHANGED <<ring, head, tail, call, buf, i, got, sent, dropped>>
        /\ isr = "arm"
    BY <1>13 DEF Ep2Arm, ringVars, callVars, history
  <2>2. Unread' = Unread /\ Pending' = Pending
    BY <2>1, UnreadIs DEF Pending
  <2>3. Stream' = Stream
    BY <2>1, <2>2 DEF Stream
  <2> QED BY <2>1, <2>3 DEF IntactInv, BufFree
<1>14. CASE AckTrncompl
  BY <1>1, <1>14 DEF AckTrncompl, ringVars, epVars, callVars, history
<1>15. CASE UNCHANGED vars
  BY <1>1, <1>15 DEF vars, ringVars, epVars, isrVars, callVars, history
<1> QED
  BY <1>2, <1>3, <1>4, <1>5, <1>6, <1>7, <1>8, <1>9, <1>10, <1>11, <1>12, <1>13,
     <1>14, <1>15
     DEF Next, Sketch, Bus, Handler

\* What the sketch has read, what waits in the ring and what waits in the
\* packet buffer are the host's bytes in the host's order, none twice, and
\* those missing are the ones the overflow or SET_CONFIGURATION threw away:
\* for every ring and packet size, as long as no bus reset interrupts a call.
THEOREM IntactCorrect ==
  ASSUME ~ResetMidCall
  PROVE  Spec => []RxIntact
<1>1. TypeOK /\ PromiseInv /\ [Next]_vars => PromiseInv'
  BY PromiseStep
<1>2. TypeInv /\ PromiseInv /\ IntactInv /\ [Next]_vars => IntactInv'
  BY IntactStep
<1>3. TypeInv => TypeOK
  BY DEF TypeInv
<1>4. IntactInv => RxIntact
  BY DEF IntactInv, Intact, RxIntact
<1> QED BY <1>1, <1>2, <1>3, <1>4, PromiseInit, IntactInit, TypeInit, TypeStep, PTL DEF Spec

-----------------------------------------------------------------------------
(* Lost bytes.                                                             *)

\* A byte that has arrived is thrown away only out of a packet that meets a
\* completely full ring, or when SET_CONFIGURATION forgets the packet: for
\* every ring and packet size, whatever the host and the sketch do.
THEOREM DropsCorrect == Spec => DropsOnlyWhenFull
<1> DEFINE Lost == dropped' > dropped => Used = RingSize - 1 \/ cuts' > cuts
<1>1. TypeOK /\ [Next]_vars => [Lost]_vars
  <2> SUFFICES ASSUME TypeOK, [Next]_vars, dropped' > dropped
               PROVE  Used = RingSize - 1 \/ cuts' > cuts
    OBVIOUS
  <2>1. dropped \in Nat /\ cuts \in Nat /\ dropped' # dropped /\ dropped' # 0
    BY DEF TypeOK
  <2>2. CASE CopyEnd
    <3>1. Full(tail, head)
      BY <2>1, <2>2 DEF CopyEnd, TypeOK
    <3> QED BY <3>1, RingSizeAssumption DEF Full, Adv, Span, Used, Slot, TypeOK
  <2>3. CASE Configure \/ BusReset \/ Deconfigure
    BY <2>1, <2>3 DEF Configure, BusReset, Deconfigure
  <2>4. CASE Sketch
    BY <2>1, <2>4
       DEF Sketch, AvailableHead, AvailableTail, ReadEmpty, ReadByte, TakeByte, history
  <2>5. CASE OtherEndpoint \/ \E n \in 0 .. PacketSize : HostOut(n)
    BY <2>1, <2>5 DEF OtherEndpoint, HostOut, history
  <2>6. CASE Ep2Service \/ CopyByte \/ Ep2Arm \/ AckTrncompl
    BY <2>1, <2>6 DEF Ep2Service, CopyByte, Ep2Arm, AckTrncompl, history
  <2>7. CASE UNCHANGED vars
    BY <2>1, <2>7 DEF vars, history
  <2> QED BY <2>2, <2>3, <2>4, <2>5, <2>6, <2>7 DEF Next, Bus, Handler
<1>2. TypeInv => TypeOK
  BY DEF TypeInv
<1> QED BY <1>1, <1>2, TypeInit, TypeStep, PTL DEF Spec, DropsOnlyWhenFull

-----------------------------------------------------------------------------
(* The port implements the abstract FIFO.                                  *)

\* The bytes of a packet are bytes the host sent, and the host sends no more
\* than the bound admits.
BytesInv == sent <= MaxBytes /\ \A k \in 1 .. Len(buf) : buf[k] \in 1 .. sent

LEMMA BytesStep == TypeInv /\ BytesInv /\ [Next]_vars => BytesInv'
<1> SUFFICES ASSUME TypeInv, BytesInv, [Next]_vars PROVE BytesInv'
  OBVIOUS
<1> USE DEF ringVars, epVars, isrVars, callVars, history
<1>1. CASE UNCHANGED <<sent, buf>>
  BY <1>1 DEF BytesInv
<1>2. CASE buf' = <<>> /\ (sent' = sent \/ sent' = 0)
  <2>1. Len(buf') = 0
    BY <1>2, NoBytes
  <2> QED BY <1>2, <2>1, RxAssumption DEF BytesInv
<1>3. ASSUME NEW n \in 0 .. PacketSize, HostOut(n) PROVE BytesInv'
  <2>1. buf' = [k \in 1 .. n |-> sent + k] /\ sent' = sent + n /\ sent + n <= MaxBytes
    BY <1>3 DEF HostOut
  <2>2. n \in Nat /\ sent \in Nat
    BY RxAssumption DEF TypeInv, TypeOK
  <2>3. Len(buf') = n
    <3>1. \A k \in 1 .. n : sent + k \in Nat
      BY <2>2
    <3> QED BY <2>1, <2>2, <3>1, IsASeq
  <2> QED BY <2>1, <2>2, <2>3 DEF BytesInv
<1>4. CASE Sketch
  BY <1>1, <1>4 DEF Sketch, AvailableHead, AvailableTail, ReadEmpty, ReadByte, TakeByte
<1>5. CASE BusReset \/ Configure
  BY <1>2, <1>5 DEF BusReset, Configure
<1>6. CASE OtherEndpoint \/ Deconfigure
  BY <1>1, <1>6 DEF OtherEndpoint, Deconfigure
<1>7. CASE CopyEnd
  BY <1>2, <1>7 DEF CopyEnd
<1>8. CASE Ep2Service \/ CopyByte \/ Ep2Arm \/ AckTrncompl
  BY <1>1, <1>8 DEF Ep2Service, CopyByte, Ep2Arm, AckTrncompl
<1>9. CASE UNCHANGED vars
  BY <1>1, <1>9 DEF vars
<1> QED BY <1>3, <1>4, <1>5, <1>6, <1>7, <1>8, <1>9 DEF Next, Bus, Handler

\* Only the copy, the read and the bus reset touch the unread bytes.
LEMMA PipeStutter ==
  ASSUME TypeInv, TakeValid, [Next]_vars, ~CopyByte, ~ReadByte, ~BusReset
  PROVE  UNCHANGED Pipe!pipeVars
<1> SUFFICES Unread' = Unread /\ got' = got
  BY DEF Pipe!pipeVars
<1> USE DEF ringVars, epVars, isrVars, callVars, history
<1>1. CASE UNCHANGED <<ring, head, tail, call, got>>
  BY <1>1, UnreadIs
<1>2. CASE AvailableHead \/ AvailableTail
  <2>1. UNCHANGED <<ring, head, tail, got>> /\ call # "take" /\ call' # "take"
    BY <1>2 DEF AvailableHead, AvailableTail
  <2> QED BY <2>1, UnreadIs DEF UnreadOf
<1>3. CASE TakeByte
  BY <1>3, TakeKeeps DEF TakeByte
<1>4. CASE ReadEmpty
  BY <1>1, <1>4 DEF ReadEmpty
<1>5. CASE OtherEndpoint \/ Configure \/ Deconfigure \/ \E n \in 0 .. PacketSize : HostOut(n)
  BY <1>1, <1>5 DEF OtherEndpoint, Configure, Deconfigure, HostOut
<1>6. CASE Ep2Service \/ CopyEnd \/ Ep2Arm \/ AckTrncompl
  BY <1>1, <1>6 DEF Ep2Service, CopyEnd, Ep2Arm, AckTrncompl
<1>7. CASE UNCHANGED vars
  BY <1>1, <1>7 DEF vars
<1> QED BY <1>2, <1>3, <1>4, <1>5, <1>6, <1>7 DEF Next, Sketch, Bus, Handler

\* A turn of the copy loop accepts a byte.
LEMMA PipeAccept ==
  ASSUME TypeInv, TakeValid, BytesInv, CopyByte
  PROVE  Pipe!Next
<1> DEFINE b == buf[i + 1]
<1>1. Unread' = Append(Unread, b) /\ Len(Unread) < RingSize - 1 /\ i + 1 \in 1 .. Len(buf)
  BY CopyAppends
<1>2. b \in 1 .. MaxBytes
  <2>1. b \in 1 .. sent /\ sent <= MaxBytes /\ sent \in Nat
    BY <1>1 DEF BytesInv, TypeInv, TypeOK
  <2> HIDE DEF b
  <2> QED BY <2>1, RxAssumption
<1>3. got' = got
  BY DEF CopyByte, history
<1> QED BY <1>1, <1>2, <1>3 DEF Pipe!Next, Pipe!Accept

\* The load of the oldest byte delivers it.
LEMMA PipeDeliver ==
  ASSUME TypeInv, ReadByte
  PROVE  Pipe!Next
<1> DEFINE b == ring[tail]
           u == Unread'
<1>1. b \in Nat /\ Unread = <<b>> \o u /\ u \in Seq(Nat)
  BY ReadTakes
<1>2. got' = Append(got, b) /\ got \in Seq(Nat)
  BY DEF ReadByte, TypeInv, TypeOK
<1> HIDE DEF b, u
<1>3. <<b>> \in Seq(Nat) /\ Len(<<b>>) = 1 /\ Len(u) \in Nat
  BY <1>1
<1>4. Len(Unread) = 1 + Len(u) /\ Unread \in Seq(Nat)
  BY <1>1, <1>3, ConcatProperties
<1>5. SubSeq(Unread, 1, 1) = <<b>>
  <2>1. 1 \in 1 .. Len(<<b>>)
    BY <1>3
  <2>2. SubSeq(<<b>> \o u, 1, 1) = SubSeq(<<b>>, 1, 1)
    BY <1>1, <1>3, <2>1, SubSeqOfConcat1
  <2>3. SubSeq(<<b>>, 1, 1) = <<b>>
    BY <1>3, SubSeqFull
  <2> QED BY <1>1, <2>2, <2>3
<1>6. SubSeq(Unread, 1 + 1, Len(Unread)) = u
  <2> DEFINE m == Len(u)
  <2>1. CASE m = 0
    <3>1. u = <<>> /\ Len(Unread) = 1
      BY <1>1, <1>4, <2>1, EmptySeq
    <3> QED BY <3>1, SubSeqEmpty
  <2>2. CASE m # 0
    <3>1. 1 + 1 \in 1 + 1 .. 1 + m /\ 1 + m \in 1 + 1 .. 1 + m
      BY <1>3, <2>2
    <3>2. SubSeq(<<b>> \o u, 1 + 1, 1 + m) = SubSeq(u, 1 + 1 - 1, 1 + m - 1)
      BY <1>1, <1>3, <3>1, SubSeqOfConcat2
    <3>3. 1 + 1 - 1 = 1 /\ 1 + m - 1 = m
      BY <1>3
    <3>4. SubSeq(u, 1, Len(u)) = u
      BY <1>1, SubSeqFull
    <3> QED BY <1>1, <1>4, <3>2, <3>3, <3>4
  <2> QED BY <2>1, <2>2
<1>7. got \o <<b>> = Append(got, b)
  BY <1>1, <1>2, AppendIsConcat
<1>8. Pipe!Deliver(1)
  <2>1. got' = got \o SubSeq(Unread, 1, 1)
    BY <1>2, <1>5, <1>7
  <2>2. Unread' = SubSeq(Unread, 1 + 1, Len(Unread))
    BY <1>6 DEF u
  <2> QED BY <2>1, <2>2 DEF Pipe!Deliver
<1>9. 1 \in 1 .. Len(Unread)
  BY <1>3, <1>4
<1> QED BY <1>8, <1>9 DEF Pipe!Next

\* A bus reset between two calls cuts everything.
LEMMA PipeCut ==
  ASSUME TypeInv, TakeValid, BusReset, call = "idle"
  PROVE  Pipe!Next
<1> DEFINE l == Len(Unread)
<1>1. Unread \in Seq(Nat) /\ l \in Nat
  BY StreamParts DEF TypeInv
<1>2. Unread' = <<>> /\ got' = <<>>
  BY ResetEmpties DEF BusReset
<1>3. SubSeq(Unread, l + 1, l) = <<>>
  <2> HIDE DEF l
  <2> QED BY <1>1, SubSeqEmpty
<1>4. Pipe!Cut(l) /\ l \in 0 .. Len(Unread)
  BY <1>1, <1>2, <1>3 DEF Pipe!Cut
<1> QED BY <1>4 DEF Pipe!Next

\* If no bus reset interrupts usbCdcRead(), the ring side of the port implements
\* the bounded FIFO of BytePipe: the copy loop of the completion handler
\* accepts a byte, the load of the oldest byte delivers it, a bus reset cuts
\* the stream, and neither the store of g_rx_tail nor the drop of a packet's
\* rest disturbs what waits.
THEOREM PipeCorrect ==
  ASSUME ~ResetMidCall
  PROVE  Spec => IsBytePipe
<1>1. TypeOK /\ PromiseInv /\ [Next]_vars => PromiseInv'
  BY PromiseStep
<1>2. TypeInv => TypeOK
  BY DEF TypeInv
<1>3. Init => BytesInv
  BY NoBytes, RxAssumption DEF Init, BytesInv
<1>4. Init => Pipe!Init
  <2> SUFFICES ASSUME Init PROVE Pipe!Init
    OBVIOUS
  <2>1. Used = 0 /\ call = "idle" /\ got = <<>>
    BY DEF Init, Used, Span
  <2>2. Unread = <<>>
    BY <2>1 DEF Unread, RingSeq
  <2> QED BY <2>1, <2>2 DEF Pipe!Init
<1>5. TypeInv /\ PromiseInv /\ BytesInv /\ [Next]_vars => [Pipe!Next]_(Pipe!pipeVars)
  <2> SUFFICES ASSUME TypeInv, TakeValid, BytesInv, [Next]_vars
               PROVE  [Pipe!Next]_(Pipe!pipeVars)
    BY DEF PromiseInv
  <2>1. BusReset => call = "idle"
    BY DEF BusReset
  <2> QED BY <2>1, PipeStutter, PipeAccept, PipeDeliver, PipeCut
<1> QED BY <1>1, <1>2, <1>3, <1>4, <1>5, BytesStep, PromiseInit, TypeInit, TypeStep, PTL
        DEF Spec, IsBytePipe, Pipe!Spec
=============================================================================
