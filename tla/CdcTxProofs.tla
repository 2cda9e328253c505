---------------------------- MODULE CdcTxProofs -----------------------------
(***************************************************************************)
(* CdcTx, for every ring size, packet size and bound: its types, the       *)
(* agreement of g_tx_in_flight with endpoint 3, the integrity of the byte  *)
(* stream from tx_ring_put() to the host, the packet that is armed and the *)
(* one that ends a transfer, and that all of it implements BytePipe.       *)
(***************************************************************************)
EXTENDS CdcTx, ByteRingProofs, SequenceTheorems

-----------------------------------------------------------------------------
(* Types.                                                                  *)

\* TypeOK is not inductive: CommitByte decrements todo, which is positive
\* because PutByte left it so.
TypeInv == TypeOK /\ (call = "commit" => todo > 0)

\* The empty packet is a packet.
LEMMA NoBytes == <<>> \in Seq(Nat) /\ Len(<<>>) = 0
OBVIOUS

\* The pump keeps the types of what it changes.
LEMMA PumpTypes ==
  ASSUME TypeOK, NEW busy \in BOOLEAN, Pump(busy)
  PROVE  /\ tail' \in Slot /\ pkt' \in Seq(Nat) /\ Len(pkt') <= PacketSize
         /\ nak' \in BOOLEAN /\ inFlight' \in BOOLEAN /\ lastFull' \in BOOLEAN
<1>1. CASE PumpReady(busy) /\ Arm
  <2> DEFINE n == IF Used < PacketSize THEN Used ELSE PacketSize
  <2>0. Used \in 0 .. RingSize - 1
    BY SpanRange, RingSizeAssumption DEF TypeOK, Used
  <2>1. n \in Nat /\ n <= PacketSize /\ n \in 0 .. RingSize
    <3> HIDE DEF Used
    <3> QED BY <2>0, RingSizeAssumption, TxAssumption
  <2>2. \A i \in 1 .. n : Adv(tail, i - 1) \in Slot
    <3> SUFFICES ASSUME NEW i \in 1 .. n PROVE Adv(tail, i - 1) \in Slot
      OBVIOUS
    <3>1. i - 1 \in 0 .. RingSize /\ tail \in Slot
      BY <2>1, RingSizeAssumption DEF TypeOK
    <3> HIDE DEF n
    <3> QED BY <3>1, AdvInSlot
  <2>3. pkt' = [i \in 1 .. n |-> ring[Adv(tail, i - 1)]]
    BY <1>1 DEF Arm
  <2> HIDE DEF n
  <2>4. \A i \in 1 .. n : ring[Adv(tail, i - 1)] \in Nat
    BY <2>2 DEF TypeOK
  <2>5. pkt' \in Seq(Nat) /\ Len(pkt') = n
    BY <2>1, <2>3, <2>4, IsASeq
  <2>6. tail' = Adv(tail, n)
    BY <1>1 DEF Arm, n
  <2>7. tail' \in Slot
    BY <2>1, <2>6, AdvInSlot DEF TypeOK
  <2> QED BY <1>1, <2>1, <2>5, <2>7 DEF Arm
<1>2. CASE ~PumpReady(busy) /\ inFlight' = busy /\ UNCHANGED <<pkt, tail, nak, lastFull>>
  BY <1>2 DEF TypeOK
<1> QED BY <1>1, <1>2 DEF Pump

\* The initial state is well typed.
LEMMA TypeInit == Init => TypeInv
<1> SUFFICES ASSUME Init PROVE TypeInv
  OBVIOUS
<1>1. pkt \in Seq(Nat) /\ Len(pkt) <= PacketSize /\ got \in Seq(Nat)
  BY TxAssumption, NoBytes DEF Init
<1>2. 0 \in Slot /\ ring \in [Slot -> Nat]
  BY RingSizeAssumption DEF Init, Slot
<1> QED BY <1>1, <1>2 DEF Init, TypeInv, TypeOK

\* Every step keeps the types.
LEMMA TypeStep == TypeInv /\ [Next]_vars => TypeInv'
<1> SUFFICES ASSUME TypeInv, [Next]_vars PROVE TypeInv'
  OBVIOUS
<1> USE DEF TypeInv
<1> USE DEF ringVars, flags, devVars, epVars, intVars, callVars, history
<1>1. ASSUME NEW len \in 1 .. MaxBytes, WriteCall(len) PROVE TypeInv'
  BY <1>1, TxAssumption DEF WriteCall, TypeOK
<1>2. CASE PutByte
  <2>1. next' \in Slot
    BY <1>2, AdvInSlot, RingSizeAssumption DEF PutByte, TypeOK
  <2>2. ring' \in [Slot -> Nat]
    BY <1>2 DEF PutByte, TypeOK
  <2> QED BY <1>2, <2>1, <2>2 DEF PutByte, TypeOK
<1>3. CASE CommitByte
  BY <1>3 DEF CommitByte, TypeOK
<1>4. CASE PutEnd
  BY <1>4 DEF PutEnd, TypeOK
<1>5. CASE Kick
  BY <1>5, PumpTypes DEF Kick, TypeOK
<1>6. CASE Poll
  BY <1>6, PumpTypes DEF Poll, TypeOK
<1>7. CASE FlushCall \/ FlushGivesUp \/ FlushSeesNoFlight \/ FlushReadsRing
  <2>1. call' \in {"idle", "flush", "flushRing"}
    BY <1>7 DEF FlushCall, FlushGivesUp, FlushSeesNoFlight, FlushReadsRing
  <2>2. UNCHANGED <<ringVars, flags, devVars, epVars, intVars, history, todo,
                    put, next>>
    BY <1>7 DEF FlushCall, FlushGivesUp, FlushSeesNoFlight, FlushReadsRing
  <2> QED BY <2>1, <2>2 DEF TypeOK
<1>8. CASE HostIn
  <2>1. got' \in Seq(Nat)
    BY <1>8, ConcatProperties DEF HostIn, TypeOK
  <2> QED BY <1>8, <2>1 DEF HostIn, TypeOK
<1>9. CASE OtherEndpoint \/ AckTrncompl
  <2>1. irq' \in BOOLEAN
    BY <1>9, Zenon DEF OtherEndpoint, AckTrncompl
  <2>2. isr' \in {"off", "ack"}
    BY <1>9 DEF OtherEndpoint, AckTrncompl, TypeOK
  <2>3. UNCHANGED <<ringVars, flags, devVars, epVars, callVars, history>>
    BY <1>9 DEF OtherEndpoint, AckTrncompl
  <2> QED BY <2>1, <2>2, <2>3 DEF TypeOK
<1>17. CASE ControlLineState
  <2>1. dtr' \in BOOLEAN
    BY <1>17, Zenon DEF ControlLineState
  <2> QED BY <1>17, <2>1 DEF ControlLineState, TypeOK
<1>10. CASE Ep3Done
  <2>1. CASE trn /\ Pump(FALSE)
    BY <1>10, <2>1, PumpTypes DEF Ep3Done, TypeOK
  <2>2. CASE ~trn /\ UNCHANGED <<flags, pkt, tail, nak>>
    <3>1. trn' \in BOOLEAN /\ isr' \in {"off", "ack"}
      BY <1>10 DEF Ep3Done
    <3>2. UNCHANGED <<flags, pkt, tail, nak, devVars, callVars, history, ring, head, irq>>
      BY <1>10, <2>2 DEF Ep3Done
    <3> QED BY <3>1, <3>2 DEF TypeOK
  <2> QED BY <1>10, <2>1, <2>2 DEF Ep3Done
<1>11. CASE SofPump
  <2>1. /\ tail' \in Slot /\ pkt' \in Seq(Nat) /\ Len(pkt') <= PacketSize
        /\ nak' \in BOOLEAN /\ inFlight' \in BOOLEAN /\ lastFull' \in BOOLEAN
    BY <1>11, PumpTypes DEF SofPump, TypeOK
  <2>2. UNCHANGED <<devVars, intVars, callVars, history, ring, head, trn>>
    BY <1>11 DEF SofPump
  <2> QED BY <2>1, <2>2 DEF TypeOK
<1>12. CASE SofZlp
  <2>1. pkt' \in Seq(Nat) /\ Len(pkt') <= PacketSize
    BY <1>12, TxAssumption, NoBytes DEF SofZlp
  <2> QED BY <1>12, <2>1 DEF SofZlp, TypeOK
<1>13. CASE BusReset
  <2>1. pkt' \in Seq(Nat) /\ Len(pkt') <= PacketSize /\ got' \in Seq(Nat)
    BY <1>13, TxAssumption, NoBytes DEF BusReset
  <2>2. 0 \in Slot
    BY RingSizeAssumption DEF Slot
  <2>3. UNCHANGED <<ring, intVars, callVars>>
    BY <1>13 DEF BusReset
  <2>4. cuts' = cuts + 1 /\ cfg' = 0 /\ head' = 0 /\ tail' = 0
    BY <1>13 DEF BusReset
  <2>5. written' = 0 /\ base' = 0
    BY <1>13 DEF BusReset
  <2>6. /\ inFlight' \in BOOLEAN /\ lastFull' \in BOOLEAN /\ dtr' \in BOOLEAN
        /\ nak' \in BOOLEAN /\ trn' \in BOOLEAN /\ open' \in BOOLEAN
    BY <1>13 DEF BusReset
  <2> QED BY <2>1, <2>2, <2>3, <2>4, <2>5, <2>6 DEF TypeOK
<1>14. CASE Configure
  <2>1. pkt' \in Seq(Nat) /\ Len(pkt') <= PacketSize /\ got' \in Seq(Nat)
    BY <1>14, TxAssumption, NoBytes DEF Configure
  <2>2. base' \in Nat
    <3>1. Len(got) \in Nat /\ Len(pkt) \in Nat
      BY LenProperties DEF TypeOK
    <3>2. base' = base + Len(got) + Outstanding
      BY <1>14 DEF Configure
    <3>3. Outstanding \in Nat
      BY <3>1 DEF Outstanding
    <3> QED BY <3>1, <3>2, <3>3 DEF TypeOK
  <2>3. UNCHANGED <<ringVars, intVars, callVars, dtr, written>>
    BY <1>14 DEF Configure
  <2>4. cuts' = cuts + 1 /\ cfg' = 1
    BY <1>14 DEF Configure
  <2>5. /\ inFlight' \in BOOLEAN /\ lastFull' \in BOOLEAN
        /\ nak' \in BOOLEAN /\ trn' \in BOOLEAN /\ open' \in BOOLEAN
    BY <1>14 DEF Configure
  <2> QED BY <2>1, <2>2, <2>3, <2>4, <2>5 DEF TypeOK
<1>15. CASE Deconfigure
  BY <1>15 DEF Deconfigure, TypeOK
<1>16. CASE UNCHANGED vars
  BY <1>16 DEF vars, TypeOK
<1> QED BY <1>1, <1>2, <1>3, <1>4, <1>5, <1>6, <1>7, <1>8, <1>9, <1>10, <1>11,
           <1>12, <1>13, <1>14, <1>15, <1>16, <1>17 DEF Next, Sketch, Bus, Handler

\* Every variable keeps the type of the C object it stands for, for every ring
\* and packet size: the ring indices never leave 0..RingSize-1 and no packet
\* exceeds the endpoint size.
THEOREM TypeCorrect == Spec => []TypeOK
<1>1. TypeInv => TypeOK BY DEF TypeInv
<1> QED BY <1>1, TypeInit, TypeStep, PTL DEF Spec

-----------------------------------------------------------------------------
(* The flag and the hardware.                                              *)

\* FlightOwned needs to know why no completion is forgotten: a completed
\* transaction has its interrupt pending, and the handler that is about to
\* clear INTFLAGSB.TRNCOMPL has already serviced endpoint 3.
FlightInv ==
  /\ FlightOwned
  /\ trn => irq /\ nak /\ inFlight
  /\ isr = "ack" => ~trn

\* The pump arms endpoint 3 only together with g_tx_in_flight.
LEMMA PumpFlight ==
  ASSUME NEW busy \in BOOLEAN, Pump(busy)
  PROVE  \/ inFlight' = TRUE /\ nak' = FALSE /\ nak /\ cfg = 1 /\ ~busy
         \/ inFlight' = busy /\ nak' = nak
BY DEF Pump, PumpReady, Arm

\* Every step keeps g_tx_in_flight in agreement with endpoint 3.
LEMMA FlightStep ==
  ASSUME ~AckRace
  PROVE  TypeInv /\ FlightInv /\ [Next]_vars => FlightInv'
<1> SUFFICES ASSUME TypeInv, FlightInv, [Next]_vars PROVE FlightInv'
  OBVIOUS
<1>t. /\ inFlight \in BOOLEAN /\ nak \in BOOLEAN /\ trn \in BOOLEAN
      /\ inFlight' \in BOOLEAN /\ nak' \in BOOLEAN /\ trn' \in BOOLEAN
  BY TypeStep DEF TypeInv, TypeOK
<1> USE DEF FlightInv, FlightOwned
<1> USE DEF ringVars, flags, devVars, epVars, intVars, callVars, history
<1>1. CASE UNCHANGED <<inFlight, cfg, nak, trn, irq, isr>>
  BY <1>1
<1>2. CASE Kick \/ Poll \/ SofPump
  <2>1. Pump(inFlight) /\ UNCHANGED <<cfg, trn, irq, isr>>
    BY <1>2 DEF Kick, Poll, SofPump
  <2>2. CASE inFlight' = TRUE /\ nak' = FALSE /\ nak /\ ~inFlight
    BY <1>t, <2>1, <2>2
  <2>3. CASE inFlight' = inFlight /\ nak' = nak
    BY <1>1, <2>1, <2>3
  <2> QED BY <1>t, <2>1, <2>2, <2>3, PumpFlight
<1>3. CASE Ep3Done
  <2>1. CASE ~trn /\ UNCHANGED <<flags, pkt, tail, nak>>
    BY <1>t, <1>3, <2>1 DEF Ep3Done
  <2>2. CASE trn /\ inFlight' = TRUE /\ nak' = FALSE
    BY <1>t, <1>3, <2>2 DEF Ep3Done
  <2>3. CASE trn /\ inFlight' = FALSE /\ nak' = nak
    BY <1>t, <1>3, <2>3 DEF Ep3Done
  <2> QED BY <1>3, <2>1, <2>2, <2>3, PumpFlight DEF Ep3Done
<1>4. CASE HostIn
  BY <1>4 DEF HostIn
<1>5. CASE OtherEndpoint
  BY <1>5 DEF OtherEndpoint
<1>6. CASE AckTrncompl
  BY <1>6 DEF AckTrncompl
<1>7. CASE SofZlp
  BY <1>7 DEF SofZlp
<1>8. CASE BusReset \/ Configure \/ Deconfigure
  BY <1>8 DEF BusReset, Configure, Deconfigure
<1>9. CASE \/ \E len \in 1 .. MaxBytes : WriteCall(len)
           \/ PutByte \/ CommitByte \/ PutEnd
           \/ FlushCall \/ FlushGivesUp \/ FlushSeesNoFlight \/ FlushReadsRing
           \/ ControlLineState \/ UNCHANGED vars
  BY <1>1, <1>9 DEF WriteCall, PutByte, CommitByte, PutEnd, FlushCall, FlushGivesUp,
     FlushSeesNoFlight, FlushReadsRing, ControlLineState, vars
<1> QED BY <1>2, <1>3, <1>4, <1>5, <1>6, <1>7, <1>8, <1>9
        DEF Next, Sketch, Bus, Handler

\* If endpoint 3 cannot complete between its check in usb_service_trncompl()
\* and the write that clears INTFLAGSB.TRNCOMPL, then an armed packet is always
\* in flight, and a packet in flight on a configured device is armed or has its
\* completion interrupt pending.
THEOREM FlightCorrect ==
  ASSUME ~AckRace
  PROVE  Spec => []FlightOwned
<1>1. Init => FlightInv
  BY DEF Init, FlightInv, FlightOwned
<1>2. TypeInv /\ FlightInv /\ [Next]_vars => FlightInv'
  BY FlightStep
<1>3. FlightInv => FlightOwned
  BY DEF FlightInv
<1> QED BY <1>1, <1>2, <1>3, TypeInit, TypeStep, PTL DEF Spec

-----------------------------------------------------------------------------
(* The byte stream.                                                        *)

\* Between PutByte and CommitByte the slot at the write index already holds
\* the next byte of the stream and next is the index after it.
CommitInv ==
  call = "commit" =>
    /\ next = Adv(head, 1)
    /\ Used < RingSize - 1
    /\ ring[head] = written + 1

StreamInv == StreamIntact /\ CommitInv

\* Lengths and index ranges of the byte sequences.
LEMMA SeqFacts ==
  ASSUME TypeOK
  PROVE  /\ Len(got) \in Nat /\ DOMAIN got = 1 .. Len(got)
         /\ Len(pkt) \in Nat /\ DOMAIN pkt = 1 .. Len(pkt)
         /\ Used \in 0 .. RingSize - 1
         /\ Outstanding \in Nat
<1>1. /\ Len(got) \in Nat /\ DOMAIN got = 1 .. Len(got)
      /\ Len(pkt) \in Nat /\ DOMAIN pkt = 1 .. Len(pkt)
  BY LenProperties DEF TypeOK
<1>2. Used \in 0 .. RingSize - 1
  BY SpanRange DEF TypeOK, Used
<1>3. Outstanding \in Nat
  BY <1>1 DEF Outstanding
<1> QED BY <1>1, <1>2, <1>3

\* The fields of the stream that a step may leave alone.
LEMMA StreamFrame ==
  ASSUME StreamIntact,
         UNCHANGED <<ring, head, tail, nak, pkt, written, base, got>>
  PROVE  StreamIntact' /\ Used' = Used
BY DEF StreamIntact, HostBytes, PacketBytes, RingBytes, Conserved, Used, Outstanding

\* The pump moves the oldest n bytes of the ring into the packet, in order.
LEMMA ArmStream ==
  ASSUME TypeOK, StreamIntact, nak, Arm, UNCHANGED <<ring, head, written, base, got>>
  PROVE  StreamIntact' /\ Used' <= Used
<1> DEFINE n == IF Used < PacketSize THEN Used ELSE PacketSize
<1>1. n \in Nat /\ n <= Used /\ n \in 0 .. RingSize
  BY SeqFacts, RingSizeAssumption, TxAssumption
<1>2. pkt' = [i \in 1 .. n |-> ring[Adv(tail, i - 1)]] /\ tail' = Adv(tail, n)
  BY DEF Arm
<1>n. nak' = FALSE
  BY DEF Arm
<1> HIDE DEF n
<1>3. tail \in Slot /\ head \in Slot /\ Used \in 0 .. RingSize - 1
      /\ written \in Nat /\ base \in Nat /\ Len(got) \in Nat
  BY SeqFacts DEF TypeOK
<1>4. written - Used = base + Len(got)
  BY <1>3 DEF StreamIntact, Conserved, Outstanding
<1>5. Used' = Used - n
  <2>1. n \in 0 .. Span(tail, head)
    BY <1>1, <1>3 DEF Used
  <2> QED BY <1>2, <1>3, <2>1, SpanAfterTake DEF Used
<1>6. DOMAIN pkt' = 1 .. n /\ Len(pkt') = n
  <2>1. \A i \in 1 .. n : ring[Adv(tail, i - 1)] \in Nat
    <3> SUFFICES ASSUME NEW i \in 1 .. n PROVE ring[Adv(tail, i - 1)] \in Nat
      OBVIOUS
    <3>1. i - 1 \in 0 .. RingSize
      BY <1>1, RingSizeAssumption
    <3> QED BY <1>3, <3>1, AdvInSlot DEF TypeOK
  <2> QED BY <1>1, <1>2, <2>1, IsASeq
<1>7. \A i \in 1 .. n : pkt'[i] = base + Len(got) + i
  <2> SUFFICES ASSUME NEW i \in 1 .. n PROVE pkt'[i] = base + Len(got) + i
    OBVIOUS
  <2>1. i - 1 \in 0 .. RingSize - 1 /\ i - 1 < Used
    BY <1>1, <1>3, RingSizeAssumption
  <2>2. ring[Adv(tail, i - 1)] = written - Used + (i - 1) + 1
    BY <2>1 DEF StreamIntact, RingBytes
  <2> QED BY <1>1, <1>2, <1>3, <1>4, <2>2
<1>8. HostBytes'
  BY DEF StreamIntact, HostBytes
<1>9. PacketBytes'
  BY <1>6, <1>7 DEF PacketBytes
<1>10. RingBytes'
  <2> SUFFICES ASSUME NEW k \in 0 .. RingSize - 1, k < Used'
               PROVE  ring[Adv(tail', k)] = written - Used' + k + 1
    BY DEF RingBytes
  <2>1. n + k \in 0 .. RingSize - 1 /\ n + k < Used /\ k \in 0 .. RingSize
    BY <1>1, <1>3, <1>5, RingSizeAssumption
  <2>2. Adv(tail', k) = Adv(tail, n + k)
    <3>1. n \in 0 .. RingSize /\ n + k <= RingSize
      BY <1>1, <1>3, <2>1, RingSizeAssumption
    <3> QED BY <1>2, <1>3, <2>1, <3>1, AdvAdd
  <2>3. ring[Adv(tail, n + k)] = written - Used + (n + k) + 1
    BY <2>1 DEF StreamIntact, RingBytes
  <2> QED BY <1>1, <1>3, <1>5, <2>2, <2>3
<1>11. Conserved'
  <2>1. Outstanding' = n
    BY <1>6, <1>n DEF Outstanding
  <2> QED BY <1>1, <1>3, <1>4, <1>5, <2>1 DEF Conserved
<1> QED BY <1>1, <1>3, <1>5, <1>8, <1>9, <1>10, <1>11 DEF StreamIntact

\* The pump, armed or not, keeps the stream intact.
LEMMA PumpStream ==
  ASSUME TypeOK, StreamIntact, NEW busy, Pump(busy),
         UNCHANGED <<ring, head, written, base, got>>
  PROVE  StreamIntact' /\ Used' <= Used
<1>1. CASE PumpReady(busy) /\ Arm
  BY <1>1, ArmStream DEF PumpReady
<1>2. CASE UNCHANGED <<pkt, tail, nak, lastFull>>
  BY <1>2, StreamFrame, SeqFacts
<1> QED BY <1>1, <1>2 DEF Pump

\* Writing the free slot leaves the bytes of the ring alone.
LEMMA PutByteStream ==
  ASSUME TypeOK, StreamInv, PutByte
  PROVE  StreamInv'
<1>1. /\ next' = Adv(head, 1) /\ ring' = [ring EXCEPT ![head] = written + 1]
      /\ UNCHANGED <<head, tail, nak, pkt, written, base, got>>
      /\ ~Full(tail, head)
  BY DEF PutByte, epVars, history
<1>2. /\ ring \in [Slot -> Nat] /\ tail \in Slot /\ head \in Slot
      /\ Used \in 0 .. RingSize - 1
  BY SeqFacts DEF TypeOK
<1>3. Used' = Used /\ Outstanding' = Outstanding
  BY <1>1 DEF Used, Outstanding
<1>4. HostBytes' /\ PacketBytes' /\ Conserved'
  BY <1>1, <1>3 DEF StreamInv, StreamIntact, HostBytes, PacketBytes, Conserved
<1>5. RingBytes'
  <2> SUFFICES ASSUME NEW k \in 0 .. RingSize - 1, k < Used
               PROVE  ring'[Adv(tail, k)] = written - Used + k + 1
    BY <1>1, <1>3 DEF RingBytes
  <2>1. Adv(tail, Used) = head
    BY <1>2, SpanRange DEF Used
  <2>2. Adv(tail, k) # head
    BY <1>2, <2>1, AdvInjective
  <2>3. Adv(tail, k) \in Slot
    <3>1. k \in 0 .. RingSize
      BY RingSizeAssumption
    <3> QED BY <1>2, <3>1, AdvInSlot
  <2>4. ring[Adv(tail, k)] = written - Used + k + 1
    BY DEF StreamInv, StreamIntact, RingBytes
  <2> QED BY <1>1, <1>2, <2>2, <2>3, <2>4
<1>6. CommitInv'
  <2>1. Used < RingSize - 1
    BY <1>1, <1>2, NotFullHasRoom DEF Used
  <2>2. ring'[head] = written + 1
    BY <1>1, <1>2
  <2> QED BY <1>1, <1>3, <2>1, <2>2 DEF CommitInv
<1> QED BY <1>4, <1>5, <1>6 DEF StreamInv, StreamIntact

\* Publishing g_tx_head appends the new byte to the stream.
LEMMA CommitByteStream ==
  ASSUME TypeOK, StreamInv, CommitByte
  PROVE  StreamInv'
<1>1. /\ head' = Adv(head, 1) /\ written' = written + 1 /\ ring[head] = written + 1
      /\ UNCHANGED <<ring, tail, nak, pkt, base, got>>
      /\ Used < RingSize - 1 /\ call' = "put"
  BY DEF CommitByte, epVars, StreamInv, CommitInv
<1>2. /\ tail \in Slot /\ head \in Slot /\ Used \in 0 .. RingSize - 1
      /\ written \in Nat /\ base \in Nat /\ Len(got) \in Nat /\ Outstanding \in Nat
  BY SeqFacts DEF TypeOK
<1>3. Used' = Used + 1
  BY <1>1, <1>2, SpanAfterPut DEF Used
<1>4. Outstanding' = Outstanding
  BY <1>1 DEF Outstanding
<1>5. HostBytes' /\ PacketBytes'
  BY <1>1 DEF StreamInv, StreamIntact, HostBytes, PacketBytes
<1>6. Conserved'
  BY <1>1, <1>2, <1>3, <1>4 DEF StreamInv, StreamIntact, Conserved
<1>7. RingBytes'
  <2> SUFFICES ASSUME NEW k \in 0 .. RingSize - 1, k < Used + 1
               PROVE  ring[Adv(tail, k)] = written - Used + k + 1
    BY <1>1, <1>2, <1>3 DEF RingBytes
  <2>1. CASE k < Used
    BY <2>1 DEF StreamInv, StreamIntact, RingBytes
  <2>2. CASE k = Used
    <3>1. Adv(tail, k) = head
      BY <1>2, <2>2, SpanRange DEF Used
    <3> QED BY <1>1, <1>2, <2>2, <3>1
  <2> QED BY <1>2, <2>1, <2>2
<1> QED BY <1>1, <1>5, <1>6, <1>7 DEF StreamInv, StreamIntact, CommitInv

\* The host takes the packet that is next in the stream.
LEMMA HostInStream ==
  ASSUME TypeOK, StreamIntact, HostIn
  PROVE  StreamIntact' /\ Used' = Used
<1>1. /\ got' = got \o pkt /\ nak' = TRUE /\ ~nak
      /\ UNCHANGED <<ring, head, tail, pkt, written, base>>
  BY DEF HostIn, ringVars
<1>2. /\ got \in Seq(Nat) /\ pkt \in Seq(Nat) /\ base \in Nat
      /\ Len(got) \in Nat /\ DOMAIN got = 1 .. Len(got)
      /\ Len(pkt) \in Nat /\ DOMAIN pkt = 1 .. Len(pkt)
  BY SeqFacts DEF TypeOK
<1>3. /\ got' \in Seq(Nat) /\ Len(got') = Len(got) + Len(pkt)
      /\ \A i \in 1 .. Len(got) + Len(pkt) :
           got'[i] = IF i <= Len(got) THEN got[i] ELSE pkt[i - Len(got)]
  BY <1>1, <1>2, ConcatProperties
<1>4. DOMAIN got' = 1 .. Len(got) + Len(pkt)
  BY <1>3, LenProperties
<1>5. HostBytes'
  <2> SUFFICES ASSUME NEW i \in 1 .. Len(got) + Len(pkt) PROVE got'[i] = base + i
    BY <1>1, <1>4 DEF HostBytes
  <2>1. CASE i <= Len(got)
    <3>1. i \in DOMAIN got
      BY <1>2, <2>1
    <3>2. got[i] = base + i
      BY <3>1 DEF StreamIntact, HostBytes
    <3> QED BY <1>2, <1>3, <2>1, <3>2
  <2>2. CASE i > Len(got)
    <3>1. i - Len(got) \in 1 .. Len(pkt)
      BY <1>2, <2>2
    <3>2. pkt[i - Len(got)] = base + Len(got) + (i - Len(got))
      BY <1>1, <1>2, <3>1 DEF StreamIntact, PacketBytes
    <3> QED BY <1>2, <1>3, <2>2, <3>2
  <2> QED BY <1>2, <2>1, <2>2
<1>6. Used' = Used
  BY <1>1 DEF Used
<1>7. Outstanding = Len(pkt) /\ Outstanding' = 0
  BY <1>1 DEF Outstanding
<1>8. Conserved'
  BY <1>1, <1>2, <1>3, <1>6, <1>7 DEF StreamIntact, Conserved
<1>9. PacketBytes' /\ RingBytes'
  BY <1>1, <1>6 DEF StreamIntact, PacketBytes, RingBytes
<1> QED BY <1>5, <1>6, <1>8, <1>9 DEF StreamIntact

\* A zero-length packet carries no byte of the stream.
LEMMA SofZlpStream ==
  ASSUME TypeOK, StreamIntact, SofZlp
  PROVE  StreamIntact' /\ Used' = Used
<1>1. nak /\ nak' = FALSE /\ pkt' = <<>>
      /\ UNCHANGED <<ring, head, tail, written, base, got>>
  BY DEF SofZlp, ringVars, history
<1>2. Used' = Used
  BY <1>1 DEF Used
<1>3. Outstanding = 0 /\ Outstanding' = 0
  BY <1>1, NoBytes DEF Outstanding
<1>4. HostBytes' /\ RingBytes' /\ Conserved'
  BY <1>1, <1>2, <1>3 DEF StreamIntact, HostBytes, RingBytes, Conserved
<1>5. PacketBytes'
  <2>1. DOMAIN pkt' = {}
    BY <1>1
  <2> QED BY <2>1 DEF PacketBytes
<1> QED BY <1>2, <1>4, <1>5 DEF StreamIntact

\* A bus reset starts an empty stream.
LEMMA BusResetStream ==
  ASSUME TypeOK, StreamIntact, BusReset
  PROVE  StreamIntact'
<1>1. got' = <<>> /\ nak' = TRUE /\ written' = 0 /\ base' = 0 /\ head' = 0 /\ tail' = 0
  BY DEF BusReset
<1>2. Used' = 0 /\ Outstanding' = 0
  BY <1>1 DEF Used, Outstanding, Span
<1>3. DOMAIN got' = {} /\ Len(got') = 0
  BY <1>1
<1>4. HostBytes' /\ PacketBytes'
  BY <1>1, <1>3 DEF HostBytes, PacketBytes
<1>5. RingBytes'
  BY <1>2, RingSizeAssumption DEF RingBytes
<1>6. Conserved'
  BY <1>1, <1>2, <1>3 DEF Conserved
<1> QED BY <1>4, <1>5, <1>6 DEF StreamIntact

\* SET_CONFIGURATION(1) cuts the stream behind the armed packet.
LEMMA ConfigureStream ==
  ASSUME TypeOK, StreamIntact, Configure
  PROVE  StreamIntact' /\ Used' = Used
<1>1. /\ got' = <<>> /\ nak' = TRUE /\ base' = base + Len(got) + Outstanding
      /\ UNCHANGED <<ring, head, tail, written>>
  BY DEF Configure, ringVars
<1>2. Used' = Used /\ Outstanding' = 0
  BY <1>1 DEF Used, Outstanding
<1>3. DOMAIN got' = {} /\ Len(got') = 0
  BY <1>1
<1>4. HostBytes' /\ PacketBytes'
  BY <1>1, <1>3 DEF HostBytes, PacketBytes
<1>5. RingBytes'
  BY <1>1, <1>2 DEF StreamIntact, RingBytes
<1>6. Conserved'
  BY <1>1, <1>2, <1>3, SeqFacts DEF StreamIntact, Conserved, TypeOK
<1> QED BY <1>2, <1>4, <1>5, <1>6 DEF StreamIntact

\* A step outside tx_ring_put() that neither writes the ring nor fills it
\* leaves what PutByte prepared.
LEMMA CommitFrame ==
  ASSUME TypeOK, TypeOK', CommitInv, UNCHANGED <<next, head, ring, written>>,
         Used' <= Used, call' = call \/ call' # "commit"
  PROVE  CommitInv'
<1>1. Used \in Nat /\ Used' \in Nat
  BY SeqFacts, SpanRange DEF TypeOK, Used
<1> QED BY <1>1, RingSizeAssumption DEF CommitInv

\* Before the first byte there is no stream.
LEMMA StreamInit == Init => StreamInv
<1> SUFFICES ASSUME Init PROVE StreamInv
  OBVIOUS
<1>1. Used = 0 /\ Outstanding = 0 /\ Len(got) = 0 /\ DOMAIN got = {}
  BY DEF Init, Used, Outstanding, Span
<1>2. HostBytes /\ PacketBytes /\ CommitInv
  BY <1>1 DEF Init, HostBytes, PacketBytes, CommitInv
<1>3. RingBytes /\ Conserved
  BY <1>1, RingSizeAssumption DEF Init, RingBytes, Conserved
<1> QED BY <1>2, <1>3 DEF StreamInv, StreamIntact

\* Every step keeps the stream intact.
LEMMA StreamStep ==
  ASSUME ~ResetMidCall
  PROVE  TypeInv /\ StreamInv /\ [Next]_vars => StreamInv'
<1> SUFFICES ASSUME TypeInv, StreamInv, [Next]_vars PROVE StreamInv'
  OBVIOUS
<1>t. TypeOK /\ TypeOK'
  BY TypeStep DEF TypeInv
<1>u. Used \in Nat
  BY <1>t, SeqFacts
<1>s. StreamIntact /\ CommitInv
  BY DEF StreamInv
<1> USE DEF ringVars, flags, devVars, epVars, intVars, callVars, history
<1>1. CASE PutByte
  BY <1>1, <1>t, PutByteStream
<1>2. CASE CommitByte
  BY <1>2, <1>t, CommitByteStream
<1>3. CASE Kick \/ Poll \/ SofPump \/ (Ep3Done /\ Pump(FALSE))
  <2>1. \E busy : Pump(busy)
    BY <1>3 DEF Kick, Poll, SofPump
  <2>2. /\ UNCHANGED <<ring, head, written, base, got, next>>
        /\ call' = call \/ call' # "commit"
    BY <1>3 DEF Kick, Poll, SofPump, Ep3Done
  <2>3. StreamIntact' /\ Used' <= Used
    BY <1>s, <1>t, <2>1, <2>2, PumpStream
  <2> QED BY <1>s, <1>t, <2>2, <2>3, CommitFrame DEF StreamInv
<1>4. CASE HostIn
  <2>1. UNCHANGED <<next, head, ring, written, call>>
    BY <1>4 DEF HostIn
  <2> QED BY <1>4, <1>s, <1>t, <1>u, <2>1, HostInStream, CommitFrame DEF StreamInv
<1>5. CASE SofZlp
  <2>1. UNCHANGED <<next, head, ring, written, call>>
    BY <1>5 DEF SofZlp
  <2> QED BY <1>5, <1>s, <1>t, <1>u, <2>1, SofZlpStream, CommitFrame DEF StreamInv
<1>6. CASE Configure
  <2>1. UNCHANGED <<next, head, ring, written, call>>
    BY <1>6 DEF Configure
  <2> QED BY <1>6, <1>s, <1>t, <1>u, <2>1, ConfigureStream, CommitFrame DEF StreamInv
<1>7. CASE BusReset
  <2>1. call' # "commit"
    BY <1>7 DEF BusReset
  <2> QED BY <1>7, <1>s, <1>t, <2>1, BusResetStream DEF StreamInv, CommitInv
<1>8. CASE /\ UNCHANGED <<ring, head, tail, nak, pkt, written, base, got, next>>
           /\ call' = call \/ call' # "commit"
  BY <1>8, <1>s, <1>t, <1>u, StreamFrame, CommitFrame DEF StreamInv
<1>9. CASE \/ \E len \in 1 .. MaxBytes : WriteCall(len)
           \/ PutEnd \/ OtherEndpoint \/ AckTrncompl \/ Deconfigure
           \/ FlushCall \/ FlushGivesUp \/ FlushSeesNoFlight \/ FlushReadsRing
           \/ ControlLineState \/ UNCHANGED vars
           \/ (Ep3Done /\ UNCHANGED <<flags, pkt, tail, nak>>)
  BY <1>8, <1>9 DEF WriteCall, PutEnd, OtherEndpoint, AckTrncompl, Deconfigure, FlushCall,
     FlushGivesUp, FlushSeesNoFlight, FlushReadsRing, ControlLineState, Ep3Done, vars
<1>10. Ep3Done => Pump(FALSE) \/ UNCHANGED <<flags, pkt, tail, nak>>
  BY DEF Ep3Done
<1> QED BY <1>1, <1>2, <1>3, <1>4, <1>5, <1>6, <1>7, <1>9, <1>10
        DEF Next, Sketch, Bus, Handler

\* If a bus reset does not interrupt tx_ring_put() between its slot write and
\* its index write, then every byte the port accepted is in exactly one place,
\* in stream order, whichever context runs the pump: nothing is lost, repeated
\* or reordered on the way from the sketch to the host.
THEOREM StreamCorrect ==
  ASSUME ~ResetMidCall
  PROVE  Spec => []StreamIntact
<1>1. TypeInv /\ StreamInv /\ [Next]_vars => StreamInv'
  BY StreamStep
<1>2. StreamInv => StreamIntact
  BY DEF StreamInv
<1> QED BY <1>1, <1>2, StreamInit, TypeInit, TypeStep, PTL DEF Spec

-----------------------------------------------------------------------------
(* The armed packet and the packet that ends a transfer.                   *)

\* Neither the pump, whichever context runs it, nor the ZLP of the SOF handler
\* writes g_ep3_in_buf or its count while endpoint 3 stays armed: both test
\* BUSNAK first, and the bus events that rewrite the entry disarm it.
THEOREM ArmedCorrect == Spec => ArmedStable
<1>1. [Next]_vars => [~nak /\ ~nak' => pkt' = pkt]_vars
  <2> SUFFICES ASSUME [Next]_vars, ~nak, ~nak' PROVE pkt' = pkt
    OBVIOUS
  <2> USE DEF epVars
  <2>1. ASSUME NEW busy, Pump(busy) PROVE pkt' = pkt
    BY <2>1 DEF Pump, PumpReady
  <2>2. CASE Sketch
    BY <2>1, <2>2 DEF Sketch, WriteCall, PutByte, CommitByte, PutEnd, Kick, Poll,
       FlushCall, FlushGivesUp, FlushSeesNoFlight, FlushReadsRing
  <2>3. CASE Bus
    BY <2>3 DEF Bus, HostIn, OtherEndpoint, BusReset, Configure, Deconfigure,
       ControlLineState
  <2>4. CASE Handler
    BY <2>1, <2>4 DEF Handler, Ep3Done, AckTrncompl, SofPump, SofZlp
  <2>5. CASE UNCHANGED vars
    BY <2>5 DEF vars
  <2> QED BY <2>2, <2>3, <2>4, <2>5 DEF Next
<1> QED BY <1>1, PTL DEF Spec, ArmedStable

\* g_tx_last_full stands for a full packet that the host has, or is about to
\* fetch, with nothing behind it yet.
FullLast == lastFull => IF nak THEN open ELSE Len(pkt) = PacketSize

\* A packet armed by the pump is not empty, and g_tx_last_full says whether it
\* is full.
LEMMA ArmFull ==
  ASSUME TypeOK, head # tail, Arm
  PROVE  ~nak' /\ Len(pkt') > 0 /\ (lastFull' => Len(pkt') = PacketSize)
<1> DEFINE n == IF Used < PacketSize THEN Used ELSE PacketSize
<1>1. Used \in 1 .. RingSize - 1
  <2>1. Used \in 0 .. RingSize - 1 /\ Used # 0
    BY SpanRange DEF TypeOK, Used
  <2> QED BY <2>1, RingSizeAssumption
<1>2. n \in Nat /\ n > 0 /\ n <= RingSize
  <2> HIDE DEF Used
  <2> QED BY <1>1, RingSizeAssumption, TxAssumption
<1>3. pkt' = [i \in 1 .. n |-> ring[Adv(tail, i - 1)]]
  BY DEF Arm
<1>4. ~nak' /\ (lastFull' => n = PacketSize)
  BY DEF Arm
<1> HIDE DEF n
<1>5. \A i \in 1 .. n : ring[Adv(tail, i - 1)] \in Nat
  <2> SUFFICES ASSUME NEW i \in 1 .. n PROVE ring[Adv(tail, i - 1)] \in Nat
    OBVIOUS
  <2>1. i - 1 \in 0 .. RingSize
    BY <1>2, RingSizeAssumption
  <2> QED BY <2>1, AdvInSlot DEF TypeOK
<1>6. Len(pkt') = n
  BY <1>2, <1>3, <1>5, IsASeq
<1> QED BY <1>2, <1>4, <1>6

\* Every step keeps it.
LEMMA FullLastStep == TypeOK /\ FullLast /\ [Next]_vars => FullLast'
<1> SUFFICES ASSUME TypeOK, FullLast, [Next]_vars PROVE FullLast'
  OBVIOUS
<1> USE DEF flags, epVars, history
<1>1. ASSUME UNCHANGED <<lastFull, nak, pkt, open>> PROVE FullLast'
  BY <1>1 DEF FullLast
<1>2. ASSUME NEW busy, Pump(busy), UNCHANGED open PROVE FullLast'
  BY <1>1, <1>2, ArmFull DEF Pump, PumpReady, FullLast
<1>3. CASE Sketch
  BY <1>1, <1>2, <1>3 DEF Sketch, WriteCall, PutByte, CommitByte, PutEnd, Kick, Poll,
     FlushCall, FlushGivesUp, FlushSeesNoFlight, FlushReadsRing
<1>4. CASE HostIn
  BY <1>4 DEF HostIn, FullLast
<1>5. CASE BusReset \/ Configure
  BY <1>5 DEF BusReset, Configure, FullLast
<1>6. CASE OtherEndpoint \/ Deconfigure \/ ControlLineState
  BY <1>1, <1>6 DEF OtherEndpoint, Deconfigure, ControlLineState
<1>7. CASE Ep3Done \/ AckTrncompl \/ SofPump
  BY <1>1, <1>2, <1>7 DEF Ep3Done, AckTrncompl, SofPump
<1>8. CASE SofZlp
  BY <1>8 DEF SofZlp, FullLast
<1>9. CASE UNCHANGED vars
  BY <1>1, <1>9 DEF vars
<1> QED BY <1>3, <1>4, <1>5, <1>6, <1>7, <1>8, <1>9 DEF Next, Bus, Handler

\* For every ring and packet size, a zero-length packet is armed only while the
\* host holds a transfer open after a full packet, so that an idle link gets
\* one terminating packet and a short packet is followed by none.
THEOREM ZlpCorrect == Spec => ZlpEndsTransfer
<1>1. Init => FullLast
  BY DEF Init, FullLast
<1>2. TypeOK /\ FullLast /\ [Next]_vars => [nak /\ ~nak' /\ pkt' = <<>> => open]_vars
  <2> SUFFICES ASSUME TypeOK, FullLast, [Next]_vars, nak, ~nak', pkt' = <<>>
               PROVE  open
    OBVIOUS
  <2> USE DEF epVars
  <2>1. ASSUME NEW busy, Pump(busy) PROVE FALSE
    <3>1. head # tail /\ Arm
      BY <2>1 DEF Pump, PumpReady
    <3>2. Len(pkt') > 0 /\ Len(pkt') = 0
      BY <3>1, ArmFull, NoBytes
    <3> QED BY <3>2
  <2>2. CASE Sketch
    BY <2>1, <2>2 DEF Sketch, WriteCall, PutByte, CommitByte, PutEnd, Kick, Poll,
       FlushCall, FlushGivesUp, FlushSeesNoFlight, FlushReadsRing
  <2>3. CASE Bus
    BY <2>3 DEF Bus, HostIn, OtherEndpoint, BusReset, Configure, Deconfigure,
       ControlLineState
  <2>4. CASE Ep3Done \/ AckTrncompl \/ SofPump
    BY <2>1, <2>4 DEF Ep3Done, AckTrncompl, SofPump
  <2>5. CASE SofZlp
    BY <2>5 DEF SofZlp, FullLast
  <2>6. CASE UNCHANGED vars
    BY <2>6 DEF vars
  <2> QED BY <2>2, <2>3, <2>4, <2>5, <2>6 DEF Next, Handler
<1>3. TypeInv => TypeOK
  BY DEF TypeInv
<1> QED BY <1>1, <1>2, <1>3, FullLastStep, TypeInit, TypeStep, PTL DEF Spec, ZlpEndsTransfer

-----------------------------------------------------------------------------
(* The port implements the abstract FIFO.                                  *)

\* The bytes of the stream behind byte a, up to byte w.
Stretch(a, w) == [k \in 1 .. w - a |-> a + k]

\* It is a sequence of w - a bytes.
LEMMA StretchType ==
  ASSUME NEW a \in Nat, NEW w \in Nat, a <= w
  PROVE  Stretch(a, w) \in Seq(Nat) /\ Len(Stretch(a, w)) = w - a
<1>1. w - a \in Nat /\ \A k \in 1 .. w - a : a + k \in Nat
  OBVIOUS
<1> QED BY <1>1, IsASeq DEF Stretch

\* One more byte is written.
LEMMA StretchAppend ==
  ASSUME NEW a \in Nat, NEW w \in Nat, a <= w
  PROVE  Stretch(a, w + 1) = Append(Stretch(a, w), w + 1)
<1> DEFINE A == Stretch(a, w + 1)
           B == Append(Stretch(a, w), w + 1)
<1>1. A \in Seq(Nat) /\ Len(A) = w - a + 1
  <2>1. a <= w + 1 /\ w + 1 \in Nat /\ w + 1 - a = w - a + 1
    OBVIOUS
  <2> QED BY <2>1, StretchType
<1>2. /\ B \in Seq(Nat) /\ Len(B) = w - a + 1
      /\ \A k \in 1 .. w - a : B[k] = Stretch(a, w)[k]
      /\ B[w - a + 1] = w + 1
  BY StretchType, AppendProperties
<1>3. ASSUME NEW k \in 1 .. w - a + 1 PROVE A[k] = a + k
  BY <1>3 DEF Stretch
<1>4. ASSUME NEW k \in 1 .. w - a + 1 PROVE B[k] = a + k
  <2>1. CASE k \in 1 .. w - a
    <3>1. Stretch(a, w)[k] = a + k
      BY <2>1 DEF Stretch
    <3> QED BY <1>2, <2>1, <3>1
  <2>2. CASE k = w - a + 1
    BY <1>2, <2>2
  <2>3. w - a \in Nat
    OBVIOUS
  <2> HIDE DEF A, B
  <2> QED BY <2>1, <2>2, <2>3
<1> HIDE DEF A, B
<1>5. A = B
  BY <1>1, <1>2, <1>3, <1>4, SeqEqual
<1> QED BY <1>5 DEF A, B

\* The oldest n bytes are taken or cut.
LEMMA StretchCut ==
  ASSUME NEW a \in Nat, NEW w \in Nat, NEW n \in Nat, a + n <= w
  PROVE  Stretch(a + n, w) = SubSeq(Stretch(a, w), n + 1, Len(Stretch(a, w)))
<1> DEFINE S == Stretch(a, w)
           A == Stretch(a + n, w)
           m == w - a
           B == SubSeq(S, n + 1, m)
<1>1. S \in Seq(Nat) /\ Len(S) = m /\ m \in Nat /\ n <= m
  BY StretchType
<1>2. A \in Seq(Nat) /\ Len(A) = m - n
  <2>1. a + n \in Nat /\ w - (a + n) = m - n
    OBVIOUS
  <2> QED BY <2>1, StretchType
<1>3. \A k \in 1 .. m : S[k] = a + k
  BY DEF Stretch
<1>4. \A k \in 1 .. m - n : A[k] = a + n + k
  BY DEF Stretch
<1> HIDE DEF S, A, m
<1>5. B \in Seq(Nat) /\ Len(B) = m - n /\ \A k \in 1 .. m - n : B[k] = S[n + k]
  <2>1. n + 1 \in Int /\ m \in Int /\ \A k \in n + 1 .. m : S[k] \in Nat
    BY <1>1, <1>3
  <2>2. /\ B \in Seq(Nat)
        /\ Len(B) = IF n + 1 <= m THEN m - (n + 1) + 1 ELSE 0
        /\ \A k \in 1 .. m - (n + 1) + 1 : B[k] = S[n + 1 + k - 1]
    BY <2>1, SubSeqProperties
  <2>3. m - (n + 1) + 1 = m - n /\ \A k \in Int : n + 1 + k - 1 = n + k
    BY <1>1
  <2> QED BY <1>1, <2>2, <2>3
<1> HIDE DEF B
<1>6. ASSUME NEW k \in 1 .. m - n PROVE A[k] = B[k]
  <2>1. n + k \in 1 .. m /\ a + (n + k) = a + n + k
    BY <1>1
  <2> QED BY <1>3, <1>4, <1>5, <2>1
<1>7. A = B
  BY <1>1, <1>2, <1>5, <1>6, SeqEqual
<1> QED BY <1>1, <1>7 DEF S, A, B

\* The abstract queue: what is armed, then what is in the ring.  The stream is
\* intact, so that it holds the bytes the host does not have yet.
TxQueue == (IF nak THEN <<>> ELSE pkt) \o RingSeq
QueueIs ==
  /\ TxQueue = Stretch(base + Len(got), written)
  /\ base + Len(got) + Outstanding + Used = written

\* The ring, from the reader's index on.
LEMMA RingSeqIs ==
  ASSUME TypeOK, RingBytes
  PROVE  /\ RingSeq \in Seq(Nat) /\ Len(RingSeq) = Used
         /\ \A k \in 1 .. Used : RingSeq[k] = written - Used + k
<1>1. Used \in 0 .. RingSize - 1 /\ Used \in Nat /\ written \in Nat
  BY SeqFacts DEF TypeOK
<1>2. \A k \in 1 .. Used : ring[Adv(tail, k - 1)] = written - Used + k
  <2> SUFFICES ASSUME NEW k \in 1 .. Used
               PROVE  ring[Adv(tail, k - 1)] = written - Used + k
    OBVIOUS
  <2>1. k - 1 \in 0 .. RingSize - 1 /\ k - 1 < Used
    BY <1>1, RingSizeAssumption
  <2>2. ring[Adv(tail, k - 1)] = written - Used + (k - 1) + 1
    BY <2>1 DEF RingBytes
  <2> QED BY <1>1, <2>2
<1>3. \A k \in 1 .. Used : ring[Adv(tail, k - 1)] \in Nat
  <2> SUFFICES ASSUME NEW k \in 1 .. Used PROVE ring[Adv(tail, k - 1)] \in Nat
    OBVIOUS
  <2>1. k - 1 \in 0 .. RingSize
    BY <1>1, RingSizeAssumption
  <2> QED BY <2>1, AdvInSlot DEF TypeOK
<1> DEFINE n == Used
           e(k) == ring[Adv(tail, k - 1)]
<1>4. n \in Nat /\ \A k \in 1 .. n : e(k) \in Nat
  BY <1>1, <1>3
<1>5. RingSeq = [k \in 1 .. n |-> e(k)]
  BY DEF RingSeq
<1> HIDE DEF n, e
<1>6. RingSeq \in Seq(Nat) /\ Len(RingSeq) = n /\ \A k \in 1 .. n : RingSeq[k] = e(k)
  BY <1>4, <1>5, IsASeq
<1> QED BY <1>2, <1>6 DEF n, e

\* An intact stream leaves exactly the bytes behind the host's to deliver.
LEMMA QueueOfStream == TypeOK /\ StreamIntact => QueueIs
<1> SUFFICES ASSUME TypeOK, StreamIntact PROVE QueueIs
  OBVIOUS
<1> DEFINE P == IF nak THEN <<>> ELSE pkt
           a == base + Len(got)
           o == Outstanding
           S == Stretch(a, written)
<1>1. /\ o \in Nat /\ Used \in Nat /\ a \in Nat /\ written \in Nat /\ Len(got) \in Nat
      /\ a + o + Used = written
  BY SeqFacts, RingSizeAssumption DEF TypeOK, StreamIntact, Conserved
<1>2. P \in Seq(Nat) /\ Len(P) = o
  BY NoBytes DEF TypeOK, Outstanding
<1>3. \A k \in 1 .. o : P[k] = a + k
  <2> SUFFICES ASSUME NEW k \in 1 .. o PROVE P[k] = a + k
    OBVIOUS
  <2>1. ~nak /\ P = pkt /\ o = Len(pkt)
    BY DEF Outstanding
  <2>2. k \in DOMAIN pkt
    BY <2>1, SeqFacts
  <2> QED BY <2>1, <2>2 DEF StreamIntact, PacketBytes
<1>4. /\ RingSeq \in Seq(Nat) /\ Len(RingSeq) = Used
      /\ \A k \in 1 .. Used : RingSeq[k] = written - Used + k
  BY RingSeqIs DEF StreamIntact
<1>5. S \in Seq(Nat) /\ Len(S) = o + Used /\ \A k \in 1 .. o + Used : S[k] = a + k
  <2>1. a <= written /\ written - a = o + Used
    BY <1>1
  <2> QED BY <1>1, <2>1, StretchType DEF Stretch
<1> HIDE DEF P, a, o, S
<1>6. /\ P \o RingSeq \in Seq(Nat) /\ Len(P \o RingSeq) = o + Used
      /\ \A k \in 1 .. o + Used :
           (P \o RingSeq)[k] = IF k <= o THEN P[k] ELSE RingSeq[k - o]
  BY <1>2, <1>4, ConcatProperties
<1>7. ASSUME NEW k \in 1 .. o + Used PROVE (P \o RingSeq)[k] = S[k]
  <2> HIDE DEF Used
  <2>1. CASE k <= o
    <3>1. k \in 1 .. o
      BY <1>1, <2>1
    <3> QED BY <1>3, <1>5, <1>6, <2>1, <3>1
  <2>2. CASE ~(k <= o)
    <3>1. k - o \in 1 .. Used
      BY <1>1, <2>2
    <3>2. RingSeq[k - o] = written - Used + (k - o)
      BY <1>4, <3>1
    <3>3. written - Used + (k - o) = a + k
      BY <1>1
    <3> QED BY <1>5, <1>6, <2>2, <3>2, <3>3
  <2> QED BY <2>1, <2>2
<1>8. P \o RingSeq = S
  BY <1>5, <1>6, <1>7, SeqEqual
<1> QED BY <1>1, <1>8 DEF QueueIs, TxQueue, P, S, a, o

\* usbCdcWrite() accepts no more bytes than the bound admits.
CountInv == call \in {"put", "commit"} => written + todo <= MaxBytes

\* Every step keeps the count.
LEMMA CountStep == TypeInv /\ CountInv /\ [Next]_vars => CountInv'
<1> SUFFICES ASSUME TypeInv, CountInv, [Next]_vars PROVE CountInv'
  OBVIOUS
<1> USE DEF callVars, history
<1>1. written \in Nat /\ todo \in Nat
  BY DEF TypeInv, TypeOK
<1>2. CASE UNCHANGED <<call, todo, written>>
  BY <1>2 DEF CountInv
<1>3. ASSUME NEW len \in 1 .. MaxBytes, WriteCall(len) PROVE CountInv'
  BY <1>3 DEF WriteCall, CountInv
<1>4. CASE CommitByte
  <2>1. call = "commit" /\ written' = written + 1 /\ todo' = todo - 1 /\ todo > 0
    BY <1>4 DEF CommitByte, TypeInv
  <2> QED BY <1>1, <2>1 DEF CountInv
<1>5. CASE PutByte
  BY <1>5 DEF PutByte, CountInv
<1>6. CASE PutEnd \/ Kick \/ FlushCall \/ FlushGivesUp \/ FlushSeesNoFlight \/ FlushReadsRing
  BY <1>6 DEF PutEnd, Kick, FlushCall, FlushGivesUp, FlushSeesNoFlight, FlushReadsRing,
     CountInv
<1>7. CASE BusReset
  <2>1. written' = 0 /\ UNCHANGED <<call, todo>>
    BY <1>7 DEF BusReset
  <2> QED BY <1>1, <2>1, TxAssumption DEF CountInv
<1>8. CASE Poll \/ Handler \/ UNCHANGED vars
  BY <1>2, <1>8 DEF Poll, Handler, Ep3Done, AckTrncompl, SofPump, SofZlp, vars
<1>9. CASE HostIn \/ OtherEndpoint \/ Configure \/ Deconfigure \/ ControlLineState
  BY <1>2, <1>9 DEF HostIn, OtherEndpoint, Configure, Deconfigure, ControlLineState
<1> QED BY <1>3, <1>4, <1>5, <1>6, <1>7, <1>8, <1>9 DEF Next, Sketch, Bus

\* A step that neither accepts, delivers nor cuts leaves the queue alone: the
\* pump moves bytes inside it.
LEMMA PipeStutter ==
  ASSUME QueueIs, QueueIs', UNCHANGED <<written, base, got>>
  PROVE  UNCHANGED Pipe!pipeVars
BY DEF QueueIs, Pipe!pipeVars, TxQueue

\* The store of g_tx_head accepts a byte.
LEMMA PipeAccept ==
  ASSUME TypeInv, StreamInv, CountInv, QueueIs, QueueIs', CommitByte
  PROVE  Pipe!Next
<1> DEFINE a == base + Len(got)
           b == written + 1
<1>1. /\ a \in Nat /\ written \in Nat /\ a <= written /\ Used \in Nat /\ Outstanding \in Nat
      /\ written = a + Outstanding + Used
  BY SeqFacts, RingSizeAssumption DEF TypeInv, TypeOK, QueueIs
<1>2. written' = b /\ base' = base /\ got' = got /\ call = "commit" /\ todo > 0
  BY DEF CommitByte, TypeInv
<1>3. TxQueue = Stretch(a, written) /\ TxQueue' = Stretch(a, b)
  BY <1>2 DEF QueueIs
<1>4. TxQueue' = Append(TxQueue, b)
  BY <1>1, <1>3, StretchAppend
<1>5. Len(TxQueue) < RingSize - 1 + PacketSize
  <2>1. Len(TxQueue) = Outstanding + Used
    <3>1. written - a = Outstanding + Used
      BY <1>1
    <3> QED BY <1>1, <1>3, <3>1, StretchType
  <2>2. Used < RingSize - 1
    BY <1>2 DEF StreamInv, CommitInv
  <2>3. Outstanding <= PacketSize
    BY TxAssumption DEF Outstanding, TypeInv, TypeOK
  <2> QED BY <1>1, <2>1, <2>2, <2>3, TxAssumption, RingSizeAssumption
<1>6. b \in 1 .. MaxBytes
  BY <1>1, <1>2, TxAssumption DEF CountInv, TypeInv, TypeOK
<1>7. Pipe!Accept(b)
  BY <1>2, <1>4, <1>5 DEF Pipe!Accept, TxQueue
<1> QED BY <1>6, <1>7 DEF Pipe!Next

\* The host takes the armed packet: the front of the queue.
LEMMA PipeDeliver ==
  ASSUME TypeInv, QueueIs, QueueIs', HostIn
  PROVE  Pipe!Next \/ UNCHANGED Pipe!pipeVars
<1> DEFINE a == base + Len(got)
           n == Len(pkt)
<1>1. /\ ~nak /\ got' = got \o pkt /\ UNCHANGED <<written, base, pkt>>
      /\ got \in Seq(Nat) /\ pkt \in Seq(Nat) /\ RingSeq \in Seq(Nat)
  <2>1. RingSeq \in Seq(Nat)
    <3>1. \A k \in 1 .. Used : ring[Adv(tail, k - 1)] \in Nat
      <4> SUFFICES ASSUME NEW k \in 1 .. Used PROVE ring[Adv(tail, k - 1)] \in Nat
        OBVIOUS
      <4>1. Used \in 0 .. RingSize - 1
        BY SeqFacts DEF TypeInv
      <4>2. k - 1 \in 0 .. RingSize
        BY <4>1, RingSizeAssumption
      <4> QED BY <4>2, AdvInSlot DEF TypeInv, TypeOK
    <3>2. Used \in Nat
      BY SeqFacts, RingSizeAssumption DEF TypeInv
    <3> DEFINE m == Used
               e(k) == ring[Adv(tail, k - 1)]
    <3>3. m \in Nat /\ (\A k \in 1 .. m : e(k) \in Nat) /\ RingSeq = [k \in 1 .. m |-> e(k)]
      BY <3>1, <3>2 DEF RingSeq
    <3> HIDE DEF m, e
    <3> QED BY <3>3, IsASeq
  <2> QED BY <2>1 DEF HostIn, TypeInv, TypeOK
<1>2. /\ a \in Nat /\ n \in Nat /\ written \in Nat /\ Len(got) \in Nat /\ base \in Nat
      /\ Used \in Nat /\ a + n + Used = written
  BY <1>1, SeqFacts, RingSizeAssumption DEF TypeInv, TypeOK, QueueIs, Outstanding
<1>3. Len(got') = Len(got) + n
  BY <1>1, ConcatProperties
<1>4. TxQueue = Stretch(a, written) /\ TxQueue' = Stretch(a + n, written)
  <2>1. base + Len(got') = a + n
    BY <1>2, <1>3
  <2> QED BY <1>1, <2>1 DEF QueueIs
<1>5. TxQueue = pkt \o RingSeq
  BY <1>1 DEF TxQueue
<1>6. CASE n = 0
  <2>1. pkt = <<>>
    BY <1>1, <1>6, EmptySeq
  <2>2. got' = got
    BY <1>1, <2>1, ConcatEmptySeq
  <2> QED BY <1>1, <2>2, PipeStutter
<1>7. CASE n # 0
  <2>1. a + n <= written /\ a <= written /\ written - a = n + Used
    BY <1>2
  <2>2. TxQueue' = SubSeq(TxQueue, n + 1, Len(TxQueue))
    BY <1>2, <1>4, <2>1, StretchCut
  <2>3. Len(TxQueue) = n + Used
    BY <1>2, <1>4, <2>1, StretchType
  <2>4. n \in 1 .. Len(TxQueue) /\ n \in 1 .. n
    BY <1>2, <1>7, <2>3
  <2>5. SubSeq(TxQueue, 1, n) = pkt
    <3>1. 1 \in 1 .. Len(pkt) /\ n \in 1 .. Len(pkt)
      BY <1>2, <1>7
    <3>2. SubSeq(pkt \o RingSeq, 1, n) = SubSeq(pkt, 1, n)
      BY <1>1, <3>1, SubSeqOfConcat1
    <3>3. SubSeq(pkt, 1, n) = pkt
      BY <1>1, SubSeqFull
    <3> QED BY <1>5, <3>2, <3>3
  <2>6. Pipe!Deliver(n)
    BY <1>1, <2>2, <2>5 DEF Pipe!Deliver, TxQueue
  <2> QED BY <2>4, <2>6 DEF Pipe!Next, TxQueue
<1> QED BY <1>6, <1>7

\* SET_CONFIGURATION cuts the packet it disarms, a bus reset everything.
LEMMA PipeCut ==
  ASSUME TypeInv, QueueIs, QueueIs', Configure \/ BusReset
  PROVE  Pipe!Next
<1> DEFINE a == base + Len(got)
<1>1. /\ a \in Nat /\ written \in Nat /\ Len(got) \in Nat /\ base \in Nat
      /\ Used \in Nat /\ Outstanding \in Nat /\ a + Outstanding + Used = written
  BY SeqFacts, RingSizeAssumption DEF TypeInv, TypeOK, QueueIs
<1>2. TxQueue = Stretch(a, written) /\ a <= written
  BY <1>1 DEF QueueIs
<1>3. Len(TxQueue) = Outstanding + Used
  BY <1>1, <1>2, StretchType, SMTT(30)
<1>4. CASE Configure
  <2>1. got' = <<>> /\ base' = a + Outstanding /\ written' = written
    BY <1>4 DEF Configure
  <2>2. TxQueue' = Stretch(a + Outstanding, written)
    <3>1. base' + Len(got') = a + Outstanding
      BY <1>1, <2>1, NoBytes
    <3> QED BY <2>1, <3>1 DEF QueueIs
  <2>3. TxQueue' = SubSeq(TxQueue, Outstanding + 1, Len(TxQueue))
    <3>1. a + Outstanding <= written
      BY <1>1
    <3> QED BY <1>1, <1>2, <2>2, <3>1, StretchCut
  <2>4. Pipe!Cut(Outstanding)
    BY <2>1, <2>3 DEF Pipe!Cut, TxQueue
  <2>5. Outstanding \in 0 .. Len(TxQueue)
    BY <1>1, <1>3
  <2> QED BY <2>4, <2>5 DEF Pipe!Next, TxQueue
<1>5. CASE BusReset
  <2> DEFINE l == Len(TxQueue)
  <2>1. got' = <<>> /\ base' = 0 /\ written' = 0
    BY <1>5 DEF BusReset
  <2>2. l \in Nat /\ a + l = written
    BY <1>1, <1>3
  <2>3. TxQueue' = Stretch(0, 0)
    <3>1. base' + Len(got') = 0
      BY <2>1, NoBytes
    <3> QED BY <2>1, <3>1 DEF QueueIs
  <2>4. TxQueue' = SubSeq(TxQueue, l + 1, l)
    <3>1. Len(TxQueue') = 0 /\ TxQueue' \in Seq(Nat)
      BY <2>3, StretchType
    <3>2. TxQueue' = <<>>
      BY <3>1, EmptySeq
    <3>3. SubSeq(TxQueue, l + 1, l) = <<>>
      BY <2>2, SubSeqEmpty
    <3> QED BY <3>2, <3>3
  <2>5. Pipe!Cut(l)
    BY <2>1, <2>4 DEF Pipe!Cut, TxQueue
  <2>6. l \in 0 .. Len(TxQueue)
    BY <2>2
  <2> QED BY <2>5, <2>6 DEF Pipe!Next, TxQueue
<1> QED BY <1>4, <1>5

\* Every step of the port is a step of the FIFO, or leaves it alone.
LEMMA PipeStep ==
  ASSUME TypeInv, StreamInv, CountInv, QueueIs, QueueIs', [Next]_vars
  PROVE  [Pipe!Next]_(Pipe!pipeVars)
<1> USE DEF history
<1>1. CASE UNCHANGED <<written, base, got>>
  BY <1>1, PipeStutter
<1>2. CASE CommitByte
  BY <1>2, PipeAccept
<1>3. CASE HostIn
  BY <1>3, PipeDeliver
<1>4. CASE Configure \/ BusReset
  BY <1>4, PipeCut
<1>5. CASE Sketch /\ ~CommitByte
  BY <1>1, <1>5 DEF Sketch, WriteCall, PutByte, PutEnd, Kick, Poll, FlushCall,
     FlushGivesUp, FlushSeesNoFlight, FlushReadsRing
<1>6. CASE OtherEndpoint \/ Deconfigure \/ ControlLineState
  BY <1>1, <1>6 DEF OtherEndpoint, Deconfigure, ControlLineState
<1>7. CASE Handler
  BY <1>1, <1>7 DEF Handler, Ep3Done, AckTrncompl, SofPump, SofZlp
<1>8. CASE UNCHANGED vars
  BY <1>1, <1>8 DEF vars
<1> QED BY <1>2, <1>3, <1>4, <1>5, <1>6, <1>7, <1>8 DEF Next, Bus

\* If a bus reset does not interrupt tx_ring_put() between its slot write and
\* its index write, the port implements the bounded FIFO of BytePipe: the head
\* store accepts a byte, the host's IN token delivers the front of the queue,
\* a bus reset or SET_CONFIGURATION cuts the stream, and the pump moves bytes
\* unseen.  The queue never holds more than the ring and one packet.
THEOREM PipeCorrect ==
  ASSUME ~ResetMidCall
  PROVE  Spec => IsBytePipe
<1>1. TypeInv /\ StreamInv /\ [Next]_vars => StreamInv'
  BY StreamStep
<1>2. TypeInv /\ StreamInv => QueueIs
  BY QueueOfStream DEF TypeInv, StreamInv
<1>3. Init => CountInv
  BY DEF Init, CountInv
<1>4. Init => Pipe!Init
  <2> SUFFICES ASSUME Init PROVE Pipe!Init
    OBVIOUS
  <2>1. Used = 0 /\ nak /\ got = <<>>
    BY DEF Init, Used, Span
  <2>2. RingSeq = <<>>
    BY <2>1 DEF RingSeq
  <2>3. <<>> \o RingSeq = <<>>
    BY <2>2, NoBytes, ConcatEmptySeq
  <2> QED BY <2>1, <2>3 DEF Pipe!Init
<1>5. TypeInv /\ StreamInv /\ CountInv /\ QueueIs /\ QueueIs' /\ [Next]_vars
        => [Pipe!Next]_(Pipe!pipeVars)
  BY PipeStep
<1> QED BY <1>1, <1>2, <1>3, <1>4, <1>5, CountStep, StreamInit, TypeInit, TypeStep, PTL
        DEF Spec, IsBytePipe, Pipe!Spec
=============================================================================
