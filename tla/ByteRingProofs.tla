--------------------------- MODULE ByteRingProofs ---------------------------
(***************************************************************************)
(* Facts about the ring indices, for every ring size.                      *)
(***************************************************************************)
EXTENDS ByteRing, TLAPS

\* Advancing at most once around the ring stays inside it.
LEMMA AdvInSlot ==
  ASSUME NEW i \in Slot, NEW k \in 0 .. RingSize
  PROVE  Adv(i, k) \in Slot
BY RingSizeAssumption DEF Slot, Adv

\* Two advances make one, as long as they stay within one turn.
LEMMA AdvAdd ==
  ASSUME NEW i \in Slot, NEW j \in 0 .. RingSize, NEW k \in 0 .. RingSize,
         j + k <= RingSize
  PROVE  Adv(Adv(i, j), k) = Adv(i, j + k)
BY RingSizeAssumption DEF Slot, Adv

\* Offsets within one turn name different slots.
LEMMA AdvInjective ==
  ASSUME NEW i \in Slot, NEW j \in 0 .. RingSize - 1, NEW k \in 0 .. RingSize - 1,
         Adv(i, j) = Adv(i, k)
  PROVE  j = k
BY RingSizeAssumption DEF Slot, Adv

\* The fill level is at most RingSize - 1 and leads from reader to writer.
LEMMA SpanRange ==
  ASSUME NEW t \in Slot, NEW h \in Slot
  PROVE  /\ Span(t, h) \in 0 .. RingSize - 1
         /\ Adv(t, Span(t, h)) = h
         /\ Span(t, h) = 0 <=> t = h
BY RingSizeAssumption DEF Slot, Adv, Span

\* A ring that does not refuse a byte has room for it.
LEMMA NotFullHasRoom ==
  ASSUME NEW t \in Slot, NEW h \in Slot, ~Full(t, h)
  PROVE  Span(t, h) < RingSize - 1
BY RingSizeAssumption DEF Slot, Adv, Span, Full

\* The writer's advance adds one byte to a ring with room.
LEMMA SpanAfterPut ==
  ASSUME NEW t \in Slot, NEW h \in Slot, Span(t, h) < RingSize - 1
  PROVE  Span(t, Adv(h, 1)) = Span(t, h) + 1
BY RingSizeAssumption DEF Slot, Adv, Span

\* The reader's advance by n takes n bytes out of a ring that holds them.
LEMMA SpanAfterTake ==
  ASSUME NEW t \in Slot, NEW h \in Slot, NEW n \in 0 .. Span(t, h)
  PROVE  Span(Adv(t, n), h) = Span(t, h) - n
BY RingSizeAssumption DEF Slot, Adv, Span
=============================================================================
