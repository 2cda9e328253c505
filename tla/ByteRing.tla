------------------------------ MODULE ByteRing ------------------------------
(***************************************************************************)
(* Index arithmetic of the two byte rings of usb_cdc.c (g_rx_ring and      *)
(* g_tx_ring).  An index runs over 0..RingSize-1, one slot stays empty to  *)
(* tell a full ring from an empty one, and every advance is written        *)
(* (i + 1) % CDC_xX_RING_SIZE in the source.                               *)
(***************************************************************************)
EXTENDS Integers

CONSTANT RingSize    \* CDC_RX_RING_SIZE, CDC_TX_RING_SIZE (192 in the source)

ASSUME RingSizeAssumption == RingSize \in Nat /\ RingSize >= 2

Slot == 0 .. RingSize - 1

\* Mutant of Adv: the wrap at the end of the ring is forgotten.
AdvUnwrapped(i, k) == i + k

\* k steps forward from index i; for i in Slot and k <= RingSize this is
\* (i + k) % RingSize, written without % so that it stays linear.
Adv(i, k) == IF i + k < RingSize THEN i + k ELSE i + k - RingSize

\* Bytes stored between the reader's index t and the writer's index h:
\* the signed difference, plus RingSize when it is negative.
Span(t, h) == IF h >= t THEN h - t ELSE h - t + RingSize

\* Mutant of Full: one slot too many is kept empty.
FullTooEarly(t, h) == Adv(h, 1) = t \/ Adv(h, 2) = t

\* Mutant of Full: the overflow test is dropped.
FullNever(t, h) == FALSE

\* The writer refuses a byte when its next index would meet the reader's.
Full(t, h) == Adv(h, 1) = t
=============================================================================
