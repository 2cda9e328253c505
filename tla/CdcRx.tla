------------------------------- MODULE CdcRx --------------------------------
(***************************************************************************)
(* The host-to-device half of the native CDC port: bulk endpoint 2, the    *)
(* completion handler that copies each packet into the RX ring and arms    *)
(* the endpoint again (usb_core.c, usb_cdc.c), the sketch that looks how   *)
(* much is there and reads it (main context), and the bus reset and        *)
(* SET_CONFIGURATION that wipe the endpoint.                               *)
(*                                                                         *)
(* External, modelled from how the source uses them: endpoint 2 (BUSNAK,   *)
(* which the hardware sets when a packet has arrived, the per-endpoint     *)
(* TRNCOMPL and the shared, sticky INTFLAGSB.TRNCOMPL) and the host.       *)
(*                                                                         *)
(* A byte is its number in the host's stream since the last bus reset.     *)
(***************************************************************************)
EXTENDS ByteRing, Sequences

CONSTANTS
  PacketSize,    \* USB_EP2_SIZE (64 in the source)
  AckRace,       \* may endpoint 2 complete between its check and the flag write
  ResetMidCall,  \* may a bus reset interrupt usbCdcRead() or usbCdcAvailable()
  MaxBytes,      \* bound: bytes the host sends per bus session
  MaxCuts        \* bound: bus resets and SET_CONFIGURATION requests

ASSUME RxAssumption ==
  /\ PacketSize \in Nat \ {0}
  /\ AckRace \in BOOLEAN /\ ResetMidCall \in BOOLEAN
  /\ MaxBytes \in Nat /\ MaxCuts \in Nat

VARIABLES
  ring, head, tail,    \* g_rx_ring, g_rx_head, g_rx_tail
  cfg,                 \* g_current_configuration
  nak, trn,            \* EP[2].OUT.STATUS: BUSNAK and TRNCOMPL
  buf,                 \* the first EP[2].OUT.CNT bytes of g_ep2_out_buf
  irq,                 \* INTFLAGSB.TRNCOMPL
  isr,                 \* USB0_TRNCOMPL_vect: where it is in the endpoint 2 part
  i,                   \* usb_cdc_on_ep2_out: bytes copied so far
  call,                \* where the sketch is inside the CDC API
  next,                \* usbCdcRead: the new g_rx_tail, not yet stored
  seen,                \* usbCdcAvailable: the g_rx_head it loaded
  promise,             \* history: bytes usbCdcAvailable() promised, not yet read
  sent, dropped,       \* history: bytes the host sent; bytes thrown away
  got, cuts            \* history: bytes read; resets and SET_CONFIGURATIONs

ringVars == <<ring, head, tail>>
epVars   == <<nak, trn, buf>>
isrVars  == <<irq, isr, i>>
callVars == <<call, next, seen, promise>>
history  == <<sent, dropped, got, cuts>>
vars == <<ringVars, cfg, epVars, isrVars, callVars, history>>

Used == Span(tail, head)

Init ==
  /\ ring = [k \in Slot |-> 0] /\ head = 0 /\ tail = 0
  /\ cfg = 0 /\ nak = FALSE /\ trn = FALSE /\ buf = <<>>
  /\ irq = FALSE /\ isr = "off" /\ i = 0
  /\ call = "idle" /\ next = 0 /\ seen = 0 /\ promise = 0
  /\ sent = 0 /\ dropped = 0 /\ got = <<>> /\ cuts = 0

-----------------------------------------------------------------------------
(* The host and the peripheral.                                            *)

HostOut(n) ==                        \* a packet of n bytes; n = 0 is a ZLP
  /\ cfg = 1 /\ ~nak
  /\ AckRace \/ isr # "ack"
  /\ sent + n <= MaxBytes
  /\ buf' = [k \in 1 .. n |-> sent + k]
  /\ sent' = sent + n
  /\ nak' = TRUE /\ trn' = TRUE /\ irq' = TRUE
  /\ UNCHANGED <<ringVars, cfg, isr, i, callVars, dropped, got, cuts>>

OtherEndpoint ==                     \* endpoint 0 or 3 completes a transaction
  /\ ~irq
  /\ irq' = TRUE
  /\ UNCHANGED <<ringVars, cfg, epVars, isr, i, callVars, history>>

-----------------------------------------------------------------------------
(* USB0_TRNCOMPL_vect, endpoint 2 part of usb_service_trncompl().          *)

\* Mutant of Ep2Service: the endpoint is armed before its buffer is copied.
Ep2ServiceArmsFirst ==
  /\ isr = "off" /\ irq
  /\ isr' = (IF trn THEN "copy" ELSE "ack")
  /\ nak' = (nak /\ ~trn)
  /\ trn' = FALSE /\ i' = 0
  /\ UNCHANGED <<ringVars, cfg, buf, irq, callVars, history>>

Ep2Service ==
  /\ isr = "off" /\ irq
  /\ isr' = (IF trn THEN "copy" ELSE "ack")
  /\ trn' = FALSE /\ i' = 0
  /\ UNCHANGED <<ringVars, cfg, nak, buf, irq, callVars, history>>

CopyByte ==                          \* one turn of usb_cdc_on_ep2_out's loop
  /\ isr = "copy" /\ i < Len(buf) /\ ~Full(tail, head)
  /\ ring' = [ring EXCEPT ![head] = buf[i + 1]]
  /\ head' = Adv(head, 1)
  /\ i' = i + 1
  /\ UNCHANGED <<tail, cfg, epVars, irq, isr, callVars, history>>

\* Mutant of CopyEnd: an empty packet is not armed again.
CopyEndSkipsEmpty ==
  /\ isr = "copy" /\ (i = Len(buf) \/ Full(tail, head))
  /\ dropped' = dropped + Len(buf) - i
  /\ isr' = (IF buf = <<>> THEN "ack" ELSE "arm")
  /\ buf' = <<>> /\ i' = 0
  /\ UNCHANGED <<ringVars, cfg, nak, trn, irq, callVars, sent, got, cuts>>

CopyEnd ==                           \* all copied, or "overflow: drop rest"; CNT = 0
  /\ isr = "copy" /\ (i = Len(buf) \/ Full(tail, head))
  /\ dropped' = dropped + Len(buf) - i
  /\ isr' = "arm"
  /\ buf' = <<>> /\ i' = 0
  /\ UNCHANGED <<ringVars, cfg, nak, trn, irq, callVars, sent, got, cuts>>

Ep2Arm ==
  /\ isr = "arm"
  /\ nak' = FALSE
  /\ isr' = "ack"
  /\ UNCHANGED <<ringVars, cfg, trn, buf, irq, i, callVars, history>>

AckTrncompl ==
  /\ isr = "ack"
  /\ isr' = "off" /\ irq' = FALSE
  /\ UNCHANGED <<ringVars, cfg, epVars, i, callVars, history>>

-----------------------------------------------------------------------------
(* The sketch (main context): it runs only while no handler does.          *)

AvailableHead ==                     \* usbCdcAvailable: g_rx_head is loaded
  /\ isr = "off" /\ call = "idle"
  /\ seen' = head
  /\ call' = "available"
  /\ UNCHANGED <<ringVars, cfg, epVars, isrVars, next, promise, history>>

\* Mutant of AvailableTail: the difference is taken in 8 bits.
AvailableTailInByte ==
  /\ isr = "off" /\ call = "available"
  /\ promise' = (seen - tail) % 256
  /\ call' = "idle"
  /\ UNCHANGED <<ringVars, cfg, epVars, isrVars, next, seen, history>>

AvailableTail ==                     \* ... then g_rx_tail, and the difference returned
  /\ isr = "off" /\ call = "available"
  /\ promise' = Span(tail, seen)
  /\ call' = "idle"
  /\ UNCHANGED <<ringVars, cfg, epVars, isrVars, next, seen, history>>

ReadEmpty ==                         \* usbCdcRead returns -1
  /\ isr = "off" /\ call = "idle" /\ head = tail
  /\ promise' = 0
  /\ UNCHANGED <<ringVars, cfg, epVars, isrVars, call, next, seen, history>>

ReadByte ==                          \* b = g_rx_ring[g_rx_tail]
  /\ isr = "off" /\ call = "idle" /\ head # tail
  /\ got' = Append(got, ring[tail])
  /\ next' = Adv(tail, 1)
  /\ call' = "take"
  /\ UNCHANGED <<ringVars, cfg, epVars, isrVars, seen, promise, sent, dropped, cuts>>

TakeByte ==                          \* g_rx_tail is stored
  /\ isr = "off" /\ call = "take"
  /\ tail' = next
  /\ promise' = (IF promise > 0 THEN promise - 1 ELSE 0)
  /\ call' = "idle"
  /\ UNCHANGED <<ring, head, cfg, epVars, isrVars, next, seen, history>>

-----------------------------------------------------------------------------
(* Bus reset (usb_ep_table_init, usb_cdc_on_reset) and the two forms of    *)
(* handle_set_configuration().                                             *)

\* Mutant of BusReset: the head index keeps its old value.
BusResetKeepsHead ==
  /\ isr = "off" /\ cuts < MaxCuts
  /\ ResetMidCall \/ call = "idle"
  /\ tail' = 0
  /\ cfg' = 0 /\ nak' = FALSE /\ trn' = FALSE /\ buf' = <<>>
  /\ promise' = 0
  /\ sent' = 0 /\ dropped' = 0 /\ got' = <<>>
  /\ cuts' = cuts + 1
  /\ UNCHANGED <<ring, head, isrVars, call, next, seen>>

BusReset ==
  /\ isr = "off" /\ cuts < MaxCuts
  /\ ResetMidCall \/ call = "idle"
  /\ head' = 0 /\ tail' = 0
  /\ cfg' = 0 /\ nak' = FALSE /\ trn' = FALSE /\ buf' = <<>>
  /\ promise' = 0
  /\ sent' = 0 /\ dropped' = 0 /\ got' = <<>>
  /\ cuts' = cuts + 1
  /\ UNCHANGED <<ring, isrVars, call, next, seen>>

Configure ==                         \* SET_CONFIGURATION(1): a packet not yet
  /\ isr = "off" /\ cuts < MaxCuts   \* serviced is forgotten
  /\ cfg' = 1
  /\ nak' = FALSE /\ trn' = FALSE /\ buf' = <<>>
  /\ dropped' = dropped + Len(buf)
  /\ cuts' = cuts + 1
  /\ UNCHANGED <<ringVars, isrVars, callVars, sent, got>>

Deconfigure ==                       \* SET_CONFIGURATION(0)
  /\ isr = "off" /\ cuts < MaxCuts
  /\ cfg' = 0
  /\ cuts' = cuts + 1
  /\ UNCHANGED <<ringVars, epVars, isrVars, callVars, sent, dropped, got>>

-----------------------------------------------------------------------------
Sketch == AvailableHead \/ AvailableTail \/ ReadEmpty \/ ReadByte \/ TakeByte

Bus ==
  \/ \E n \in 0 .. PacketSize : HostOut(n)
  \/ OtherEndpoint \/ BusReset \/ Configure \/ Deconfigure

Handler == Ep2Service \/ CopyByte \/ CopyEnd \/ Ep2Arm \/ AckTrncompl

Next == Sketch \/ Bus \/ Handler

Spec == Init /\ [][Next]_vars

\* An enabled interrupt is taken and a running handler returns.  Neither the
\* host nor the sketch owes the port anything.
FairSpec == Spec /\ WF_vars(Handler)

-----------------------------------------------------------------------------
TypeOK ==
  /\ ring \in [Slot -> Nat] /\ head \in Slot /\ tail \in Slot
  /\ cfg \in {0, 1} /\ nak \in BOOLEAN /\ trn \in BOOLEAN
  /\ buf \in Seq(Nat) /\ Len(buf) <= PacketSize
  /\ irq \in BOOLEAN /\ isr \in {"off", "copy", "arm", "ack"}
  /\ i \in 0 .. Len(buf)
  /\ call \in {"idle", "available", "take"}
  /\ next \in Slot /\ seen \in Slot /\ promise \in Nat
  /\ sent \in Nat /\ dropped \in Nat /\ got \in Seq(Nat) /\ cuts \in Nat

\* What the sketch has read, what waits in the ring and what waits in the
\* packet buffer follow each other in the host's order without repetition, and
\* every byte the host sent is there or was counted as dropped: packets are
\* never overwritten before they are copied, nor bytes read twice or skipped.
RingSeq  == [k \in 1 .. Used |-> ring[Adv(tail, k - 1)]]
Unread   == IF call = "take" THEN Tail(RingSeq) ELSE RingSeq
Pending  == SubSeq(buf, i + 1, Len(buf))
Stream   == got \o Unread \o Pending
RxIntact ==
  /\ \A k \in 1 .. Len(Stream) - 1 : Stream[k] < Stream[k + 1]
  /\ Len(Stream) + dropped = sent

\* "Returns number of bytes available to read from RX buffer": as many reads
\* as usbCdcAvailable() promised return a byte, whatever the completion
\* handler does between the two loads of the indices or between the reads.
PromiseKept == promise <= Used

\* A byte is thrown away only when the ring is completely full, or when
\* SET_CONFIGURATION forgets the packet it came in.
DropsOnlyWhenFull == [][dropped' > dropped => Used = RingSize - 1 \/ cuts' > cuts]_vars

\* While the device stays configured, endpoint 2 comes back to the host after
\* every packet, empty ones and those that overflow the ring included: the
\* port never wedges.
AlwaysArmedAgain == <>[](cfg = 1) => []<>(~nak)

\* "Read one byte from RX buffer, returns -1 if empty": the sketch never reads
\* more bytes than the host sent.
NoPhantomRead == Len(got) <= sent

\* The ring side is a FIFO of the bytes that were not dropped.
Pipe == INSTANCE BytePipe WITH
          Byte <- 1 .. MaxBytes, Capacity <- RingSize - 1,
          queue <- Unread, out <- got
IsBytePipe == Pipe!Spec
=============================================================================
