------------------------------- MODULE CdcTx --------------------------------
(***************************************************************************)
(* The device-to-host half of the native CDC port: the TX ring that the    *)
(* sketch fills (usbCdcWrite and friends, main context), the pump that     *)
(* moves it into endpoint 3 (usb_cdc.c, main context with interrupts off,  *)
(* the TRNCOMPL interrupt and the SOF interrupt), the zero-length packet   *)
(* that closes the host's transfer, and the bus reset and                  *)
(* SET_CONFIGURATION that cut the stream (usb_core.c, usb_standard.c).     *)
(*                                                                         *)
(* External, modelled from how the source uses them: endpoint 3 of the USB *)
(* peripheral (BUSNAK, the per-endpoint TRNCOMPL, the shared               *)
(* INTFLAGSB.TRNCOMPL) and the host, which takes an armed packet with an   *)
(* IN token.  INTFLAGSB.TRNCOMPL is a sticky flag: set by the completion   *)
(* of any endpoint, cleared by the write that ends the handler.            *)
(*                                                                         *)
(* A byte is its number in the stream (1, 2, 3, ... since the last bus     *)
(* reset), which is what order, loss and duplication are about.            *)
(***************************************************************************)
EXTENDS ByteRing, Sequences

CONSTANTS
  PacketSize,    \* USB_EP3_SIZE (64 in the source)
  AckRace,       \* may endpoint 3 complete between its check and the flag write
  ResetMidCall,  \* may a bus reset interrupt tx_ring_put()
  MaxBytes,      \* bound: bytes written per bus session
  MaxCuts        \* bound: bus resets and SET_CONFIGURATION requests

ASSUME TxAssumption ==
  /\ PacketSize \in Nat \ {0}
  /\ AckRace \in BOOLEAN /\ ResetMidCall \in BOOLEAN
  /\ MaxBytes \in Nat /\ MaxCuts \in Nat

VARIABLES
  ring, head, tail,    \* g_tx_ring, g_tx_head, g_tx_tail
  inFlight,            \* g_tx_in_flight
  lastFull,            \* g_tx_last_full
  cfg,                 \* g_current_configuration
  dtr,                 \* DTR bit of g_control_line_state
  nak, trn,            \* EP[3].IN.STATUS: BUSNAK and TRNCOMPL
  pkt,                 \* the first EP[3].IN.CNT bytes of g_ep3_in_buf
  irq,                 \* INTFLAGSB.TRNCOMPL
  isr,                 \* USB0_TRNCOMPL_vect: not running, or about to ack
  call,                \* where the sketch is inside the CDC API
  todo, put,           \* usbCdcWrite: bytes left, n (bytes enqueued)
  next,                \* tx_ring_put: next
  written, base, got,  \* history: bytes accepted; bytes cut; bytes the host has
  open,                \* history: the host's transfer awaits a short packet
  cuts                 \* history: resets and SET_CONFIGURATIONs so far

ringVars == <<ring, head, tail>>
flags    == <<inFlight, lastFull>>
devVars  == <<cfg, dtr>>
epVars   == <<nak, trn, pkt>>
intVars  == <<irq, isr>>
callVars == <<call, todo, put, next>>
history  == <<written, base, got, open, cuts>>
vars == <<ringVars, flags, devVars, epVars, intVars, callVars, history>>

Used        == Span(tail, head)
Outstanding == IF nak THEN 0 ELSE Len(pkt)

Init ==
  /\ ring = [i \in Slot |-> 0] /\ head = 0 /\ tail = 0
  /\ inFlight = FALSE /\ lastFull = FALSE /\ cfg = 0 /\ dtr = FALSE
  /\ nak = TRUE /\ trn = FALSE /\ pkt = <<>>
  /\ irq = FALSE /\ isr = "off"
  /\ call = "idle" /\ todo = 0 /\ put = 0 /\ next = 0
  /\ written = 0 /\ base = 0 /\ got = <<>> /\ open = FALSE
  /\ cuts = 0

-----------------------------------------------------------------------------
(* cdc_tx_pump(): move up to PacketSize bytes into endpoint 3 and arm it.  *)
(* busy is the value g_tx_in_flight has when the pump is entered.          *)

\* Mutant of PumpReady: the guards on the armed endpoint are dropped.
PumpUnguarded(busy) == cfg = 1 /\ head # tail

PumpReady(busy) == ~busy /\ cfg = 1 /\ nak /\ head # tail

\* Mutant of Arm: a full packet is not remembered.
ArmForgetsFull ==
  LET n == IF Used < PacketSize THEN Used ELSE PacketSize IN
  /\ pkt' = [i \in 1 .. n |-> ring[Adv(tail, i - 1)]]
  /\ tail' = Adv(tail, n)
  /\ nak' = FALSE
  /\ inFlight' = TRUE
  /\ lastFull' = FALSE

Arm ==
  LET n == IF Used < PacketSize THEN Used ELSE PacketSize IN
  /\ pkt' = [i \in 1 .. n |-> ring[Adv(tail, i - 1)]]
  /\ tail' = Adv(tail, n)
  /\ nak' = FALSE
  /\ inFlight' = TRUE
  /\ lastFull' = (n = PacketSize)

Pump(busy) ==
  \/ PumpReady(busy) /\ Arm
  \/ ~PumpReady(busy) /\ inFlight' = busy /\ UNCHANGED <<pkt, tail, nak, lastFull>>

-----------------------------------------------------------------------------
(* The sketch (main context): it runs only while no handler does.          *)

WriteCall(len) ==                    \* usbCdcWrite(src, len); len 1 is usbCdcWriteByte
  /\ isr = "off" /\ call = "idle" /\ written + len <= MaxBytes
  /\ call' = "put" /\ todo' = len /\ put' = 0
  /\ UNCHANGED <<ringVars, flags, devVars, epVars, intVars, history, next>>

PutByte ==                           \* tx_ring_put up to the slot write
  /\ isr = "off" /\ call = "put" /\ todo > 0 /\ ~Full(tail, head)
  /\ next' = Adv(head, 1)
  /\ ring' = [ring EXCEPT ![head] = written + 1]
  /\ call' = "commit"
  /\ UNCHANGED <<flags, devVars, epVars, intVars, history, head, tail, todo,
                 put>>

CommitByte ==                        \* g_tx_head = next
  /\ isr = "off" /\ call = "commit"
  /\ head' = next
  /\ written' = written + 1
  /\ todo' = todo - 1 /\ put' = put + 1
  /\ call' = "put"
  /\ UNCHANGED <<flags, devVars, epVars, intVars, ring, tail, next, base,
                 got, open, cuts>>

PutEnd ==                            \* all enqueued, or the ring is full
  /\ isr = "off" /\ call = "put" /\ (todo = 0 \/ Full(tail, head))
  /\ call' = (IF put > 0 THEN "kick" ELSE "idle")
  /\ UNCHANGED <<ringVars, flags, devVars, epVars, intVars, history, todo,
                 put, next>>

Kick ==                              \* cdc_tx_kick(): the pump with interrupts off
  /\ isr = "off" /\ call = "kick"
  /\ Pump(inFlight)
  /\ call' = "idle"
  /\ UNCHANGED <<devVars, intVars, history, ring, head, trn, todo, put, next>>

Poll ==                              \* usbCdcPoll()
  /\ isr = "off" /\ call = "idle"
  /\ Pump(inFlight)
  /\ UNCHANGED <<devVars, intVars, callVars, history, ring, head, trn>>

\* flush() loops over usbCdcTxIdle(), which reads g_tx_in_flight first and the
\* two ring indices afterwards.  It also returns when the port is not ready
\* (unconfigured, or DTR low) and when its guard counter runs out.
FlushCall ==
  /\ isr = "off" /\ call = "idle"
  /\ call' = "flush"
  /\ UNCHANGED <<ringVars, flags, devVars, epVars, intVars, history, todo,
                 put, next>>

FlushGivesUp ==
  /\ isr = "off" /\ call = "flush"
  /\ call' = "idle"
  /\ UNCHANGED <<ringVars, flags, devVars, epVars, intVars, history, todo,
                 put, next>>

FlushSeesNoFlight ==                 \* !g_tx_in_flight
  /\ isr = "off" /\ call = "flush" /\ cfg = 1 /\ dtr /\ ~inFlight
  /\ call' = "flushRing"
  /\ UNCHANGED <<ringVars, flags, devVars, epVars, intVars, history, todo,
                 put, next>>

FlushReadsRing ==                    \* ... && g_tx_head == g_tx_tail
  /\ isr = "off" /\ call = "flushRing"
  /\ call' = (IF head = tail THEN "idle" ELSE "flush")
  /\ UNCHANGED <<ringVars, flags, devVars, epVars, intVars, history, todo,
                 put, next>>

-----------------------------------------------------------------------------
(* The USB peripheral and the host.                                        *)

HostIn ==                            \* an IN token meets the armed endpoint
  /\ cfg = 1 /\ ~nak
  /\ AckRace \/ isr # "ack"
  /\ nak' = TRUE /\ trn' = TRUE /\ irq' = TRUE
  /\ got' = got \o pkt
  /\ open' = (Len(pkt) = PacketSize)
  /\ UNCHANGED <<ringVars, flags, devVars, callVars, pkt, isr, written,
                 base, cuts>>

OtherEndpoint ==                     \* endpoint 0 or 2 completes a transaction
  /\ ~irq
  /\ irq' = TRUE
  /\ UNCHANGED <<ringVars, flags, devVars, epVars, callVars, history, isr>>

-----------------------------------------------------------------------------
(* USB0_TRNCOMPL_vect: usb_service_trncompl() checks endpoint 3, calls     *)
(* usb_cdc_on_ep3_in_done(), and clears INTFLAGSB.TRNCOMPL when it ends.   *)

Ep3Done ==
  /\ isr = "off" /\ irq
  /\ isr' = "ack"
  /\ trn' = FALSE
  /\ \/ trn /\ Pump(FALSE)
     \/ ~trn /\ UNCHANGED <<flags, pkt, tail, nak>>
  /\ UNCHANGED <<devVars, callVars, history, ring, head, irq>>

AckTrncompl ==
  /\ isr = "ack"
  /\ isr' = "off" /\ irq' = FALSE
  /\ UNCHANGED <<ringVars, flags, devVars, epVars, callVars, history>>

(* USB0_BUSEVENT_vect, start of frame: usb_cdc_on_sof().                   *)

SofPump ==
  /\ isr = "off" /\ cfg = 1 /\ ~inFlight /\ head # tail
  /\ Pump(inFlight)
  /\ UNCHANGED <<devVars, intVars, callVars, history, ring, head, trn>>

\* Mutant of SofZlp: lastFull stays set, so the idle link keeps sending ZLPs.
SofZlpAgain ==
  /\ isr = "off" /\ cfg = 1 /\ ~inFlight /\ head = tail
  /\ lastFull /\ nak
  /\ pkt' = <<>> /\ nak' = FALSE
  /\ inFlight' = TRUE
  /\ UNCHANGED <<ringVars, devVars, intVars, callVars, history, lastFull,
                 trn>>

SofZlp ==
  /\ isr = "off" /\ cfg = 1 /\ ~inFlight /\ head = tail
  /\ lastFull /\ nak
  /\ pkt' = <<>> /\ nak' = FALSE
  /\ inFlight' = TRUE /\ lastFull' = FALSE
  /\ UNCHANGED <<ringVars, devVars, intVars, callVars, history, trn>>

(* USB0_BUSEVENT_vect, bus reset: usb_ep_table_init(), usb_cdc_on_reset(). *)

\* Mutant of BusReset: the tail index keeps its old value.
BusResetKeepsTail ==
  /\ isr = "off" /\ cuts < MaxCuts
  /\ ResetMidCall \/ call # "commit"
  /\ head' = 0
  /\ inFlight' = FALSE /\ lastFull' = FALSE /\ cfg' = 0 /\ dtr' = FALSE
  /\ nak' = TRUE /\ trn' = FALSE /\ pkt' = <<>>
  /\ written' = 0 /\ base' = 0 /\ got' = <<>> /\ open' = FALSE
  /\ cuts' = cuts + 1
  /\ UNCHANGED <<intVars, callVars, ring, tail>>

BusReset ==
  /\ isr = "off" /\ cuts < MaxCuts
  /\ ResetMidCall \/ call # "commit"
  /\ head' = 0 /\ tail' = 0
  /\ inFlight' = FALSE /\ lastFull' = FALSE /\ cfg' = 0 /\ dtr' = FALSE
  /\ nak' = TRUE /\ trn' = FALSE /\ pkt' = <<>>
  /\ written' = 0 /\ base' = 0 /\ got' = <<>> /\ open' = FALSE
  /\ cuts' = cuts + 1
  /\ UNCHANGED <<intVars, callVars, ring>>

(* SETUP part of usb_service_trncompl(): handle_set_configuration().       *)

\* Mutant of Configure: usb_cdc_on_configured() forgets the packet in flight.
ConfigureKeepsFlight ==                         \* SET_CONFIGURATION(1)
  /\ isr = "off" /\ cuts < MaxCuts
  /\ cfg' = 1
  /\ nak' = TRUE /\ trn' = FALSE /\ pkt' = <<>>
  /\ lastFull' = FALSE
  /\ base' = base + Len(got) + Outstanding /\ got' = <<>> /\ open' = FALSE
  /\ cuts' = cuts + 1
  /\ UNCHANGED <<ringVars, intVars, callVars, inFlight, dtr, written>>

Configure ==                         \* SET_CONFIGURATION(1)
  /\ isr = "off" /\ cuts < MaxCuts
  /\ cfg' = 1
  /\ nak' = TRUE /\ trn' = FALSE /\ pkt' = <<>>
  /\ inFlight' = FALSE /\ lastFull' = FALSE
  /\ base' = base + Len(got) + Outstanding /\ got' = <<>> /\ open' = FALSE
  /\ cuts' = cuts + 1
  /\ UNCHANGED <<ringVars, intVars, callVars, dtr, written>>

Deconfigure ==                       \* SET_CONFIGURATION(0)
  /\ isr = "off" /\ cuts < MaxCuts
  /\ cfg' = 0
  /\ cuts' = cuts + 1
  /\ UNCHANGED <<ringVars, flags, epVars, intVars, callVars, dtr, written,
                 base, got, open>>

ControlLineState ==                  \* SET_CONTROL_LINE_STATE, its DTR bit
  /\ isr = "off"
  /\ dtr' = ~dtr
  /\ UNCHANGED <<ringVars, flags, epVars, intVars, callVars, history, cfg>>

-----------------------------------------------------------------------------
Sketch ==
  \/ \E len \in 1 .. MaxBytes : WriteCall(len)
  \/ PutByte \/ CommitByte \/ PutEnd \/ Kick \/ Poll
  \/ FlushCall \/ FlushGivesUp \/ FlushSeesNoFlight \/ FlushReadsRing

Bus == HostIn \/ OtherEndpoint \/ BusReset \/ Configure \/ Deconfigure \/ ControlLineState

Handler == Ep3Done \/ AckTrncompl \/ SofPump \/ SofZlp

Next == Sketch \/ Bus \/ Handler

Spec == Init /\ [][Next]_vars

Returning == PutByte \/ CommitByte \/ PutEnd \/ Kick \/ FlushGivesUp \/ FlushReadsRing
Sof       == SofPump \/ SofZlp

\* The sketch finishes an API call it started (the AVR executes at least one
\* instruction of the main program between two interrupts), an enabled
\* interrupt is taken, a start of frame arrives every millisecond, and the
\* host keeps polling the bulk endpoint of a configured device.  The steps that
\* a running handler holds up need strong fairness.
Fairness ==
  /\ SF_vars(Returning) /\ SF_vars(Sof) /\ SF_vars(HostIn)
  /\ WF_vars(Ep3Done) /\ WF_vars(AckTrncompl)

FairSpec == Spec /\ Fairness

\* As FairSpec, and the sketch calls usbCdcPoll() again and again.
PollingSpec == FairSpec /\ WF_vars(Poll)

-----------------------------------------------------------------------------
TypeOK ==
  /\ ring \in [Slot -> Nat] /\ head \in Slot /\ tail \in Slot
  /\ inFlight \in BOOLEAN /\ lastFull \in BOOLEAN /\ cfg \in {0, 1} /\ dtr \in BOOLEAN
  /\ nak \in BOOLEAN /\ trn \in BOOLEAN
  /\ pkt \in Seq(Nat) /\ Len(pkt) <= PacketSize
  /\ irq \in BOOLEAN /\ isr \in {"off", "ack"}
  /\ call \in {"idle", "put", "commit", "kick", "flush", "flushRing"}
  /\ todo \in Nat /\ put \in Nat /\ next \in Slot
  /\ written \in Nat /\ base \in Nat /\ got \in Seq(Nat) /\ open \in BOOLEAN
  /\ cuts \in Nat

\* Every byte the port accepted is in exactly one place, in stream order: with
\* the host, in the armed packet, or in the ring.  Nothing is lost, repeated
\* or reordered between tx_ring_put() and the wire, whichever of the main
\* context, the EP3-done handler and the SOF handler runs the pump.
HostBytes   == \A i \in DOMAIN got : got[i] = base + i
PacketBytes == ~nak => \A i \in DOMAIN pkt : pkt[i] = base + Len(got) + i
RingBytes   == \A k \in 0 .. RingSize - 1 :
                 k < Used => ring[Adv(tail, k)] = written - Used + k + 1
Conserved   == base + Len(got) + Outstanding + Used = written
StreamIntact == HostBytes /\ PacketBytes /\ RingBytes /\ Conserved

\* g_tx_in_flight agrees with the hardware: an armed packet is always in
\* flight, and on a configured device a packet in flight is still armed or its
\* completion is going to be serviced, so the pump cannot stay blocked.
FlightOwned ==
  /\ ~nak => inFlight
  /\ inFlight /\ cfg = 1 => ~nak \/ (trn /\ irq)

\* The DMA buffer g_ep3_in_buf and its count are never touched while
\* endpoint 3 is armed.
ArmedStable == [][~nak /\ ~nak' => pkt' = pkt]_vars

\* A zero-length packet is sent only to end a transfer that the host still
\* holds open after a full packet: "an idle link emits exactly one
\* terminating ZLP", and a short packet is followed by none.
ZlpEndsTransfer == [][nak /\ ~nak' /\ pkt' = <<>> => open]_vars

\* Once the device stays configured, everything the sketch wrote reaches the
\* host and the host's transfer is closed by a short packet, so the bytes are
\* released to the host application.
Drained == base + Len(got) = written /\ ~open
EventuallyDrained == <>[](cfg = 1) => <>[]Drained

\* flush() returns through usbCdcTxIdle() only when "the ring is empty and the
\* last packet has gone out".
FlushMeansSent ==
  [][call = "flushRing" /\ call' = "idle" => base + Len(got) = written]_vars

\* The port is a FIFO of bytes: what is armed, then what is in the ring.
RingSeq == [k \in 1 .. Used |-> ring[Adv(tail, k - 1)]]
Pipe == INSTANCE BytePipe WITH
          Byte <- 1 .. MaxBytes, Capacity <- RingSize - 1 + PacketSize,
          queue <- (IF nak THEN <<>> ELSE pkt) \o RingSeq, out <- got
IsBytePipe == Pipe!Spec
=============================================================================
