------------------------------- MODULE DynOut -------------------------------
(***************************************************************************)
(* An OUT endpoint of a PluggableUSB module and the reader of MIDIUSB: the *)
(* interrupt copies a packet into the endpoint's ring and arms the         *)
(* endpoint again; USB_Recv() drains the ring; MIDI_::accept() cuts what   *)
(* it gets into events, kept in a second ring, and MIDI_::read() returns   *)
(* them one by one.                                                        *)
(***************************************************************************)
EXTENDS Integers, Sequences

CONSTANTS OutBuf,        \* USBCORE_DYN_EP_BUF (64 in the source)
          RxRing,        \* USBCORE_DYN_RX_RING (64 in the source)
          EventLen,      \* sizeof(midiEventPacket_t) (4 in the source)
          RecvMax,       \* sizeof(event) in accept() (32 in the source)
          MidiRing,      \* MIDI_BUFFER_SIZE (64 in the source)
          MaxEvents      \* bound: events the host sends

ASSUME DynOutAssumption ==
  /\ {OutBuf, RxRing, EventLen, RecvMax} \subseteq Nat \ {0} /\ MidiRing \in Nat \ {0, 1}
  /\ RecvMax % EventLen = 0 /\ OutBuf % EventLen = 0 /\ MaxEvents \in Nat

VARIABLES
  oen, obuf, onak, otrn, \* EP.OUT: enabled, the packet in s_dyn_ep_buf, BUSNAK, TRNCOMPL
  rring, rhead, rtail,   \* s_dyn_rx_ring, s_dyn_rx_head, s_dyn_rx_tail
  apc, got,              \* MIDI_::read: idle, loop, recv, ret; the bytes USB_Recv has stored
  mring, mhead, mtail,   \* midi_rx_buffer
  events,                \* history: number of events the host sent
  readout,               \* history: events read() returned
  lost                   \* history: a byte was dropped or thrown away

outEp == <<oen, obuf, onak, otrn>>
rxRing == <<rring, rhead, rtail>>
midiRing == <<mring, mhead, mtail>>
outVars == <<outEp, rxRing, apc, got, midiRing, events, readout, lost>>

NoEvent == <<>>

OutInit ==
  /\ oen = FALSE /\ obuf = <<>> /\ onak = FALSE /\ otrn = FALSE
  /\ rring = [i \in 0 .. RxRing - 1 |-> 0] /\ rhead = 0 /\ rtail = 0
  /\ apc = "idle" /\ got = <<>>
  /\ mring = [i \in 0 .. MidiRing - 1 |-> NoEvent] /\ mhead = 0 /\ mtail = 0
  /\ events = 0 /\ readout = <<>> /\ lost = FALSE

\* The host sends event after event; byte k of its stream is the number k.
EventBytes(e) == [k \in 1 .. EventLen |-> (e - 1) * EventLen + k]
Flat(a, b) ==                         \* the bytes of events a + 1 to b
  [k \in 1 .. (b - a) * EventLen |-> a * EventLen + k]

-----------------------------------------------------------------------------
(* Rings of n slots: the indices run over 0 .. n - 1, a reader advances t  *)
(* and a writer h, and the two are equal when the ring is empty.           *)

Distance(t, h, n) == (h - t) % n      \* slots in use
Ringed(r, t, h, n) == [i \in 1 .. Distance(t, h, n) |-> r[(t + i - 1) % n]]
PutAll(r, h, n, q) ==                 \* the values of q stored from slot h on
  [s \in DOMAIN r |-> IF Distance(h, s, n) < Len(q) THEN q[Distance(h, s, n) + 1] ELSE r[s]]

-----------------------------------------------------------------------------
(* The host and usbcore_service_dynamic_ep_trncompl().                     *)

HostPacket(n) ==
  /\ oen /\ ~onak /\ n * EventLen <= OutBuf /\ events + n <= MaxEvents
  /\ obuf' = Flat(events, events + n) /\ events' = events + n
  /\ onak' = TRUE /\ otrn' = TRUE
  /\ UNCHANGED <<oen, rxRing, apc, got, midiRing, readout, lost>>

Used == Distance(rtail, rhead, RxRing)

\* Mutant of Free: the slot that tells a full ring from an empty one is used too.
FreeAll == RxRing - Used

Free == RxRing - 1 - Used

ServiceOut ==
  /\ otrn
  /\ LET n == IF Len(obuf) > Free THEN Free ELSE Len(obuf)    \* ring full: drop the rest
     IN /\ rring' = PutAll(rring, rhead, RxRing, SubSeq(obuf, 1, n))
        /\ rhead' = (rhead + n) % RxRing
        /\ lost' = (lost \/ n < Len(obuf))
  /\ otrn' = FALSE /\ onak' = FALSE
  /\ UNCHANGED <<oen, obuf, rtail, apc, got, midiRing, events, readout>>

OutReset ==
  /\ oen' = FALSE /\ onak' = FALSE /\ otrn' = FALSE
  /\ lost' = (lost \/ otrn)
  /\ UNCHANGED <<obuf, rxRing, apc, got, midiRing, events, readout>>

OutConfigured ==
  /\ oen' = TRUE /\ onak' = FALSE /\ otrn' = FALSE
  /\ lost' = (lost \/ otrn)
  /\ UNCHANGED <<obuf, rxRing, apc, got, midiRing, events, readout>>

-----------------------------------------------------------------------------
(* MIDI_::read() and MIDI_::accept().                                      *)

NextMidi(i) == (i + 1) % MidiRing

ReadKept ==
  /\ apc = "idle" /\ mhead # mtail
  /\ readout' = Append(readout, mring[mtail]) /\ mtail' = NextMidi(mtail)
  /\ UNCHANGED <<outEp, rxRing, apc, got, mring, mhead, events, lost>>

ReadAccept ==                         \* USB_Available()
  /\ apc = "idle" /\ mhead = mtail /\ rhead # rtail
  /\ apc' = "loop"
  /\ UNCHANGED <<outEp, rxRing, got, midiRing, events, readout, lost>>

AcceptLoop ==
  /\ apc = "loop"
  /\ apc' = (IF NextMidi(mhead) # mtail /\ rhead # rtail THEN "recv" ELSE "ret")
  /\ got' = <<>>
  /\ UNCHANGED <<outEp, rxRing, midiRing, events, readout, lost>>

RecvByte ==
  /\ apc = "recv" /\ Len(got) < RecvMax /\ rhead # rtail
  /\ got' = Append(got, rring[rtail]) /\ rtail' = (rtail + 1) % RxRing
  /\ UNCHANGED <<outEp, rring, rhead, apc, midiRing, events, readout, lost>>

MidiRoom == Distance(NextMidi(mhead), mtail, MidiRing)

\* Mutant of Kept: an event is stored over the oldest one when the ring is full.
KeptAll == Len(got) \div EventLen

Kept == IF Len(got) \div EventLen > MidiRoom THEN MidiRoom ELSE Len(got) \div EventLen

KeptEvents == [e \in 1 .. Kept |-> SubSeq(got, (e - 1) * EventLen + 1, e * EventLen)]

StoreEvents ==
  /\ apc = "recv" /\ (Len(got) = RecvMax \/ rhead = rtail)
  /\ IF Len(got) < EventLen
     THEN apc' = "ret" /\ UNCHANGED midiRing
     ELSE /\ apc' = "loop"
          /\ mring' = PutAll(mring, mhead, MidiRing, KeptEvents)
          /\ mhead' = (mhead + Kept) % MidiRing
          /\ UNCHANGED mtail
  /\ lost' = (lost \/ Len(got) # Kept * EventLen)
  /\ UNCHANGED <<outEp, rxRing, got, events, readout>>

ReadAccepted ==                       \* what is at the tail, stored or stale
  /\ apc = "ret"
  /\ apc' = "idle" /\ got' = <<>>
  /\ readout' = Append(readout, mring[mtail])
  /\ mtail' = (IF mhead # mtail THEN NextMidi(mtail) ELSE mtail)
  /\ UNCHANGED <<outEp, rxRing, mring, mhead, events, lost>>

Reading == ReadKept \/ ReadAccept \/ AcceptLoop \/ RecvByte \/ StoreEvents \/ ReadAccepted

OutTypes ==
  /\ Len(obuf) <= OutBuf /\ {oen, onak, otrn, lost} \subseteq BOOLEAN
  /\ rhead \in DOMAIN rring /\ rtail \in DOMAIN rring
  /\ mhead \in DOMAIN mring /\ mtail \in DOMAIN mring
  /\ apc \in {"idle", "loop", "recv", "ret"} /\ Len(got) <= RecvMax
  /\ events \in 0 .. MaxEvents

\* The events on their way, oldest first.
InMidiRing == Ringed(mring, mtail, mhead, MidiRing)
InRxRing == Ringed(rring, rtail, rhead, RxRing)
InRecv == IF apc = "recv" THEN got ELSE <<>>
InPacket == IF otrn THEN obuf ELSE <<>>
=============================================================================
