----------------------------- MODULE Pluggable -----------------------------
(***************************************************************************)
(* A device with PluggableUSB modules: the IN endpoint of HID or MIDIUSB   *)
(* and the OUT endpoint of MIDIUSB, used by one main program, with the     *)
(* host resetting the bus and choosing configurations at any moment.       *)
(***************************************************************************)
EXTENDS DynIn, DynOut

CONSTANTS
  AckRace,               \* may the OUT endpoint complete between its check and the flag write
  MaxBusEvents           \* bound: bus resets and configurations

ASSUME PluggableAssumption == AckRace \in BOOLEAN /\ MaxBusEvents \in Nat

VARIABLES irq,           \* INTFLAGSB: TRNCOMPL, shared by all endpoints
          isr,           \* USB0_TRNCOMPL_vect: off, check (the OUT endpoint), ack
          hid,           \* the module is HID; otherwise MIDIUSB
          busEvents      \* counter of the bound

vars == <<inVars, outVars, irq, isr, hid, busEvents>>

Init ==
  /\ InInit /\ OutInit /\ irq = FALSE /\ isr = "off"
  /\ hid \in BOOLEAN /\ busEvents = 0

-----------------------------------------------------------------------------
(* usb_service_trncompl().                                                 *)

Handle(at, next) == isr = at /\ isr' = next /\ UNCHANGED <<inVars, hid, busEvents>>

EnterTrncompl == irq /\ Handle("off", "check") /\ UNCHANGED <<outVars, irq>>

Service == ServiceOut /\ Handle("check", "ack") /\ UNCHANGED irq

Skip == ~otrn /\ Handle("check", "ack") /\ UNCHANGED <<outVars, irq>>

Ack == Handle("ack", "off") /\ irq' = FALSE /\ UNCHANGED outVars

Handler == EnterTrncompl \/ Service \/ Skip \/ Ack

\* SETUP is handled first; then the completions that the handler saw when it began.
SetupPart ==
  /\ isr = "off" /\ isr' = (IF irq THEN "check" ELSE "off")
  /\ busEvents < MaxBusEvents /\ busEvents' = busEvents + 1
  /\ UNCHANGED <<irq, hid>>

SetConfiguration == InConfigured /\ OutConfigured /\ SetupPart

ClearConfiguration ==                 \* no dynamic OUT endpoint is disabled
  en /\ InDeconfigured /\ SetupPart /\ UNCHANGED outVars

BusReset ==                           \* USB0_BUSEVENT_vect
  /\ isr = "off" /\ busEvents < MaxBusEvents /\ busEvents' = busEvents + 1
  /\ InReset /\ OutReset /\ UNCHANGED <<irq, isr, hid>>

-----------------------------------------------------------------------------
(* The main program, when no handler runs, and the host.                   *)

Main == isr = "off" /\ UNCHANGED <<irq, isr, hid, busEvents>>

Call ==
  /\ apc = "idle" /\ Main
  /\ \/ hid /\ \E n \in Lens : SendReport(n)
     \/ ~hid /\ WriteEvent(EventLen)
     \/ ~hid /\ Flush
  /\ UNCHANGED outVars

Send == Sending /\ Main /\ UNCHANGED outVars

Read == pc = "idle" /\ Reading /\ Main /\ UNCHANGED inVars

HostIn == Collect /\ irq' = TRUE /\ UNCHANGED <<outVars, isr, hid, busEvents>>

HostOut ==                            \* HID has no OUT endpoint
  /\ ~hid /\ \E n \in 1 .. OutBuf \div EventLen : HostPacket(n)
  /\ AckRace \/ isr # "ack"
  /\ irq' = TRUE
  /\ UNCHANGED <<inVars, isr, hid, busEvents>>

Next == Handler \/ BusReset \/ SetConfiguration \/ ClearConfiguration \/ Call \/ Send \/ Read
        \/ HostIn \/ HostOut

\* The processor runs: a handler that is due is entered and returns, and between two
\* of them the main program goes on, whose loop reads again and again.  The host may
\* stop.
Spec == Init /\ [][Next]_vars /\ WF_vars(Handler) /\ SF_vars(Send) /\ SF_vars(Read)

-----------------------------------------------------------------------------
TypeOK ==
  /\ InTypes /\ OutTypes
  /\ irq \in BOOLEAN /\ isr \in {"off", "check", "ack"}
  /\ hid \in BOOLEAN /\ busEvents \in 0 .. MaxBusEvents

\* As long as no wait has timed out and no call was interrupted by a bus event,
\* the host has collected the staged bytes in order, each once: the staging
\* buffer is not written while the packet in it is in flight.
CollectedInOrder == ~broken => IsPrefix(wire, sent)

\* A report that SendReport() says was sent has been collected whole, unless the
\* same configuration saw a time-out or an interrupted call.
SuccessMeansCollected ==
  [][pc # "idle" /\ pc' = "idle" /\ release /\ ~broken' => wire = sent]_vars

\* Nothing staged before SET_CONFIGURATION is sent after it, although what a call
\* that gave up has staged stays in the buffer; when SET_CONFIGURATION falls in the
\* middle of a call, this is so again once a packet has gone out.
NothingStale ==
  en /\ ~nak /\ ~torn => \A i \in 1 .. cnt : buf[i] \in ToSet(sent)

\* USB_Send() and USB_Flush() come back, whatever the host does ("Times out
\* (returns) if the host never IN-polls").
AlwaysReturns == (pc # "idle") ~> (pc = "idle")

\* Until a byte is dropped, the events the host sent are, in order and without
\* a gap: those read, those kept, and the bytes in the two rings on their way.
NoEventMissing ==
  ~lost =>
    /\ \A e \in DOMAIN readout : readout[e] = EventBytes(e)
    /\ \A e \in DOMAIN InMidiRing : InMidiRing[e] = EventBytes(Len(readout) + e)
    /\ InRecv \o InRxRing \o InPacket = Flat(Len(readout) + Len(InMidiRing), events)

\* What the host has sent is read in the end, or a byte of it was dropped.
EventsRead == (events > 0) ~> (lost \/ Len(readout) >= events)
=============================================================================
