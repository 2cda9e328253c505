----------------------------- MODULE Ep0Control -----------------------------
(***************************************************************************)
(* The default control pipe: the state machine of usb_core.c, the requests *)
(* of usb_standard.c that change what it does, the class requests of       *)
(* usb_cdc.c and the data stage of a plugged module's SET_REPORT           *)
(* (USBCore_DU_dyn.cpp), with the deferred 1200 bps touch reset.           *)
(*                                                                         *)
(* External, modelled from how the source uses them: the host, which runs  *)
(* one control transfer after another, may give one up and may reset the   *)
(* bus; and endpoint 0 of the peripheral.  A SETUP packet is written       *)
(* through EP[0].OUT.DATAPTR and sets BUSNAK in both directions; a         *)
(* completed transaction sets BUSNAK and TRNCOMPL of its direction and the *)
(* shared, sticky INTFLAGSB.TRNCOMPL.                                      *)
(*                                                                         *)
(* Bytes of a data stage are their offsets; a request is a record of what  *)
(* the handlers look at.                                                   *)
(***************************************************************************)
EXTENDS Integers

CONSTANTS
  PacketSize,      \* USB_EP0_SIZE (64 in the source)
  MaxLen,          \* bound: lengths of answers and wLength
  MaxAddr,         \* bound: addresses the host assigns
  TouchTicks,      \* CDC_RESET_TIMEOUT_TICKS (15 in the source)
  MaxRequests,     \* bound: control transfers
  MaxResets,       \* bound: bus resets
  LateIsr,         \* may a SETUP arrive before the last completion is serviced
  AbandonDataOut,  \* may the host give up in an OUT data stage
  ResetInReport    \* may the bus be reset before the data of a SET_REPORT is serviced

ASSUME Ep0Assumption ==
  /\ PacketSize \in Nat \ {0} /\ MaxLen \in Nat /\ MaxAddr \in Nat
  /\ TouchTicks \in Nat \ {0} /\ MaxRequests \in Nat /\ MaxResets \in Nat
  /\ LateIsr \in BOOLEAN /\ AbandonDataOut \in BOOLEAN /\ ResetInReport \in BOOLEAN

\* get: GET_DESCRIPTOR, GET_STATUS, GET_CONFIGURATION, GET_INTERFACE,
\* GET_LINE_CODING and the reads of plugged modules; len is 0 when the module
\* accepts the request without data (HID_::setup() of GET_REPORT).  report:
\* SET_REPORT; long when wLength is more than one packet.  plain: requests to the
\* device that are answered by ep0_send_zlp() alone.  bad: those that are refused.
Get     == [kind : {"get"}, len : 0 .. MaxLen, want : 0 .. MaxLen]
Address == [kind : {"address"}, addr : 1 .. MaxAddr]
Config  == [kind : {"config"}, value : 0 .. 2]
Line    == [kind : {"line"}, slow : BOOLEAN]       \* SET_LINE_CODING; slow is 1200 baud
State   == [kind : {"state"}, dtr : BOOLEAN]       \* SET_CONTROL_LINE_STATE
Report  == [kind : {"report"}, long : BOOLEAN]
Other   == [kind : {"plain", "bad"}]
Request == Get \cup Address \cup Config \cup Line \cup State \cup Report \cup Other
NoRequest == [kind |-> "none"]

VARIABLES
  state,                      \* g_ctrl_state
  src, rem, needZlp,          \* g_ep0_in_src, g_ep0_in_rem, g_ep0_in_need_zlp
  setupBuf,                   \* g_ep0_setup_buf
  inNak, inTrn, inFrom, inCnt,\* EP[0].IN: BUSNAK, TRNCOMPL, what is armed
  outNak, outTrn, outPtr,     \* EP[0].OUT: BUSNAK, TRNCOMPL, DATAPTR
  stall,                      \* EP[0]: DOSTALL, both directions
  setupIrq, trnIrq,           \* INTFLAGSB: SETUP, TRNCOMPL
  isr,                        \* USB0_TRNCOMPL_vect: the next part it runs; "boot" once
                              \* perform_1200bps_reset() has detached the device
  addr, pendingAddr, cfg,     \* USB0.ADDR, g_pending_address, g_current_configuration
  slow, dtr,                  \* g_line_coding.dwDTERate = 1200, DTR of g_control_line_state
  pendingSlc, reportPending,  \* g_pending_set_line_coding, s_ctrl_out_pending
  countdown,                  \* g_reset_countdown
  phase, req, hostAddr,       \* host: stage and request of its transfer, address it uses
  rcvd, inOrder,              \* host: bytes of the data stage, each at its place
  touched, owed,              \* history: a touch was completed; its request is still open
  requests, resets            \* history: transfers and bus resets so far

ctrl   == <<state, src, rem, needZlp>>
inEp   == <<inNak, inTrn, inFrom, inCnt>>
outEp  == <<outNak, outTrn, outPtr>>
intr   == <<setupIrq, trnIrq, isr>>
device == <<addr, pendingAddr, cfg>>
cdc    == <<slow, dtr, pendingSlc, reportPending>>
touch  == <<countdown, touched, owed>>
host   == <<phase, req, hostAddr, rcvd, inOrder, requests, resets>>
vars   == <<ctrl, setupBuf, inEp, outEp, stall, intr, device, cdc, touch, host>>

Init ==
  /\ state = "idle" /\ src = 0 /\ rem = 0 /\ needZlp = FALSE
  /\ setupBuf = NoRequest
  /\ inNak = TRUE /\ inTrn = FALSE /\ inFrom = 0 /\ inCnt = 0
  /\ outNak = FALSE /\ outTrn = FALSE /\ outPtr = "setup"
  /\ stall = FALSE /\ setupIrq = FALSE /\ trnIrq = FALSE /\ isr = "off"
  /\ addr = 0 /\ pendingAddr = 0 /\ cfg = 0
  /\ slow = FALSE /\ dtr = FALSE /\ pendingSlc = FALSE /\ reportPending = FALSE
  /\ countdown = 0 /\ touched = FALSE /\ owed = FALSE
  /\ phase = "idle" /\ req = NoRequest /\ hostAddr = 0
  /\ rcvd = 0 /\ inOrder = TRUE /\ requests = 0 /\ resets = 0

-----------------------------------------------------------------------------
(* EP0 helpers of usb_core.c.                                              *)

\* Mutant of ChunkSize: the last packet is not cut to what remains.
ChunkAlwaysFull(left) == PacketSize

ChunkSize(left) == IF left > PacketSize THEN PacketSize ELSE left

\* Mutant of SendChunk: g_ep0_in_src does not advance.
SendChunkAgain(from, left, n) ==
  /\ src' = from /\ rem' = left - n
  /\ inFrom' = from /\ inCnt' = n
  /\ inTrn' = FALSE /\ inNak' = FALSE

SendChunk(from, left, n) ==          \* ep0_send_chunk
  /\ src' = from + n /\ rem' = left - n
  /\ inFrom' = from /\ inCnt' = n
  /\ inTrn' = FALSE /\ inNak' = FALSE

\* Mutant of NeedZlp: a full last packet is taken for the end of the transfer.
NeverZlp(len, want) == FALSE

NeedZlp(len, want) == len < want /\ len # 0 /\ len % PacketSize = 0

StartDataIn(len, want) ==            \* ep0_start_data_in_ex
  LET n == IF len > want THEN want ELSE len IN
  /\ needZlp' = NeedZlp(n, want)
  /\ outTrn' = FALSE /\ outNak' = FALSE
  /\ state' = "dataIn"
  /\ SendChunk(0, n, ChunkSize(n))
  /\ UNCHANGED outPtr

StartDataOut(buffer) ==              \* ep0_start_data_out
  /\ outPtr' = buffer
  /\ outTrn' = FALSE /\ outNak' = FALSE
  /\ state' = "dataOut"
  /\ inCnt' = 0
  /\ UNCHANGED <<src, rem, needZlp, inNak, inTrn, inFrom>>

SendZlp ==                           \* ep0_send_zlp
  /\ inCnt' = 0 /\ inTrn' = FALSE /\ inNak' = FALSE
  /\ state' = "statusIn"
  /\ UNCHANGED <<src, rem, needZlp, inFrom>>

\* arm_1200bps_reset; the host may have given the request up meanwhile.
ArmTouch == countdown' = TouchTicks /\ owed' = (phase # "idle")

-----------------------------------------------------------------------------
(* handle_setup(), one action per kind of request.  It clears DOSTALL and  *)
(* decodes g_ep0_setup_buf; usb_service_trncompl() then clears             *)
(* INTFLAGSB.SETUP and goes on with the completions that its first read of *)
(* INTFLAGSB showed.                                                       *)

Decode(kind) ==
  /\ isr = "off" /\ setupIrq /\ setupBuf.kind = kind
  /\ setupIrq' = FALSE
  /\ isr' = (IF trnIrq THEN "in" ELSE "off")
  /\ UNCHANGED <<setupBuf, trnIrq, host, touched>>

SetupGet ==
  /\ Decode("get") /\ setupBuf.len > 0
  /\ StartDataIn(setupBuf.len, setupBuf.want)
  /\ stall' = FALSE
  /\ UNCHANGED <<device, cdc, countdown, owed>>

SetupEmpty ==                        \* accepted without data: EP[0].OUT is not armed
  /\ Decode("get") /\ setupBuf.len = 0
  /\ SendZlp
  /\ stall' = FALSE
  /\ UNCHANGED <<outEp, device, cdc, countdown, owed>>

\* Mutant of SetupAddress: the address is applied at once.
SetupAddressNow ==
  /\ Decode("address")
  /\ addr' = setupBuf.addr
  /\ SendZlp
  /\ stall' = FALSE
  /\ UNCHANGED <<outEp, pendingAddr, cfg, cdc, countdown, owed>>

SetupAddress ==                      \* handle_set_address
  /\ Decode("address")
  /\ pendingAddr' = setupBuf.addr
  /\ inCnt' = 0 /\ inNak' = FALSE
  /\ state' = "pendingAddr"
  /\ stall' = FALSE
  /\ UNCHANGED <<src, rem, needZlp, inTrn, inFrom, outEp, addr, cfg, cdc, countdown, owed>>

SetupConfig ==                       \* handle_set_configuration, values 0 and 1
  /\ Decode("config") /\ setupBuf.value \in {0, 1}
  /\ cfg' = setupBuf.value
  /\ SendZlp
  /\ stall' = FALSE
  /\ UNCHANGED <<outEp, addr, pendingAddr, cdc, countdown, owed>>

SetupLine ==                         \* SET_LINE_CODING
  /\ Decode("line")
  /\ pendingSlc' = TRUE
  /\ StartDataOut("line")
  /\ stall' = FALSE
  /\ UNCHANGED <<device, slow, dtr, reportPending, countdown, owed>>

SetupState ==                        \* SET_CONTROL_LINE_STATE
  /\ Decode("state")
  /\ dtr' = setupBuf.dtr
  /\ SendZlp
  /\ IF ~setupBuf.dtr /\ slow THEN ArmTouch ELSE UNCHANGED <<countdown, owed>>
  /\ stall' = FALSE
  /\ UNCHANGED <<outEp, device, slow, pendingSlc, reportPending>>

SetupReport ==                       \* usbcore_ctrl_out_begin: one packet, also when long
  /\ Decode("report")
  /\ reportPending' = TRUE
  /\ StartDataOut("report")
  /\ stall' = FALSE
  /\ UNCHANGED <<device, slow, dtr, pendingSlc, countdown, owed>>

SetupPlain ==
  /\ Decode("plain")
  /\ SendZlp
  /\ stall' = FALSE
  /\ UNCHANGED <<outEp, device, cdc, countdown, owed>>

Refuse ==                            \* ep0_stall
  /\ stall' = TRUE
  /\ state' = "idle"
  /\ UNCHANGED <<src, rem, needZlp, inEp, outEp, device, cdc, countdown, owed>>

SetupBad       == Decode("bad") /\ Refuse
SetupBadConfig == Decode("config") /\ setupBuf.value = 2 /\ Refuse

SetupPart ==
  \/ SetupGet \/ SetupEmpty \/ SetupAddress \/ SetupConfig \/ SetupLine \/ SetupState
  \/ SetupReport \/ SetupPlain \/ SetupBad \/ SetupBadConfig

-----------------------------------------------------------------------------
(* The TRNCOMPL half of usb_service_trncompl().                            *)

EnterTrncompl ==
  /\ isr = "off" /\ ~setupIrq /\ trnIrq
  /\ isr' = "in"
  /\ UNCHANGED <<ctrl, setupBuf, inEp, outEp, stall, setupIrq, trnIrq, device,
                 cdc, touch, host>>

InPart(step) ==                      \* EP[0].IN has TRNCOMPL set
  /\ isr = "in" /\ inTrn
  /\ isr' = "out"
  /\ step
  /\ UNCHANGED <<setupBuf, outEp, stall, setupIrq, trnIrq, cfg, cdc, touch, host>>

NextChunk ==
  InPart(/\ state = "dataIn" /\ rem > 0
         /\ SendChunk(src, rem, ChunkSize(rem))
         /\ UNCHANGED <<state, needZlp, addr, pendingAddr>>)

LastZlp ==
  InPart(/\ state = "dataIn" /\ rem = 0 /\ needZlp
         /\ needZlp' = FALSE
         /\ SendChunk(src, rem, 0)
         /\ UNCHANGED <<state, addr, pendingAddr>>)

DataInDone ==
  InPart(/\ state = "dataIn" /\ rem = 0 /\ ~needZlp
         /\ state' = "statusOut" /\ inTrn' = FALSE
         /\ UNCHANGED <<src, rem, needZlp, inNak, inFrom, inCnt, addr, pendingAddr>>)

ApplyAddress ==
  InPart(/\ state = "pendingAddr"
         /\ addr' = pendingAddr /\ pendingAddr' = 0
         /\ state' = "idle" /\ inTrn' = FALSE
         /\ UNCHANGED <<src, rem, needZlp, inNak, inFrom, inCnt>>)

StatusInDone ==
  InPart(/\ state \notin {"dataIn", "pendingAddr"}
         /\ state' = "idle" /\ inTrn' = FALSE
         /\ UNCHANGED <<src, rem, needZlp, inNak, inFrom, inCnt, addr, pendingAddr>>)

NoIn ==
  /\ isr = "in" /\ ~inTrn
  /\ isr' = "out"
  /\ UNCHANGED <<ctrl, setupBuf, inEp, outEp, stall, setupIrq, trnIrq, device,
                 cdc, touch, host>>

\* Mutant of LineCodingDone: only SET_CONTROL_LINE_STATE can trigger the reset.
LineCodingNoTouch == pendingSlc' = FALSE /\ UNCHANGED <<countdown, owed>>

LineCodingDone ==                    \* usb_cdc_data_out_complete
  /\ pendingSlc' = FALSE
  /\ IF pendingSlc /\ slow /\ ~dtr THEN ArmTouch ELSE UNCHANGED <<countdown, owed>>

DataOutConsumer ==                   \* usb_class_data_out_complete
  \/ /\ reportPending
     /\ reportPending' = FALSE
     /\ UNCHANGED <<pendingSlc, countdown, owed>>
  \/ /\ ~reportPending
     /\ LineCodingDone
     /\ UNCHANGED reportPending

\* Mutant of DataOutDone: EP[0].OUT.DATAPTR is not restored.
DataOutDoneKeepsPointer ==
  /\ isr = "out" /\ outTrn /\ state = "dataOut"
  /\ isr' = "ack" /\ outTrn' = FALSE
  /\ DataOutConsumer
  /\ SendZlp
  /\ UNCHANGED <<setupBuf, outNak, outPtr, stall, setupIrq, trnIrq, device, slow,
                 dtr, touched, host>>

DataOutDone ==
  /\ isr = "out" /\ outTrn /\ state = "dataOut"
  /\ isr' = "ack" /\ outTrn' = FALSE
  /\ DataOutConsumer
  /\ outPtr' = "setup"
  /\ SendZlp
  /\ UNCHANGED <<setupBuf, outNak, stall, setupIrq, trnIrq, device, slow, dtr,
                 touched, host>>

StatusOutDone ==
  /\ isr = "out" /\ outTrn /\ state # "dataOut"
  /\ isr' = "ack" /\ outTrn' = FALSE
  /\ state' = "idle"
  /\ UNCHANGED <<src, rem, needZlp, setupBuf, inEp, outNak, outPtr, stall,
                 setupIrq, trnIrq, device, cdc, touch, host>>

NoOut ==
  /\ isr = "out" /\ ~outTrn
  /\ isr' = "ack"
  /\ UNCHANGED <<ctrl, setupBuf, inEp, outEp, stall, setupIrq, trnIrq, device,
                 cdc, touch, host>>

AckTrncompl ==
  /\ isr = "ack"
  /\ isr' = "off" /\ trnIrq' = FALSE
  /\ UNCHANGED <<ctrl, setupBuf, inEp, outEp, stall, setupIrq, device, cdc,
                 touch, host>>

TrncomplPart ==
  \/ EnterTrncompl
  \/ NextChunk \/ LastZlp \/ DataInDone \/ ApplyAddress \/ StatusInDone \/ NoIn
  \/ DataOutDone \/ StatusOutDone \/ NoOut \/ AckTrncompl

-----------------------------------------------------------------------------
(* The touch part of usb_cdc_on_sof().                                     *)

\* Mutant of SofTouch: the reset does not wait for the status stage.
SofTouchAtOnce ==
  /\ isr = "off" /\ countdown > 0
  /\ isr' = "boot"
  /\ UNCHANGED <<ctrl, setupBuf, inEp, outEp, stall, setupIrq, trnIrq, device,
                 cdc, touch, host>>

SofTouch ==
  /\ isr = "off" /\ countdown > 0
  /\ \/ /\ state = "idle" \/ countdown = 1
        /\ isr' = "boot"
        /\ UNCHANGED countdown
     \/ /\ state # "idle" /\ countdown > 1
        /\ countdown' = countdown - 1
        /\ UNCHANGED isr
  /\ UNCHANGED <<ctrl, setupBuf, inEp, outEp, stall, setupIrq, trnIrq, device,
                 cdc, touched, owed, host>>

-----------------------------------------------------------------------------
(* The host.  It addresses hostAddr: a device at another address is silent.*)

Attached == isr # "boot"
Serviced == ~setupIrq /\ ~inTrn /\ ~outTrn

FirstPhase(r) ==
  IF r.kind \in {"line", "report"} THEN "dataOut"
  ELSE IF r.kind = "get" THEN (IF r.want = 0 THEN "statusIn" ELSE "dataIn")
  ELSE "statusIn"

HostSetup(r) ==
  /\ phase = "idle" /\ requests < MaxRequests /\ Attached /\ addr = hostAddr
  /\ LateIsr \/ Serviced
  /\ phase' = FirstPhase(r) /\ req' = r /\ rcvd' = 0 /\ inOrder' = TRUE
  /\ requests' = requests + 1
  /\ setupIrq' = TRUE /\ inNak' = TRUE /\ outNak' = TRUE
  /\ setupBuf' = (IF outPtr = "setup" THEN r ELSE setupBuf)
  /\ slow' = (slow /\ outPtr # "line")
  /\ UNCHANGED <<ctrl, inTrn, inFrom, inCnt, outTrn, outPtr, stall, trnIrq, isr,
                 device, dtr, pendingSlc, reportPending, touch, hostAddr, resets>>

\* An IN token that finds endpoint 0 armed; not in the window in which the
\* handler has looked at EP[0].IN and is about to clear the shared flag.
InToken ==
  /\ addr = hostAddr /\ ~inNak /\ ~stall /\ isr \notin {"out", "ack", "boot"}
  /\ inNak' = TRUE /\ inTrn' = TRUE /\ trnIrq' = TRUE
  /\ UNCHANGED <<ctrl, setupBuf, inFrom, inCnt, outEp, stall, setupIrq, isr,
                 device, cdc, countdown, requests, resets>>

OutToken ==
  /\ addr = hostAddr /\ ~outNak /\ ~stall /\ isr \notin {"ack", "boot"}
  /\ outNak' = TRUE /\ outTrn' = TRUE /\ trnIrq' = TRUE
  /\ UNCHANGED <<ctrl, setupBuf, inEp, outPtr, stall, setupIrq, isr, device,
                 dtr, pendingSlc, reportPending, countdown, touched,
                 hostAddr, rcvd, inOrder, requests, resets>>

HostDataIn ==
  /\ phase = "dataIn" /\ InToken
  /\ rcvd' = rcvd + inCnt
  /\ inOrder' = (inOrder /\ (inFrom = rcvd \/ inCnt = 0))
  /\ phase' = (IF inCnt < PacketSize \/ rcvd + inCnt >= req.want
               THEN "statusOut" ELSE "dataIn")
  /\ UNCHANGED <<req, hostAddr, touched, owed>>

HostDataOut ==                       \* the data of a long report are two packets
  /\ phase \in {"dataOut", "dataMore"} /\ OutToken
  /\ phase' = (IF phase = "dataOut" /\ req.kind = "report" /\ req.long
               THEN "dataMore" ELSE "statusIn")
  /\ slow' = (IF outPtr = "line" THEN req.kind = "line" /\ req.slow ELSE slow)
  /\ UNCHANGED <<req, owed>>

HostStatusIn ==
  /\ phase = "statusIn" /\ inCnt = 0 /\ InToken
  /\ phase' = "idle" /\ req' = NoRequest /\ owed' = FALSE
  /\ hostAddr' = (IF req.kind = "address" THEN req.addr ELSE hostAddr)
  /\ touched' = (touched \/ (req.kind \in {"line", "state"} /\ slow /\ ~dtr))
  /\ UNCHANGED <<rcvd, inOrder>>

HostStatusOut ==
  /\ phase = "statusOut" /\ OutToken
  /\ phase' = "idle" /\ req' = NoRequest /\ owed' = FALSE
  /\ UNCHANGED slow

HostSeesStall ==
  /\ phase # "idle" /\ Attached /\ stall /\ ~setupIrq
  /\ phase' = "idle" /\ req' = NoRequest /\ owed' = FALSE
  /\ UNCHANGED <<ctrl, setupBuf, inEp, outEp, stall, intr, device, cdc,
                 countdown, touched, hostAddr, rcvd, inOrder, requests, resets>>

HostGivesUp ==
  /\ phase # "idle" /\ Attached /\ (phase = "dataOut" => AbandonDataOut)
  /\ phase' = "idle" /\ req' = NoRequest /\ owed' = FALSE
  /\ UNCHANGED <<ctrl, setupBuf, inEp, outEp, stall, intr, device, cdc,
                 countdown, touched, hostAddr, rcvd, inOrder, requests, resets>>

OtherEndpoint ==                     \* a completion of endpoint 2 or 3
  /\ ~trnIrq /\ cfg = 1 /\ Attached
  /\ trnIrq' = TRUE
  /\ UNCHANGED <<ctrl, setupBuf, inEp, outEp, stall, setupIrq, isr, device, cdc,
                 touch, host>>

\* Bus reset and its handler (usb_service_busevent, usb_ep_table_init,
\* usb_cdc_on_reset).
BusReset ==
  /\ isr = "off" /\ resets < MaxResets
  /\ LateIsr \/ ~setupIrq
  /\ reportPending => ResetInReport
  /\ addr' = 0 /\ pendingAddr' = 0 /\ cfg' = 0
  /\ state' = "idle"
  /\ inNak' = TRUE /\ inTrn' = FALSE /\ inCnt' = 0
  /\ outNak' = FALSE /\ outTrn' = FALSE /\ outPtr' = "setup"
  /\ stall' = FALSE
  /\ dtr' = FALSE /\ pendingSlc' = FALSE
  /\ phase' = "idle" /\ req' = NoRequest /\ hostAddr' = 0 /\ owed' = FALSE
  /\ resets' = resets + 1
  /\ UNCHANGED <<src, rem, needZlp, setupBuf, inFrom, intr, slow, reportPending,
                 countdown, touched, rcvd, inOrder, requests>>

-----------------------------------------------------------------------------
Isr   == SetupPart \/ TrncomplPart
Token == HostDataIn \/ HostDataOut \/ HostStatusIn \/ HostStatusOut \/ HostSeesStall
Host  == (\E r \in Request : HostSetup(r)) \/ Token \/ HostGivesUp \/ BusReset

Next == Isr \/ SofTouch \/ Host \/ OtherEndpoint

Spec == Init /\ [][Next]_vars

\* A raised interrupt is taken and its handler returns; the host repeats the
\* token of its open transfer; a start of frame comes every millisecond.  The
\* last two are held up by a running handler.
Fairness ==
  /\ WF_vars(Isr) /\ SF_vars(Token) /\ SF_vars(SofTouch)

FairSpec == Spec /\ Fairness

-----------------------------------------------------------------------------
DataTypes ==
  /\ state \in {"idle", "dataIn", "dataOut", "statusIn", "statusOut", "pendingAddr"}
  /\ src \in Nat /\ rem \in Nat
  /\ setupBuf \in Request \cup {NoRequest}
  /\ inFrom \in Nat /\ inCnt \in 0 .. PacketSize
  /\ outPtr \in {"setup", "line", "report"}
  /\ isr \in {"off", "in", "out", "ack", "boot"}
  /\ addr \in 0 .. MaxAddr /\ pendingAddr \in 0 .. MaxAddr /\ cfg \in {0, 1}
  /\ countdown \in 0 .. TouchTicks
  /\ phase \in {"idle", "dataIn", "dataOut", "dataMore", "statusIn", "statusOut"}
  /\ req \in Request \cup {NoRequest} /\ hostAddr \in 0 .. MaxAddr
  /\ rcvd \in Nat /\ requests \in Nat /\ resets \in Nat

FlagTypes ==
  /\ needZlp \in BOOLEAN
  /\ inNak \in BOOLEAN /\ inTrn \in BOOLEAN
  /\ outNak \in BOOLEAN /\ outTrn \in BOOLEAN
  /\ stall \in BOOLEAN /\ setupIrq \in BOOLEAN /\ trnIrq \in BOOLEAN
  /\ slow \in BOOLEAN /\ dtr \in BOOLEAN
  /\ pendingSlc \in BOOLEAN /\ reportPending \in BOOLEAN
  /\ inOrder \in BOOLEAN /\ touched \in BOOLEAN /\ owed \in BOOLEAN

TypeOK == DataTypes /\ FlagTypes

\* "Address is applied AFTER status-stage IN ZLP completes": the device answers
\* at the address the host uses, except between the end of the status stage of
\* SET_ADDRESS and the completion interrupt that applies it.
AddressInStep ==
  addr # hostAddr => inTrn /\ state = "pendingAddr" /\ pendingAddr = hostAddr

\* "The next SETUP packet must be DMA'd back into g_ep0_setup_buf": what
\* handle_setup() decodes is the request the host has just sent.
SetupFresh == setupIrq => setupBuf = req \/ phase = "idle"

\* A read ends with exactly what the device had to send, cut to wLength, every
\* packet once and in order, however the data splits into packets.
Answer(r) == IF r.len > r.want THEN r.want ELSE r.len
ReadComplete ==
  /\ inOrder
  /\ phase = "statusOut" => rcvd = Answer(req)

\* The touch reset never detaches the device while the host still waits for
\* the status stage of the request that triggered it, except when the
\* fallback countdown runs out.
TouchAfterStatus == [][isr' = "boot" /\ isr # "boot" => ~owed \/ countdown = 1]_vars

\* The requests that the device leaves open: a read that a module accepts without
\* data, for whose status stage EP[0].OUT is not armed, and a report longer than a
\* packet, for the rest of which it is not armed again.
LeftOpen(r) ==
  \/ r.kind = "get" /\ r.len = 0 /\ r.want > 0
  \/ r.kind = "report" /\ r.long

\* A transfer that the host does not give up ends: it is completed or stalled
\* (or the device leaves for the bootloader), except for those that the device
\* leaves open.
TransferEnds ==
  phase # "idle" /\ ~LeftOpen(req) ~> phase = "idle" \/ isr = "boot"

\* "The module either calls USB_SendControl ... or just consumes the SETUP and we
\* ZLP": either way the request would be answered and its transfer would end.
EveryTransferEnds == phase # "idle" ~> phase = "idle" \/ isr = "boot"

\* Whichever of SET_LINE_CODING and SET_CONTROL_LINE_STATE completes the pair
\* (1200 baud, DTR low) last makes the device reset into the bootloader.
TouchHonoured == touched ~> isr = "boot"
=============================================================================
