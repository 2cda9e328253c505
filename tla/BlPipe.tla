------------------------------- MODULE BlPipe -------------------------------
(***************************************************************************)
(* The byte pipe of the USB bootloader: usb_min_poll() and cdc_min.c.      *)
(* Nothing interrupts the bootloader; it polls the USB peripheral, which   *)
(* moves packets on its own.  Bytes received stay in the buffer of         *)
(* endpoint 2 until they are consumed.  Bytes to send are staged in        *)
(* g_bl_ep3_in, which is also the buffer of the packet in flight.          *)
(***************************************************************************)
EXTENDS Integers, Sequences

CONSTANTS BlPacketSize,  \* USB_BL_EP2_SIZE, USB_BL_EP3_SIZE (64 in the source)
          BlAckRace      \* may a packet complete just before INTFLAGSB is cleared

ASSUME BlPipeAssumption == BlPacketSize \in Nat \ {0} /\ BlAckRace \in BOOLEAN

VARIABLES
  cpu,                   \* where the processor is: usb, ack, cdc, stk, put, ...
  ret,                   \* who polls: the main loop, cdc_min_tx_byte or cdc_min_flush
  trnIrq,                \* INTFLAGSB: TRNCOMPL
  rxBuf, outNak, outTrn, \* EP[2].OUT: what it holds, BUSNAK, TRNCOMPL
  rxCnt, rxIdx,          \* s_rx_cnt, s_rx_idx
  txBuf,                 \* g_bl_ep3_in
  txLen, inFlight,       \* s_tx_len, s_tx_in_flight
  inCnt, inNak, inTrn    \* EP[3].IN: CNT, BUSNAK, TRNCOMPL

rxVars   == <<rxBuf, outNak, outTrn, rxCnt, rxIdx>>
txVars   == <<txBuf, txLen, inFlight, inCnt, inNak, inTrn>>
pipeVars == <<cpu, ret, trnIrq, rxVars, txVars>>

\* What usb_min_init() and cdc_min_init() leave.
PipeInit ==
  /\ cpu = "usb" /\ ret = "loop" /\ trnIrq = FALSE
  /\ rxBuf = <<>> /\ outNak = FALSE /\ outTrn = FALSE /\ rxCnt = 0 /\ rxIdx = 0
  /\ txBuf = [i \in 1 .. BlPacketSize |-> 0] /\ txLen = 0 /\ inFlight = FALSE
  /\ inCnt = 0 /\ inNak = TRUE /\ inTrn = FALSE

PipeRestart ==                       \* the same, after a reset
  /\ cpu' = "usb" /\ ret' = "loop" /\ trnIrq' = FALSE
  /\ rxBuf' = <<>> /\ outNak' = FALSE /\ outTrn' = FALSE /\ rxCnt' = 0 /\ rxIdx' = 0
  /\ txBuf' = [i \in 1 .. BlPacketSize |-> 0] /\ txLen' = 0 /\ inFlight' = FALSE
  /\ inCnt' = 0 /\ inNak' = TRUE /\ inTrn' = FALSE

-----------------------------------------------------------------------------
(* usb_min_poll(), endpoints 2 and 3.                                      *)

AfterPoll == IF ret = "loop" THEN "cdc" ELSE ret

PollIdle ==
  /\ cpu = "usb" /\ ~trnIrq
  /\ cpu' = AfterPoll
  /\ UNCHANGED <<ret, trnIrq, rxVars, txVars>>

PollDone ==                          \* on_ep2_out, on_ep3_in_done
  /\ cpu = "usb" /\ trnIrq
  /\ cpu' = "ack"
  /\ rxCnt' = (IF outTrn THEN Len(rxBuf) ELSE rxCnt)
  /\ rxIdx' = (IF outTrn THEN 0 ELSE rxIdx)
  /\ inFlight' = (inFlight /\ ~inTrn)
  /\ outTrn' = FALSE /\ inTrn' = FALSE
  /\ UNCHANGED <<ret, trnIrq, rxBuf, outNak, txBuf, txLen, inCnt, inNak>>

PollAck ==                           \* INTFLAGSB = TRNCOMPL
  /\ cpu = "ack"
  /\ cpu' = AfterPoll /\ trnIrq' = FALSE
  /\ UNCHANGED <<ret, rxVars, txVars>>

-----------------------------------------------------------------------------
(* cdc_min_poll(), cdc_min_rx_pop(), cdc_min_tx_byte().                    *)

RxDone == rxCnt # 0 /\ rxIdx >= rxCnt

Arm ==
  /\ inCnt' = txLen /\ inNak' = FALSE
  /\ inFlight' = TRUE /\ txLen' = 0
  /\ UNCHANGED <<txBuf, inTrn>>

Pump == IF ~inFlight /\ txLen > 0 /\ inNak THEN Arm ELSE UNCHANGED txVars

CdcPoll ==
  /\ cpu = "cdc"
  /\ cpu' = (IF ret = "loop" THEN "stk" ELSE "usb")
  /\ IF RxDone THEN rxCnt' = 0 /\ rxIdx' = 0 /\ outNak' = FALSE
               ELSE UNCHANGED <<rxCnt, rxIdx, outNak>>
  /\ Pump
  /\ UNCHANGED <<ret, trnIrq, rxBuf, outTrn>>

Pop(b) ==
  /\ cpu = "stk" /\ rxIdx < rxCnt
  /\ b = rxBuf[rxIdx + 1]
  /\ rxIdx' = rxIdx + 1

\* Mutant of MustWait: the byte goes into the buffer of the packet in flight.
MustWaitFull == txLen >= BlPacketSize

\* A full packet is sent first, and its completion awaited, with the polls in a loop.
MustWait == txLen >= BlPacketSize \/ (ret = "put" /\ inFlight)

WaitRoom ==
  /\ cpu = "put" /\ MustWait
  /\ ret' = "put" /\ cpu' = "cdc"
  /\ UNCHANGED <<trnIrq, rxVars, txVars>>

TxByte(b) ==
  /\ cpu = "put" /\ ~MustWait
  /\ txBuf' = [txBuf EXCEPT ![txLen + 1] = b]
  /\ txLen' = txLen + 1
  /\ ret' = "loop"
  /\ UNCHANGED <<trnIrq, rxVars, inFlight, inCnt, inNak, inTrn>>

Flush ==                             \* cdc_min_flush()
  /\ cpu = "flush"
  /\ IF inFlight
     THEN cpu' = "cdc" /\ ret' = "flush" /\ UNCHANGED txVars
     ELSE /\ cpu' = "halt" /\ ret' = "loop"
          /\ IF txLen > 0 THEN Arm ELSE UNCHANGED txVars
  /\ UNCHANGED <<trnIrq, rxVars>>

-----------------------------------------------------------------------------
(* The USB peripheral serving the host.                                    *)

HostMayComplete == BlAckRace \/ cpu # "ack"

OutPacket(bytes) ==
  /\ ~outNak /\ HostMayComplete
  /\ rxBuf' = bytes /\ outNak' = TRUE /\ outTrn' = TRUE /\ trnIrq' = TRUE
  /\ UNCHANGED <<cpu, ret, rxCnt, rxIdx, txVars>>

InPacket ==
  /\ ~inNak /\ HostMayComplete
  /\ inNak' = TRUE /\ inTrn' = TRUE /\ trnIrq' = TRUE
  /\ UNCHANGED <<cpu, ret, rxVars, txBuf, txLen, inFlight, inCnt>>

InBytes == SubSeq(txBuf, 1, inCnt)

PipeTypes ==
  /\ cpu \in {"usb", "ack", "cdc", "stk", "put", "flush", "halt", "erase", "word", "eeprom"}
  /\ ret \in {"loop", "put", "flush"}
  /\ rxCnt \in 0 .. BlPacketSize /\ rxIdx \in 0 .. rxCnt
  /\ rxBuf \in Seq(0 .. 255) /\ Len(rxBuf) <= BlPacketSize
  /\ txBuf \in [1 .. BlPacketSize -> 0 .. 255] /\ txLen \in 0 .. BlPacketSize
  /\ inCnt \in 0 .. BlPacketSize
  /\ {trnIrq, outNak, outTrn, inFlight, inNak, inTrn} \subseteq BOOLEAN
=============================================================================
