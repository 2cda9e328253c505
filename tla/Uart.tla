-------------------------------- MODULE Uart --------------------------------
(***************************************************************************)
(* One HardwareSerial port: the rings of UART.cpp, its three interrupts    *)
(* (receive complete, data register empty, transmit complete) and the main *)
(* program, which may call with interrupts disabled and then polls.  In    *)
(* half duplex everything sent is heard back, and must not be read.        *)
(***************************************************************************)
EXTENDS Integers, Sequences, SequencesExt

CONSTANTS TxSize,        \* SERIAL_TX_BUFFER_SIZE (64 in the source)
          RxSize,        \* SERIAL_RX_BUFFER_SIZE (64 in the source)
          MaxBytes,      \* bound: bytes written
          MaxArrivals    \* bound: bytes the other side sends

ASSUME UartAssumption ==
  /\ TxSize \in Nat \ {0, 1} /\ RxSize \in Nat \ {0, 1}
  /\ MaxBytes \in Nat /\ MaxArrivals \in Nat

VARIABLES
  txRing, txHead, txTail, \* _tx_buffer, _tx_buffer_head, _tx_buffer_tail
  rxRing, rxHead, rxTail, \* _rx_buffer, _rx_buffer_head, _rx_buffer_tail
  dreie, txcie, rxcie,    \* CTRLA: DREIE, TXCIE, RXCIE
  data, shift, txcif,     \* TXDATAL and the shift register, each empty or one byte; TXCIF
  fifo,                   \* RXDATAL: at most two bytes
  used, half,             \* _state: bit 0 (written to), bit 1 (half duplex)
  masked,                 \* the main program runs with interrupts disabled
  pc, byte,               \* idle, check, direct, room, enable, flush, close; the byte written
  written, arrived,       \* counters of the bounds
  out, readout,           \* history: bytes on the line, bytes read
  raced,                  \* history: write() enabled the DRE interrupt on an emptied buffer
  cut,                    \* history: a frame ended between clearing TXCIF and TXDATAL
  lost                    \* history: a byte of the other side was dropped or drained

txVars  == <<txRing, txHead, txTail>>
rxVars  == <<rxRing, rxHead, rxTail>>
irqVars == <<dreie, txcie, rxcie>>
lineVars == <<data, shift, txcif, out, raced, cut>>
mainVars == <<used, half, masked, pc, byte, written>>
vars == <<txVars, rxVars, irqVars, lineVars, fifo, mainVars, arrived, readout, lost>>

Foreign(n) == MaxBytes + n            \* the other side's bytes; the port's are 1 .. MaxBytes
IsForeign(b) == b > MaxBytes

Init ==                               \* after begin()
  /\ txRing = [i \in 0 .. TxSize - 1 |-> 0] /\ txHead = 0 /\ txTail = 0
  /\ rxRing = [i \in 0 .. RxSize - 1 |-> 0] /\ rxHead = 0 /\ rxTail = 0
  /\ dreie = FALSE /\ txcie = FALSE /\ rxcie = TRUE
  /\ data = <<>> /\ shift = <<>> /\ txcif = FALSE /\ fifo = <<>>
  /\ used = FALSE /\ half \in BOOLEAN /\ masked = FALSE /\ pc = "idle" /\ byte = 0
  /\ written = 0 /\ arrived = 0 /\ out = <<>> /\ readout = <<>>
  /\ raced = FALSE /\ cut = FALSE /\ lost = FALSE

-----------------------------------------------------------------------------
(* The transmitter.                                                        *)

dreif == data = <<>>

\* Mutant of TxNext: the index does not wrap.
TxNextUnwrapped(i) == i + 1

\* (i + 1) & (SIZE - 1), written without % so that it stays linear.
TxNext(i) == IF i + 1 < TxSize THEN i + 1 ELSE 0
RxNext(i) == IF i + 1 < RxSize THEN i + 1 ELSE 0

\* Mutant of RxFull: a byte is stored over the oldest one.
RxFullNever == FALSE

RxFull == RxNext(rxHead) = rxTail

\* What is heard of a frame that ends; the two-byte fifo drops a third.
Heard(b) == IF half /\ Len(fifo) < 2 THEN Append(fifo, b) ELSE fifo
Line(b) == IF raced THEN out ELSE Append(out, b)

\* STATUS = TXCIF, then TXDATAL = b.  The frame in the shift register may end
\* in between: TXCIF is then set although b is still to be sent.
Load(b) ==
  \/ /\ txcif' = FALSE
     /\ IF shift = <<>> THEN shift' = <<b>> /\ UNCHANGED data
                        ELSE data' = <<b>> /\ UNCHANGED shift
     /\ UNCHANGED <<out, cut, fifo>>
  \/ /\ shift # <<>>
     /\ txcif' = TRUE /\ cut' = TRUE
     /\ out' = Line(shift[1]) /\ fifo' = Heard(shift[1])
     /\ shift' = <<b>> /\ UNCHANGED data

FrameEnd ==
  /\ shift # <<>>
  /\ out' = Line(shift[1]) /\ fifo' = Heard(shift[1])
  /\ shift' = data /\ data' = <<>>
  /\ txcif' = (txcif \/ data = <<>>)
  /\ UNCHANGED <<txVars, rxVars, irqVars, raced, cut, mainVars, arrived, readout, lost>>

-----------------------------------------------------------------------------
(* The interrupts, in the order of their vectors.                          *)

\* Mutant of LastByte: the interrupt is not turned off.
LastByteNever == FALSE

LastByte == TxNext(txTail) = txHead

\* _tx_data_empty_irq(), which takes for granted that there is a byte to send.
SendNext ==
  /\ Load(txRing[txTail])
  /\ txTail' = TxNext(txTail)
  /\ dreie' = (dreie /\ ~LastByte)
  /\ UNCHANGED <<txRing, txHead, txcie, rxcie, raced>>

RxcPending == rxcie /\ fifo # <<>>
DrePending == dreie /\ dreif

RxcIsr ==                             \* _rx_complete_irq()
  /\ ~masked /\ RxcPending
  /\ fifo' = Tail(fifo)
  /\ IF RxFull
     THEN lost' = TRUE /\ UNCHANGED <<rxRing, rxHead>>
     ELSE rxRing' = [rxRing EXCEPT ![rxHead] = Head(fifo)] /\ rxHead' = RxNext(rxHead)
          /\ UNCHANGED lost
  /\ UNCHANGED <<txVars, rxTail, irqVars, lineVars, mainVars, arrived, readout>>

DreIsr ==
  /\ ~masked /\ DrePending /\ ~RxcPending
  /\ SendNext
  /\ UNCHANGED <<rxVars, mainVars, arrived, readout, lost>>

TxcIsr ==
  /\ ~masked /\ txcie /\ txcif /\ ~DrePending /\ ~RxcPending
  /\ fifo' = <<>>
  /\ rxcie' = TRUE /\ txcie' = FALSE
  /\ lost' = (lost \/ \E b \in ToSet(fifo) : IsForeign(b))
  /\ UNCHANGED <<txVars, rxVars, dreie, lineVars, mainVars, arrived, readout>>

-----------------------------------------------------------------------------
(* write(), flush(), end().                                                *)

Rest == <<rxVars, arrived, readout, lost>>

\* Bound: nothing more is written after a race, of which the properties say nothing.
Write ==
  /\ pc = "idle" /\ written < MaxBytes /\ ~raced /\ ~cut
  /\ written' = written + 1 /\ byte' = written + 1 /\ used' = TRUE
  /\ pc' = "check"
  /\ UNCHANGED <<txVars, irqVars, lineVars, fifo, half, masked, Rest>>

Check ==
  /\ pc = "check"
  /\ pc' = (IF txHead = txTail /\ dreif THEN "direct" ELSE "room")
  /\ UNCHANGED <<txVars, irqVars, lineVars, fifo, used, half, masked, byte, written, Rest>>

\* In half duplex the receive interrupt is off until the last frame has ended.
\* Mutant of Turn: the receive interrupt stays on.
TurnNot == txcie' = (txcie \/ half) /\ UNCHANGED rxcie

Turn == txcie' = (txcie \/ half) /\ rxcie' = (rxcie /\ ~half)

Direct ==
  /\ pc = "direct"
  /\ Load(byte) /\ Turn
  /\ pc' = "idle"
  /\ UNCHANGED <<txVars, dreie, raced, used, half, masked, byte, written, Rest>>

\* Mutant of Polled: the handler is not run in the interrupt's place.
PolledNever == FALSE

Polled == masked /\ dreif

Poll ==                               \* _poll_tx_data_empty()
  IF Polled
  THEN IF txHead = txTail
       THEN dreie' = FALSE /\ UNCHANGED <<txVars, txcie, rxcie, lineVars, fifo>>
       ELSE SendNext
  ELSE UNCHANGED <<txVars, irqVars, lineVars, fifo>>

\* Mutant of Full: a byte is stored over the oldest one.
FullNever == FALSE

Full == TxNext(txHead) = txTail

WaitRoom ==
  /\ pc = "room" /\ Full
  /\ Poll
  /\ UNCHANGED <<mainVars, Rest>>

Store ==
  /\ pc = "room" /\ ~Full
  /\ txRing' = [txRing EXCEPT ![txHead] = byte] /\ txHead' = TxNext(txHead)
  /\ pc' = "enable"
  /\ UNCHANGED <<txTail, irqVars, lineVars, fifo, used, half, masked, byte, written, Rest>>

Enable ==                             \* CTRLA |= DREIE, or with the turn of half duplex
  /\ pc = "enable"
  /\ dreie' = TRUE /\ Turn
  /\ txcif' = (txcif /\ ~half)
  /\ raced' = (raced \/ txHead = txTail)
  /\ pc' = "idle"
  /\ UNCHANGED <<txVars, data, shift, out, cut, fifo, used, half, masked, byte, written, Rest>>

Flush ==                              \* flush(), or the flush() of end()
  /\ pc = "idle" /\ used
  /\ pc' \in {"flush", "close"}
  /\ UNCHANGED <<txVars, irqVars, lineVars, fifo, used, half, masked, byte, written, Rest>>

\* Mutant of Flushed: the bytes still in the transmitter are not waited for.
FlushedQueue == ~dreie

Flushed == ~dreie /\ txcif

FlushWait ==
  /\ pc \in {"flush", "close"} /\ ~Flushed
  /\ Poll
  /\ UNCHANGED <<mainVars, Rest>>

FlushDone ==
  /\ pc = "flush" /\ Flushed
  /\ pc' = "idle"
  /\ UNCHANGED <<txVars, irqVars, lineVars, fifo, used, half, masked, byte, written, Rest>>

Reopen ==                             \* the rest of end(), and begin() again
  /\ pc = "close" /\ Flushed
  /\ pc' = "idle" /\ used' = FALSE
  /\ dreie' = FALSE /\ txcie' = FALSE /\ rxcie' = TRUE
  /\ txcif' = FALSE /\ data' = <<>> /\ shift' = <<>>
  /\ rxHead' = rxTail /\ fifo' = <<>>
  /\ lost' = (lost \/ rxHead # rxTail \/ fifo # <<>>)
  /\ UNCHANGED <<txVars, rxRing, rxTail, out, raced, cut, half, masked, byte, written, arrived, readout>>

Read ==                               \* read(); peek() and available() change nothing
  /\ pc = "idle" /\ rxHead # rxTail
  /\ readout' = Append(readout, rxRing[rxTail]) /\ rxTail' = RxNext(rxTail)
  /\ UNCHANGED <<txVars, rxRing, rxHead, irqVars, lineVars, fifo, mainVars, arrived, lost>>

Mask ==                               \* cli() and sei(), or a handler of another interrupt
  /\ pc = "idle"
  /\ masked' = ~masked
  /\ UNCHANGED <<txVars, irqVars, lineVars, fifo, used, half, pc, byte, written, Rest>>

-----------------------------------------------------------------------------
\* The other side.  In half duplex it waits until the port listens again.
Arrive ==
  /\ arrived < MaxArrivals
  /\ half => ~txcie /\ shift = <<>> /\ pc # "direct"
  /\ arrived' = arrived + 1
  /\ IF Len(fifo) < 2
     THEN fifo' = Append(fifo, Foreign(arrived + 1)) /\ UNCHANGED lost
     ELSE lost' = TRUE /\ UNCHANGED fifo
  /\ UNCHANGED <<txVars, rxVars, irqVars, lineVars, mainVars, readout>>

Main == \/ Check \/ Direct \/ WaitRoom \/ Store \/ Enable
        \/ FlushWait \/ FlushDone \/ Reopen

Isr == RxcIsr \/ DreIsr \/ TxcIsr

Next == Main \/ Isr \/ FrameEnd \/ Write \/ Flush \/ Read \/ Mask \/ Arrive

\* The processor runs, in the main program and in the interrupts, and the
\* transmitter shifts.  Nobody has to write, to read or to enable interrupts.
Spec == Init /\ [][Next]_vars /\ WF_vars(Main) /\ WF_vars(Isr) /\ WF_vars(FrameEnd)

-----------------------------------------------------------------------------
TypeOK ==
  /\ txHead \in 0 .. TxSize - 1 /\ txTail \in 0 .. TxSize - 1
  /\ rxHead \in 0 .. RxSize - 1 /\ rxTail \in 0 .. RxSize - 1
  /\ txRing \in [0 .. TxSize - 1 -> Nat] /\ rxRing \in [0 .. RxSize - 1 -> Nat]
  /\ dreie \in BOOLEAN /\ txcie \in BOOLEAN /\ rxcie \in BOOLEAN /\ txcif \in BOOLEAN
  /\ used \in BOOLEAN /\ half \in BOOLEAN /\ masked \in BOOLEAN
  /\ raced \in BOOLEAN /\ cut \in BOOLEAN /\ lost \in BOOLEAN
  /\ data \in Seq(Nat) /\ Len(data) <= 1 /\ shift \in Seq(Nat) /\ Len(shift) <= 1
  /\ data # <<>> => shift # <<>>
  /\ fifo \in Seq(Nat) /\ Len(fifo) <= 2 /\ out \in Seq(Nat) /\ readout \in Seq(Nat)
  /\ byte \in Nat /\ written \in 0 .. MaxBytes /\ arrived \in 0 .. MaxArrivals
  /\ pc \in {"idle", "check", "direct", "room", "enable", "flush", "close"}

\* The bytes between tail t and head h of a ring of n, oldest first.
Span(t, h, n) == IF h >= t THEN h - t ELSE h - t + n
Ringed(ring, t, h, n) ==
  [i \in 1 .. Span(t, h, n) |-> ring[IF t + i - 1 < n THEN t + i - 1 ELSE t + i - 1 - n]]
Queued == Ringed(txRing, txTail, txHead, TxSize)
Kept   == Ringed(rxRing, rxTail, rxHead, RxSize)
Taken == IF pc \in {"check", "direct", "room"} THEN written - 1 ELSE written

\* Neither of the two races of write() with its interrupts has happened.
Sound == ~raced /\ ~cut

\* The bytes on the line, in the transmitter and in the ring are the bytes
\* written, in order and each once, until the buffer is emptied between the
\* two halves of write() or a frame ends just before the next byte is loaded.
WrittenInOrder ==
  Sound => out \o shift \o data \o Queued = [i \in 1 .. Taken |-> i]

\* "When we get here, nothing is queued anymore and the hardware finished
\* transmission": when flush() or end() comes back, every byte is on the line,
\* with the same exceptions.
FlushMeansSent ==
  [][Sound /\ pc \in {"flush", "close"} /\ pc' = "idle" => Len(out) = written]_vars

\* In half duplex what the port sends is never received: no byte of its own is
\* in the receive ring or was read, with the same exceptions.
NoEcho ==
  half /\ Sound => \A b \in ToSet(readout \o Kept) : IsForeign(b)

\* Until a byte of the other side is dropped or drained, what it sent is read or
\* on its way, each byte once and in order, whatever echoes come between.
Incoming == readout \o Kept \o fifo
ReceivedInOrder ==
  ~lost =>
    /\ {b \in ToSet(Incoming) : IsForeign(b)} = {Foreign(n) : n \in 1 .. arrived}
    /\ \A j, k \in DOMAIN Incoming :
         j < k /\ IsForeign(Incoming[j]) /\ IsForeign(Incoming[k]) => Incoming[j] < Incoming[k]

\* The DRE handler finds a byte ("There must be more data in the output
\* buffer"): the interrupt is on only while the ring holds one.
MoreData == ~raced /\ dreie => txHead # txTail

\* write(), flush() and end() come back, also with interrupts disabled or from
\* a handler, where the earlier code "would just straight up hang".
CallsReturn == (pc # "idle") ~> (pc = "idle" \/ raced)
=============================================================================
