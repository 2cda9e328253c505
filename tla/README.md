# WazamonoCore in TLA+

WazamonoCore is an Arduino core for the AVR DU microcontrollers. Its own logic,
the part that is not inherited from DxCore or vendored, is the USB stack
(`megaavr/cores/dxcore/usb_*.c`, `USBCore_DU*.cpp`) and the USB CDC bootloader
(`megaavr/bootloaders/usbcdcboot/src`). This directory holds TLA+ models of that
logic and of the serial port driver inherited from DxCore, the TLC
configurations that check them, and TLAPS proofs. Paths below are
relative to `src/megaavr/cores/dxcore/` unless they say otherwise; "BL" is
`src/megaavr/bootloaders/usbcdcboot/src/`, "LIB" `src/megaavr/libraries/`.

## 1. The system

| Component | State | Operations | Interacts through |
|---|---|---|---|
| Control pipe (`usb_core.c`, `usb_standard.c`) | `g_ctrl_state`, the data-in cursor, `g_pending_address`, `g_current_configuration`, the EP0 table entries | `handle_setup` and the request handlers, `handle_ep0_in_complete`, `handle_ep0_out_complete`, bus reset | `INTFLAGSB`, calls into CDC and the plugged modules |
| CDC transmit (`usb_cdc.c`) | TX ring and indices, `g_tx_in_flight`, `g_tx_last_full`, EP3 | write calls, kick, poll, `flush`, EP3-done, the SOF pump and ZLP | ring shared by the sketch and two interrupts |
| CDC receive (`usb_cdc.c`, `usb_core.c`) | RX ring and indices, EP2 | EP2-done, `usbCdcAvailable`, `usbCdcRead` | ring shared by the sketch and an interrupt |
| Class requests and touch reset (`usb_cdc.c`) | `g_line_coding`, `g_control_line_state`, `g_pending_set_line_coding`, `g_reset_countdown` | SET_LINE_CODING, SET_CONTROL_LINE_STATE, SOF countdown, detach and software reset | the control pipe's state; the bootloader, through RSTFR.SWRF |
| Dynamic endpoints (`USBCore_DU_dyn.cpp`, `api/PluggableUSB.cpp`) | module list, endpoint types, staging buffers, `s_ctrl_out_*` | `plug`, `USB_Send`, `USB_Flush`, `USB_Recv`, SET_REPORT data | the endpoint table and status registers, from the main program and the interrupt |
| HID and MIDI (LIB `HID`, `MIDIUSB`) | MIDI's event ring | `SendReport`, `write`, `flush`, `read` | the dynamic endpoints |
| Serial port (`UART.cpp`, `UART0.cpp`) | RX and TX rings, `_state`, the USART's CTRLA and STATUS | `write`, `flush`, `read`, `end`, three interrupts | rings and CTRLA shared by the sketch and the interrupts |
| Bootloader entry (BL `main.c`) | reset flags, `s_dbltap_flag` in `.noinit`, the first application word | the decision of `main`, the double-tap window, jump, watchdog exit | resets |
| STK500 (BL `stk500.c`) | parser state, arguments, address, page buffer | one byte at a time, `dispatch`, page write and read | CDC pipe, NVM |
| NVM (BL `nvm.c`) | flash pages, EEPROM | erase, write, read | STK500; a reset at any time |
| Bootloader pipe (BL `usb_min.c`, `cdc_min.c`) | EP0 state, EP2 and EP3 buffers | the polling loop, push, pop, flush | STK500 |

The rest (timers, wiring, API classes, libraries, tools) is inherited or
vendored; `PROJECT.json` lists it with the reason it is not modelled.

What is hard here: the sketch, the completion interrupt and the start-of-frame
interrupt share two byte rings and endpoint 3 without locks; all endpoints share
one sticky completion flag; bus reset and SET_CONFIGURATION arrive at any time
and rebuild the endpoint table under the sketch; the control pipe is one state
machine used by transfers that may be given up half way; two resets (touch, bus)
race ordinary traffic; dynamic endpoints stage a report in the buffer of the
packet in flight and give up waiting after a while; the serial port's `write()`
and its handlers change the same ring and control register, also with interrupts
disabled, and in half duplex it hears itself; in the bootloader, a reset may fall
between any two writes of flash. `PROJECT.json` "hazards" gives each at its line.

What correctness means, per component:

* transmit: what the sketch wrote reaches the host once and in order, the DMA
  buffer is not touched while armed, the host's transfer is always closed;
* receive: what the host sent reaches the sketch once and in order or is dropped
  for a full ring, the endpoint never wedges, `available()` does not lie;
* control pipe: each request is decoded from the packet just received, reads are
  complete, the address changes with its status stage, transfers end;
* touch: the pair (1200 baud, DTR low) always leads to the bootloader and never
  cuts the request that completed it;
* dynamic endpoints: a report said to be sent was collected whole and in order,
  nothing of an earlier configuration is sent, no incoming event is cut or skipped;
* serial port: bytes leave once and in order, `flush()` means sent, the port does
  not hear itself, calls come back whatever the state of the interrupts;
* bootloader: it stays exactly when it was asked to or has nothing to run, its own
  section is never written, answers are right, an acknowledged page is in flash
  whatever resets follow, a session comes to its end.

## 2. Modules

```
ByteRing        index arithmetic of the two rings
BytePipe        abstract bounded FIFO, the promise of both directions
CdcTx           EXTENDS ByteRing, implements BytePipe
CdcRx           EXTENDS ByteRing, implements BytePipe
Ep0Control      control pipe, class requests, touch reset
BlPipe          bootloader's polled USB pipe
Nvm             bootloader's flash and EEPROM writer
Stk500          EXTENDS BlPipe, Nvm: the protocol parser
BootEntry       resets and the decision of main()
Bootloader      EXTENDS Stk500, BootEntry: all of it, with any programmer
MCBootloader    EXTENDS Bootloader: the programmer that TLC runs
DynIn, DynOut   a dynamic IN endpoint; a dynamic OUT endpoint with MIDI's reader
Pluggable       EXTENDS DynIn, DynOut: a HID or MIDI device
Uart            a serial port
ByteRingProofs, CdcTxProofs, CdcRxProofs, Ep0Proofs, BootProofs,
UploadProofs, PluggableProofs, UartProofs             theorems
```

**CdcTx.** A byte is its number in the stream, so that loss, repetition and
reordering are visible. `WriteCall`, `PutByte`, `CommitByte`, `PutEnd` and
`Kick` are `usbCdcWrite()`, with the slot write and the store of `g_tx_head`
apart because interrupts may fall between them. `Pump` is `cdc_tx_pump()`; it is
one step because it always runs with interrupts off, from `Kick`/`Poll`, from
`Ep3Done` and from `SofPump`. `SofZlp` is the other half of `usb_cdc_on_sof()`.
`FlushSeesNoFlight` and `FlushReadsRing` are the two loads of
`usbCdcTxIdle()`. `Ep3Done` and `AckTrncompl` are the check of endpoint 3 in
`usb_service_trncompl()` and the final write of `INTFLAGSB`. `BusReset`,
`Configure` and `Deconfigure` are the bus-event handler and
`handle_set_configuration()`. `HostIn` is the host's IN token.

**CdcRx.** `Ep2Service`, `CopyByte`, `CopyEnd`, `Ep2Arm`, `AckTrncompl` are the
endpoint 2 part of the handler; the next packet can arrive as soon as `Ep2Arm`
has cleared BUSNAK. The sketch runs only while no handler does. `AvailableHead`
and `AvailableTail` are the two loads of `usbCdcAvailable()`, `ReadByte` and
`TakeByte` the load of the byte and the store of `g_rx_tail`.

**Ep0Control.** A request is a record of what the handlers look at: kind, length
of the answer, wLength, address, configuration value, baud (1200 or not), DTR.
One action per kind of request stands for `handle_setup()` and the handler it
dispatches to. A read has an answer of any length; one that a plugged module
accepts without data is `SetupEmpty`, which sends a zero-length packet and arms
EP0 OUT for nothing. A SET_REPORT is one packet for the device, and one or two
(`long`) for the host. `InPart` and the actions built on it for
`handle_ep0_in_complete()`; `DataOutDone`, `StatusOutDone` for
`handle_ep0_out_complete()`; `SofTouch` for the countdown. `isr` is the part of
`usb_service_trncompl()` that runs next, so that tokens may fall between the
parts. The host performs one transfer after another, sees stalls, may give up
and may reset the bus. `isr = "boot"` is the device after
`perform_1200bps_reset()`.

**Bootloader.** Nothing interrupts the bootloader, so `cpu` says where its one
loop is: `PollIdle`, `PollDone`, `PollAck` are `usb_min_poll()`, with the write
of the shared flag apart; `CdcPoll` is `cdc_min_poll()`; `ret` is the loop that
polls, the main one or one of the two waits inside `cdc_min_tx_byte()` and
`cdc_min_flush()`. `Stk500` has an action per state of `feed_byte()`
(`TakeCommand` to `TakePayload`) and one per kind of command for the terminator
and `dispatch()`; bytes are the real byte values, so that a payload byte can look
like a command. `ErasePart`, `WordPart` and `EepromPart` are single operations of
the NVM controller, since a reset may fall between any two; `Programmed` says
that writing a cell that is not erased only clears bits. The processor sees half
of the flash at a time: `Mapped` is the cell that the FLMAP section and the data
pointer of an address come to, `InWindow` says that a word of a write is still
inside that window. Past its end the pointer leaves the flash for the
registers and RAM at the bottom of the data space: such a store is no step of the
model, which stops there, and nothing is claimed about what follows it. `BootEntry` keeps the
reset causes as a set that accumulates until `main()` clears it; a reset
(`Button`, `PowerOn`, `Watchdog`, `Touch`) may come in any mode, the window
included.

The programmer sends the messages of `Script`, one after another, and waits for
the answer to each. `Script` is a constant: `ScriptAssumption` admits every
sequence of messages that STK500v1 allows (`Allowed`) and gives the answer to each
(`Expects`), unknown commands included. It says of the programmer what
BL `stk500.c` relies on: a page command follows the LOAD_ADDRESS it is about, a
page of the flash is uploaded from its start and at most once a session, a byte
of EEPROM likewise, a page command fits the page buffer, a read verifies
something uploaded before, LEAVE_PROGMODE comes last. `MCBootloader` gives
`Script` its value for TLC: all pages of the flash with the BOOT section's (a wrong
hex file), an odd last page, one EEPROM byte, the application and the EEPROM
read back, an unknown command; data bytes look like commands and terminators.

None of this is enforced by the code, so that a property of the BOOT section must not
rest on it. `NoisySpec` adds `HostNoise`, a host that sends any packets of the set
`Noise` at any moment and reads whatever it is offered: messages out of order, cut
short, with any address and any size, or no messages at all. The run checks the
programmer alone; `BootCorrect` is proved for `NoisySpec`, with any `Noise`.

**Pluggable.** `SendReport`, `WriteEvent`, `Flush` are the callers (`HID_`,
`MIDI_`); `TakeRoom`, `AppendFull`, `Copy`, `Advance`, `AppendDone` the loop of `USB_Send()`;
`WaitIdle`, `Count`, `Arm`, `WaitDone`, `Released` the stages of `dyn_ep_release()`,
with a time-out at each of its two waits. SET_CONFIGURATION may fall between any two
of these: it clears `s_dyn_ep_pos` from the interrupt, and as the variable is not
volatile the main program goes on with the value it holds in a register (`reg`) or
loads it again, a choice that each use makes for itself (`Use`).
`EnterTrncompl`, `Service` or `Skip`, and `Ack` are `usb_service_trncompl()` as far as
these endpoints matter: entry by the shared flag `irq`, the check of the OUT
endpoint, the write that clears the flag; a SETUP is handled before them, at
the entry. `ServiceOut` is the interrupt's copy into the OUT ring,
`RecvByte` and `StoreEvents` are `USB_Recv()` inside `MIDI_::accept()`,
`ReadKept` and `ReadAccepted` `MIDI_::read()`. The history `broken` says that a
wait timed out or a bus event cut a call since SET_CONFIGURATION, `torn` that SET_CONFIGURATION
fell inside a call and no packet has gone out since, `lost` that a
byte was dropped: after `broken` or `lost`, the host's or the sketch's view is not in order
any more, and the code does nothing to restore it before the next
SET_CONFIGURATION (or at all, for the OUT ring). While `torn` lasts the device may
send bytes staged before the configuration, as the index it cleared is written back.

**Uart.** `Check`, `Direct`, `WaitRoom`, `Store`, `Enable` are `write()`;
`Direct` and `SendNext` load the transmitter with `Load`, which lets the frame in
the shift register end between the clearing of TXCIF and the write of TXDATAL;
`Enable` is separate from `Store`, so that the interrupt may empty the ring in
between. The histories `cut` and `raced` record these two. `Poll` is
`_poll_tx_data_empty()`, the handler run by a waiting call. `half` is half duplex
in loop-back, where `FrameEnd` feeds the receiver. The other side of a half
duplex line waits until the port listens again (guard of `Arrive`).

The remaining pieces of hardware behaviour, BUSNAK and the completion flags, the USART's shift register and flags, RSTFR and
the flash cells, are modelled from the way the source uses them and marked
external, as are the host and the programmer.

### Assumptions switched by constants

Each model holds under assumptions about the environment that the code does not
enforce. Each is a constant, so that the passing run shows what holds with it;
for four a second run shows what the code does without it, and for the rest the
table names the property that fails.

| Constant | FALSE means | TRUE: run and outcome |
|---|---|---|
| `AckRace` (CdcTx, CdcRx) | endpoint 3 or 2 does not complete between its check and the write that clears the shared flag | `cdc_tx_lost`: the completion is lost, the port stays blocked |
| `AckRace` (Pluggable) | as above, for the OUT endpoint of a module | no run; `EventsRead` then fails: the packet is never taken from the endpoint |
| `ResetMidCall` (CdcTx, CdcRx) | a bus reset does not fall between a load and a store of a ring index by the sketch | `cdc_rx_reset`: bytes that were never sent are read |
| `LateIsr` (Ep0Control) | the last completion of a transfer is serviced before the next SETUP arrives, and a SETUP before the handler of a bus reset that follows it | `ep0_late`: the address is applied early |
| `AbandonDataOut` (Ep0Control) | the host does not give up in an OUT data stage | `ep0_abandon`: an old request is decoded again |
| `ResetInReport` (Ep0Control) | no bus reset between the SETUP and the data of a SET_REPORT | no run; `TouchHonoured` then fails: `s_ctrl_out_pending` survives, the next line coding goes to the plugged module and a touch is lost |
| `BlAckRace` (BlPipe) | as `AckRace`, in the bootloader's poll | no run; `SessionEnds` then fails: the pipe stands still |
| `ForeignArmed` (BootEntry) | RAM the bootloader did not write, random or the application's, does not hold DBLTAP_ARMED | no run; `StaysAsAsked` then fails: the bootloader stays unasked |
| `Abandon` (Bootloader) | a programmer is not stopped in the middle while the bootloader runs on | no run; `AnswersRight` then fails: the parser takes the next session for payload |

Endpoint 0 completions in the acknowledgement window are excluded in Ep0Control
as they are by `AckRace = FALSE`: the hazard is the same line and `cdc_tx_lost`
shows it.

## 3. Runs

| Run | Checks | Shows |
|---|---|---|
| `cdc_tx` | `TypeOK`, `StreamIntact`, `FlightOwned`, `ArmedStable`, `ZlpEndsTransfer`, `EventuallyDrained`, `IsBytePipe` | conservation and order of bytes, ownership of endpoint 3, exactly one terminating packet, delivery, refinement of the abstract FIFO |
| `cdc_tx_lost` | `EventuallyDrained` violated | the lost completion at `usb_core.c:431` |
| `cdc_tx_flush` | `FlushMeansSent` violated | `flush()` returns before the last packet is out |
| `cdc_rx` | `TypeOK`, `RxIntact`, `PromiseKept`, `DropsOnlyWhenFull`, `AlwaysArmedAgain`, `IsBytePipe` | conservation and order, `available()` is a promise, no wedge, refinement |
| `cdc_rx_reset` | `NoPhantomRead` violated | `usbCdcRead()` against a bus reset |
| `ep0` | `TypeOK`, `AddressInStep`, `SetupFresh`, `ReadComplete`, `TouchAfterStatus`, `TransferEnds`, `TouchHonoured` | the control pipe and the touch |
| `ep0_late`, `ep0_abandon` | one property each, violated | see the table above and `findings` |
| `ep0_unanswered` | `EveryTransferEnds` violated | a read accepted without data is left without a status stage |
| `bootloader` (`MCBootloader`) | `TypeOK`, `AnswersRight`, `AcknowledgedIsStored`, `BootIntact`, `StaysAsAsked`, `SessionEnds` | a whole upload, cut by resets anywhere: right answers, nothing acknowledged is lost, the BOOT section intact, the right choice after every reset |
| `pluggable` | `TypeOK`, `CollectedInOrder`, `NothingStale`, `NoEventMissing`, `SuccessMeansCollected`, `AlwaysReturns`, `EventsRead` | the two staging protocols of dynamic endpoints under time-outs and bus events |
| `uart` | `TypeOK`, `WrittenInOrder`, `NoEcho`, `ReceivedInOrder`, `MoreData`, `FlushMeansSent`, `CallsReturn` | order, conservation, half-duplex turn-around and termination with and without interrupts |

Bounds. The rings have 4 slots and packets 2 bytes: a ring holds more than a
packet and less than two, so that it wraps, fills, and is drained by full and
short packets; 5 and 6 bytes per bus session wrap the indices; three bus resets
and SET_CONFIGURATIONs give a session before, across and after a cut (the first
SET_CONFIGURATION counts). In Ep0Control packets of 2 bytes and answers and wLength up to 5
give one, two and three packets with full and short ends, with and without a
terminating ZLP; three transfers are one more than any interaction of two; one
bus reset; a countdown of 2 reaches both the early and the fallback exit. Every
bound is a constant named in the module (`MaxBytes`, `MaxCuts`, `MaxLen`,
`MaxAddr`, `MaxRequests`, `MaxResets`). The violation runs use smaller ones.
The bootloader has four pages of four bytes, one of them BOOT, packets of four
bytes, so that every page command and every reply of a page takes two packets;
three outside resets are a double tap and one more, or a touch between two, and
three sessions restart an upload twice. Two FLMAP sections of two pages put a page
on each side of the border. In `Pluggable` the staging buffer of 4
takes reports of 1 + 1 and 1 + 4 bytes: one packet, and one full packet with a
rest; the OUT ring of 6 wraps, fills and, with packets of up to three events of
two bytes, drops; MIDI's ring of 4 holds one event less than the host may send;
two bus events give a configuration before and after a cut. In `Uart` a TX ring of
4 and six bytes wrap, fill and block the writer, one RX slot and two arrivals
overflow it.
Deadlock checking is off: when the bounds are used up, or the device has left for
the bootloader, the system may stop.

Fairness. An enabled interrupt is taken and its handler returns (WF on the
handler steps). A start of frame comes every millisecond, and the host repeats
the IN token to a configured bulk endpoint or the token of its open control
transfer; these are disabled again and again by running handlers, hence SF. The
sketch finishes an API call it entered: the AVR executes an instruction of the
main program between two interrupts (`Returning`). The sketch never owes a call,
except in `PollingSpec`, used to refute the comment about `usbCdcPoll()`. The
host owes no request and no read, and on the receive side nothing at all. The
bootloader's loop runs and its watchdog expires; a programmer that has begun goes
on and polls (`SessionEnds` needs it), nobody presses a button. In `Pluggable`
the interrupt is taken and its handler returns (WF on its steps, not on the service
of an endpoint, which the shared flag must lead to); the calls run between handlers
(SF); a wait that the host never ends
times out since its counter overflows; the sketch is assumed to read again and
again (SF on `Read`, which a call in progress disables), as `EventsRead` is about
reading. In `Uart` the main program runs inside its calls, enabled interrupts are
taken, the transmitter shifts; nobody owes a write, a read or `sei()`, which is
what makes `CallsReturn` about polling.

## 4. Proofs

All theorems hold for every value of the constants that the named assumptions
(`RingSizeAssumption`, `TxAssumption`, `RxAssumption`, `Ep0Assumption`,
`BlPipeAssumption`, `NvmAssumption`, `StkAssumption`, `EntryAssumption`,
`BootAssumption`, `ScriptAssumption`, `DynInAssumption`, `DynOutAssumption`, `PluggableAssumption`,
`UartAssumption`) admit:
any ring of at least two slots, any packet and even page size, any bounds, any
script of the programmer.

* `ByteRingProofs`: the ring lemmas, cited everywhere: an advance stays in the
  ring, two advances add, offsets within one turn name different slots, the fill
  level after a put and a take.
* `CdcTxProofs`
  * `TypeCorrect`. `TypeOK` is not inductive: `CommitByte` decrements the bytes
    left to write, so `TypeInv` adds that some are left while a byte is between
    its two stores.
  * `FlightCorrect` (no `AckRace`). `FlightInv` relates `g_tx_in_flight`, BUSNAK
    and the completion flags; the pump's guards and the reset handlers keep it.
  * `StreamCorrect` (no `ResetMidCall`). `StreamInv` adds to `StreamIntact` what
    `tx_ring_put()` has computed but not stored: the slot at the head already
    holds the next byte and the ring still has room, whatever the interrupts took
    out meanwhile.
  * `ArmedCorrect`, from the guards alone: each action that writes the packet
    tests BUSNAK or sets it.
  * `ZlpCorrect`. `FullLast` ties `last_full` to the host: the flag is up only
    with a full packet armed or a transfer left open by one.
  * `PipeCorrect` (no `ResetMidCall`), the refinement: `Spec => IsBytePipe`. The
    head store is `Accept`, the IN token `Deliver`, a reset or configuration
    `Cut`, everything else stutters. `StreamIntact` says that the queue holds the
    stretch of the stream between what the host has and what was written
    (`QueueIs`); `CountInv` bounds the bytes accepted.
* `CdcRxProofs`
  * `TypeCorrect`. `CopyOwned` says that endpoint 2 belongs to the handler from
    its completion until it is armed again, so the packet cannot change under the
    copy index.
  * `PromiseCorrect` (no `ResetMidCall`). `PromiseInv` adds that the head index
    loaded by `usbCdcAvailable()` is only overtaken by the writer and that the
    byte being taken is still the oldest.
  * `IntactCorrect` (no `ResetMidCall`). `IntactInv` adds to `RxIntact` that no
    byte is numbered above the count sent and that a packet only arrives in an
    emptied buffer. Every step but four leaves the stream alone or moves one byte
    from a part to the one before it (`MoveByteBehind`, `FromPut`, `FromTake`); a
    packet extends the stream (`IntactPacket`), a drop cuts it (`IntactCut`), a
    bus reset between two calls starts another.
  * `DropsCorrect`, from the types alone.
  * `PipeCorrect` (no `ResetMidCall`), the refinement for the ring side: the copy
    of a byte is `Accept`, the load of the oldest byte `Deliver`. The byte leaves
    the queue at the load, before the tail is stored, which is sound because
    `PromiseInv` keeps the slot from being reused in between; `BytesInv` says that
    what is copied are bytes that were sent.
* `Ep0Proofs`
  * `TypeCorrect`.
  * `AddressCorrect`, `FreshCorrect` (no `LateIsr`, no `AbandonDataOut`).
    `PipeInv` ties the host's stage to the device's: what a waiting SETUP
    implies (`SetupWaits`), which device states each host stage admits
    (`Stages`, `Decoded`), and when the OUT pointer is away (`PointerAway`).
  * `ReadCorrect`, from `ReadInv`: the device's cursor and the host's count
    agree for every length and packet size. `needZlp` is where the argument is
    not obvious: it is what makes a full last packet different from the end.
  * `TouchCorrect` (no `LateIsr` only). `TouchInv`: while the reset is owed to a
    status stage, that stage is open on both sides and no completion of an earlier
    stage is left that could end it. It holds with abandoned OUT data stages too,
    where `PipeInv` does not.

* `BootProofs`
  * `StaysCorrect` (no `ForeignArmed`). `EntryInv` says what the flag and RSTFR
    mean together: outside the window and the resets that end it the flag is
    clear, and after a reset the user has asked exactly when SWRF or the flag
    says so. It needs that an armed flag always comes with EXTRF.
  * `BootCorrect`, for `NoisySpec`: any packets of bytes, in any order, with any
    script and any resets. `ParserInv` ties the arguments still missing to the command, so
    that an address is set from two argument bytes and is a number; `FlashInv` adds
    that the writer is only started above the BOOT section. `MappedAbove` and `OtherPage` are the
    arithmetic: the pointer of an address above the section points above it, as
    BOOT lies in the lower window and no store leaves the window; the page erased is
    above it since the section is a whole number of pages.
* `UploadProofs` (no `Abandon`: a programmer stopped inside a message leaves the
  parser inside it, and the next message is payload to it)
  * `AnswersCorrect`. The programmer has at most one message open, so that the
    bytes in the system are at every moment the end of a message and the
    beginning of its answer. `PipeInv` relates the packet buffers, the completion
    flags and the loop that polls, and says that a reply is put together only while
    no packet is offered, but for the wait for room, which puts nothing. `Conversation` lines up what is still to be
    sent, in the packet and in the receive buffer with the position of the
    parser (`InStep`): the part of the message it has consumed determines its
    state, its arguments and how much of the payload is in the page buffer; and
    what was read, offered, staged and is still to be put with the answer.
  * `StoredCorrect`. `AddrInv` says that the parser's address is the programmer's
    last LOAD_ADDRESS when a page command is being worked on. `WriterInv` is about
    the page being written: cells before `at` hold their data and the others of
    the page are erased, so that programming, which only clears bits, writes the
    data. `StoredInv` is `AcknowledgedIsStored` with the page that is complete but
    not yet answered. A write disturbs no earlier page, since pages of the script
    are distinct and start at multiples of the page size (`OtherCell`, `PageCells`); a reset ends the
    session, so that nothing is claimed any more. The page size is even because
    the writer works in words: a word may not reach into the next page.
  * `TypeCorrect`, from the same invariant, as the range of the buffers is that of
    the bytes that flow through them. Verification needs all three together: what
    READ_PAGE answers is what was stored.
* `PluggableProofs`
  * `StaleCorrect`. `FreshInv`: unless `torn`, everything staged, counted or offered
    was staged since SET_CONFIGURATION, because that empties the buffer and the
    endpoint at once. `TornInv` says that the register of a call then agrees with
    `s_dyn_ep_pos`, and `GoneInv` that a call which clears `torn` has no packet left
    in flight; `FreshCopy` is the copy itself.
  * `CollectedCorrect`, `SuccessCorrect`. `OrderInv` places the staged bytes at
    each point of `dyn_ep_release()`: behind what the host has, or, once it has
    fetched the packet, part of it. `StagePart` shows that the copy is a
    concatenation.
  * `TypeCorrect`, from `InShape`, `OutShape` and `FlagsInv`.
  * `EventsCorrect`. Bytes and events travel through a packet, a byte ring, the
    buffer of `accept()` and an event ring, so that the proof is about the whole
    of them as one stream: `RingPut` and `RingTake` say what storing several
    values and taking one do to a ring seen as a sequence, `FlatSplit` and
    `EventOfFlat` how the byte stream is cut into events. `ReaderInv` adds what
    `accept()` relies on: when it fetches there is room for an event, and a
    `read()` that went to the endpoint finds one, unless a byte was lost.
* `UartProofs`
  * `TypeCorrect`.
  * `MoreDataCorrect`. `SendInv`: the interrupt is on exactly while the ring holds
    bytes, except inside `write()`; TXCIF is up only over an idle transmitter.
  * `WrittenCorrect`, `FlushCorrect`, from `SendInv` and lemmas on what a put and
    a take do to the ring seen as a sequence (`RingedAppend`, `RingedTake`).
  * `NoEchoCorrect`. `EchoInv`: in half duplex, while the receive interrupt is on,
    nothing of the port's own is on the line or in the receiver.
  * `ReceivedCorrect`. `InInv`: until a byte is dropped, what was read, what the
    ring holds and what the receiver holds carry the other side's bytes once and
    in order, with echoes between (`Carries`); `OwnInv` says that whatever is on
    its way out is the port's own, so that an echo never passes for a byte of the
    other side.

Every invariant and every safety action property of the passing runs is stated by
one of these theorems. Only model-checked: liveness (`EventuallyDrained`,
`AlwaysArmedAgain`, `TransferEnds`, `TouchHonoured`, `SessionEnds`, `AlwaysReturns`,
`EventsRead`, `CallsReturn`), which is outside the prover's reach.

## 5. Findings

Six runs show a disagreement between the code and a statement of the repository;
`PROJECT.json` "findings" quotes each. In short: a completion can be lost at the
final acknowledgement; `flush()` can return early; `usbCdcRead()` is not safe
against a bus reset; a late interrupt confuses SET_ADDRESS with the previous
status stage; an abandoned SET_LINE_CODING diverts the next SETUP packet; a read that a plugged module accepts
without data never gets its status stage. `TransferEnds` holds for all other
requests but one (`LeftOpen`): a SET_REPORT longer than a packet, whose second packet
the device never takes.

What the bootloader, dynamic endpoint and serial models show without a run of
their own is in `PROJECT.json` "hazards", with the reason: the histories `broken`,
`torn`, `lost`, `raced` and `cut` mark the behaviours after which a property ends.
Documents that the source no longer follows, met while modelling: BL `../DESIGN.md`
gives LOAD_ADDRESS as a word address to be doubled (the parser takes a byte
address, as in `LoadedAddress`); it and BL `../README.md` have a lone RESET stay in the
bootloader (README.md line 101; it takes two), ask the application for a magic word
at 0x7FFE (lines 89-91; a software reset asks), and say that EEPROM is not
implemented (line 103; it is). `StaysAsAsked` and `AcknowledgedIsStored` state what the
source does.

## 6. Not modelled

Control pipe and CDC: descriptor bytes and strings, endpoint halt and
the remote wakeup flag, LED hooks and diagnostics, the hardware start-up of
`usbInit()`, data toggles, suspend and resume. The contents of
a SET_REPORT and of a line coding are abstracted to which buffer they land in and
whether the baud is 1200. SEND_BREAK and the feature requests are
`SetupPlain`. Of a data stage abandoned while it is being written by the
hardware nothing is assumed.

RMWBUSY: the main program and the interrupts wait for it before they write an
endpoint's status, and the wait and the write are not one step. What the
peripheral does with a write in between is not in the source, so that the writes
are atomic here.

Dynamic endpoints: `plug()` and the allocation of endpoint numbers, which is
arithmetic over constants at start-up; `USB_SendControl()` and
`USB_RecvControl()` beyond the SET_REPORT stage; descriptors.

Bootloader: its control pipe and bus reset (a smaller copy of `Ep0Control`'s),
zero-length OUT packets, LED, clock and vector set-up, the SPM entry for
applications, the unlock sequences of NVMCTRL; stores that run past the flash window,
which only a write that is not page aligned can make; what the controller does with
a word stored at an odd address, taken here as its two cells.

Serial port: baud and pins, swap, `printHex()`, error and parity bits, autobaud,
synchronous and SPI modes. The bytes of a line are numbered, not valued.

The rest of the repository is listed in `PROJECT.json` with status not_modelled:
timekeeping, wiring, interrupts, tone, the Arduino API, bus and helper libraries
are inherited from DxCore or upstream, selected at compile time, and keep their
state in peripherals; most of the lines are headers of constants, key
layouts, vendored libraries and tools. `Wire` and `SoftwareSerial` have
interrupt-driven state machines and are the next candidates, then the
allocation of `plug()`.
