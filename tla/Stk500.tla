------------------------------- MODULE Stk500 -------------------------------
(***************************************************************************)
(* The STK500v1 parser of the bootloader, stk500.c: one action per state   *)
(* of feed_byte() and, at the end of a command, per kind of command.  A    *)
(* reply is put into the pipe byte by byte; a page is written in between.  *)
(***************************************************************************)
EXTENDS BlPipe, Nvm

CONSTANT PageBuf         \* sizeof(g_page_buf) (512 in the source)

ASSUME StkAssumption == PageBuf \in Nat \ {0}

VARIABLES
  st, cmd, addr,         \* g_state, g_cmd, g_byte_addr
  args, need,            \* g_args up to g_args_idx, g_args_pending
  size, mem,             \* g_pp_size, g_pp_memtype
  page, fill,            \* g_page_buf, g_page_buf_idx
  reply, leaving         \* bytes still to be put; LEAVE_PROGMODE was accepted

stkVars == <<st, cmd, addr, args, need, size, mem, page, fill, reply, leaving>>

StkInit ==                            \* stk500_init()
  /\ st = "idle" /\ cmd = 0 /\ addr = 0 /\ args = <<>> /\ need = 0
  /\ size = 0 /\ mem = 0 /\ page = [i \in 0 .. PageBuf - 1 |-> 255] /\ fill = 0
  /\ reply = <<>> /\ leaving = FALSE

StkRestart ==                         \* the same, after a reset
  /\ st' = "idle" /\ cmd' = 0 /\ addr' = 0 /\ args' = <<>> /\ need' = 0
  /\ size' = 0 /\ mem' = 0 /\ page' = [i \in 0 .. PageBuf - 1 |-> 255] /\ fill' = 0
  /\ reply' = <<>> /\ leaving' = FALSE

Ok == 16    Insync == 20    Nosync == 21    Eop == 32
GetSync == 48    GetParameter == 65    LeaveProgmode == 81
LoadAddress == 85    ProgPage == 100    ReadPage == 116
FinalisePage == 240    EmitPage == 241          \* the sentinels in g_cmd
FlashMem == {70, 102}    EepromMem == {69, 101}

\* Commands answered with INSYNC OK alone, and those answered with data between.
Plain == {GetSync, 64, 66, 69, 80, 82}
Data(c, a) ==
  CASE c = 49 -> <<65, 86, 82, 32, 83, 84, 75>>           \* GET_SIGN_ON
    [] c = GetParameter ->
         LET known == [p \in {128, 129, 130} |-> CASE p = 128 -> 1 [] p = 129 -> 8 [] p = 130 -> 2]
         IN <<IF a[1] \in DOMAIN known THEN known[a[1]] ELSE 3>>
    [] c = 86 -> <<0>>                                    \* UNIVERSAL
    [] c = 117 -> <<30, 150, 33>>                         \* READ_SIGN
Answered == {49, GetParameter, 86, 117}

ArgLen(c) ==                          \* cmd_arglen, the header of a page as 3
  CASE c = GetParameter -> 1  [] c \in {64, LoadAddress} -> 2
    [] c \in {ProgPage, ReadPage} -> 3  [] c = 86 -> 4
    [] c = 69 -> 5  [] c = 66 -> 20  [] OTHER -> 0

-----------------------------------------------------------------------------
(* feed_byte().                                                            *)

TakeCommand ==
  \E b \in 0 .. 255 :
    /\ Pop(b) /\ st = "idle"
    /\ cmd' = b /\ args' = <<>> /\ need' = ArgLen(b)
    /\ st' = CASE b = ProgPage -> "progHeader"
               [] b = ReadPage -> "readHeader"
               [] ArgLen(b) = 0 -> "eop"
               [] OTHER -> "args"
    /\ UNCHANGED <<cpu, ret, trnIrq, rxBuf, outNak, outTrn, rxCnt, txVars, nvmVars,
                   addr, size, mem, page, fill, reply, leaving>>

TakeArg ==
  \E b \in 0 .. 255 :
    /\ Pop(b) /\ st = "args"
    /\ args' = Append(args, b) /\ need' = need - 1
    /\ st' = (IF need = 1 THEN "eop" ELSE "args")
    /\ UNCHANGED <<cpu, ret, trnIrq, rxBuf, outNak, outTrn, rxCnt, txVars, nvmVars,
                   cmd, addr, size, mem, page, fill, reply, leaving>>

\* The size of a page command, most significant byte first.
HeaderSize == args[1] * 256 + args[2]

TakeProgHeader ==
  \E b \in 0 .. 255 :
    /\ Pop(b) /\ st = "progHeader"
    /\ args' = Append(args, b) /\ need' = need - 1
    /\ IF need > 1
       THEN UNCHANGED <<st, size, mem, fill>>
       ELSE /\ size' = HeaderSize /\ mem' = b
            /\ fill' = (IF HeaderSize > PageBuf THEN fill ELSE 0)
            /\ st' = (IF HeaderSize \in 1 .. PageBuf THEN "data" ELSE "eop")
    /\ UNCHANGED <<cpu, ret, trnIrq, rxBuf, outNak, outTrn, rxCnt, txVars, nvmVars,
                   cmd, addr, page, reply, leaving>>

\* Mutant of LastPayload: one byte too many is taken for the page.
LastPayloadLate == fill >= size

LastPayload == fill + 1 >= size

TakePayload ==
  \E b \in 0 .. 255 :
    /\ Pop(b) /\ st = "data"
    /\ page' = [page EXCEPT ![fill] = b] /\ fill' = fill + 1
    /\ IF LastPayload THEN cmd' = FinalisePage /\ st' = "eop"
                      ELSE UNCHANGED <<cmd, st>>
    /\ UNCHANGED <<cpu, ret, trnIrq, rxBuf, outNak, outTrn, rxCnt, txVars, nvmVars,
                   addr, args, need, size, mem, reply, leaving>>

TakeReadHeader ==
  \E b \in 0 .. 255 :
    /\ Pop(b) /\ st = "readHeader"
    /\ args' = Append(args, b) /\ need' = need - 1
    /\ IF need > 1
       THEN UNCHANGED <<st, size, mem, cmd>>
       ELSE /\ size' = HeaderSize /\ mem' = b /\ st' = "eop"
            /\ cmd' = (IF HeaderSize > PageBuf THEN cmd ELSE EmitPage)
    /\ UNCHANGED <<cpu, ret, trnIrq, rxBuf, outNak, outTrn, rxCnt, txVars, nvmVars,
                   addr, page, fill, reply, leaving>>

StkIdle ==                            \* cdc_min_rx_pop() returns -1
  /\ cpu = "stk" /\ rxIdx >= rxCnt
  /\ cpu' = "usb"
  /\ UNCHANGED <<ret, trnIrq, rxVars, txVars, nvmVars, stkVars>>

-----------------------------------------------------------------------------
(* ST_WAIT_EOP and dispatch().                                             *)

Terminator(b) ==
  /\ Pop(b) /\ st = "eop" /\ st' = "idle"
  /\ UNCHANGED <<ret, trnIrq, rxBuf, outNak, outTrn, rxCnt, txVars, cmd, args, need,
                 size, mem, page, fill>>

Answer(bytes) == reply' = bytes /\ cpu' = "put"

Refuse ==                             \* NOSYNC: no terminator, or not a command
  \E b \in 0 .. 255 :
    /\ Terminator(b)
    /\ \/ b # Eop
       \/ cmd \notin Plain \cup Answered \cup {LoadAddress, LeaveProgmode, FinalisePage, EmitPage}
    /\ Answer(<<Nosync>>)
    /\ UNCHANGED <<nvmVars, addr, leaving>>

Acknowledge ==
  /\ Terminator(Eop) /\ cmd \in Plain \cup Answered \cup {LeaveProgmode}
  /\ Answer(IF cmd \in Answered THEN <<Insync>> \o Data(cmd, args) \o <<Ok>> ELSE <<Insync, Ok>>)
  /\ leaving' = (cmd = LeaveProgmode)
  /\ UNCHANGED <<nvmVars, addr>>

\* Mutant of LoadedAddress: the word address that DESIGN.md describes.
LoadedWordAddress == (args[1] + 256 * args[2]) * 2

LoadedAddress == args[1] + 256 * args[2]

SetAddress ==
  /\ Terminator(Eop) /\ cmd = LoadAddress
  /\ addr' = LoadedAddress
  /\ Answer(<<Insync, Ok>>)
  /\ UNCHANGED <<nvmVars, leaving>>

Stored(a) == IF mem \in FlashMem THEN ReadFlash(a)
             ELSE IF mem \in EepromMem THEN ReadEeprom(a) ELSE Erased

Emit ==                               \* read_page_emit
  /\ Terminator(Eop) /\ cmd = EmitPage
  /\ Answer(<<Insync>> \o [i \in 1 .. size |-> Stored(addr + i - 1)] \o <<Ok>>)
  /\ UNCHANGED <<nvmVars, addr, leaving>>

Finalise ==                           \* prog_page_finalise, up to the first store
  /\ Terminator(Eop) /\ cmd = FinalisePage
  /\ reply' = <<Insync, Ok>> /\ at' = 0
  /\ cpu' = IF mem \in FlashMem /\ Writable(addr, size) THEN "erase"
            ELSE IF mem \in EepromMem THEN "eeprom" ELSE "put"
  /\ UNCHANGED <<flash, eeprom, addr, leaving>>

-----------------------------------------------------------------------------
(* nvm_write_page() and nvm_write_eeprom() of the page buffer.             *)

ErasePart ==
  /\ cpu = "erase"
  /\ ErasePage(addr)
  /\ cpu' = "word"
  /\ UNCHANGED <<ret, trnIrq, rxVars, txVars, eeprom, at, stkVars>>

WordPart ==
  /\ cpu = "word" /\ at < WriteLen(size)
  /\ StoreWord(addr, at, page[at], HighByte(page, at, WriteLen(size)))
  /\ at' = at + 2
  /\ UNCHANGED <<cpu, ret, trnIrq, rxVars, txVars, eeprom, stkVars>>

EepromPart ==
  /\ cpu = "eeprom" /\ at < EepromLen(addr, size)
  /\ eeprom' = [eeprom EXCEPT ![addr + at] = page[at]]
  /\ at' = at + 1
  /\ UNCHANGED <<cpu, ret, trnIrq, rxVars, txVars, flash, stkVars>>

NvmEnd ==
  /\ \/ cpu = "word" /\ at >= WriteLen(size)
     \/ cpu = "eeprom" /\ at >= EepromLen(addr, size)
  /\ cpu' = "put"
  /\ UNCHANGED <<ret, trnIrq, rxVars, txVars, nvmVars, stkVars>>

PutReply ==                           \* put1, put2, put_n; then on to the flush or the loop
  /\ TxByte(Head(reply))
  /\ reply' = Tail(reply)
  /\ cpu' = IF Len(reply) > 1 THEN "put" ELSE IF leaving THEN "flush" ELSE "stk"
  /\ UNCHANGED <<nvmVars, st, cmd, addr, args, need, size, mem, page, fill, leaving>>

-----------------------------------------------------------------------------
PipeStep == (PollIdle \/ PollDone \/ PollAck \/ CdcPoll \/ WaitRoom \/ Flush)
            /\ UNCHANGED <<nvmVars, stkVars>>

Parse == \/ TakeCommand \/ TakeArg \/ TakeProgHeader \/ TakePayload \/ TakeReadHeader
         \/ Refuse \/ Acknowledge \/ SetAddress \/ Emit \/ Finalise \/ StkIdle

Write == ErasePart \/ WordPart \/ EepromPart \/ NvmEnd

Loop == PipeStep \/ Parse \/ Write \/ PutReply

Word == 0 .. 65535       \* uint16_t

StkTypes ==
  /\ st \in {"idle", "args", "eop", "progHeader", "readHeader", "data"}
  /\ cmd \in 0 .. 255 /\ addr \in Word /\ need \in 0 .. 20
  /\ args \in Seq(0 .. 255) /\ size \in Word /\ mem \in 0 .. 255
  /\ page \in [0 .. PageBuf - 1 -> 0 .. 255] /\ fill \in 0 .. PageBuf
  /\ reply \in Seq(0 .. 255) /\ leaving \in BOOLEAN
=============================================================================
