----------------------------- MODULE Bootloader -----------------------------
(***************************************************************************)
(* The bootloader as a whole: entry, pipe, parser and flash writer, with   *)
(* an avrdude-like programmer that sends a message, reads the whole answer *)
(* and goes on, and with resets at any moment.  NoisySpec adds a host that *)
(* sends any packets in any order.                                         *)
(***************************************************************************)
EXTENDS Stk500, BootEntry

CONSTANTS
  MaxResets,       \* bound: resets from outside (button, power, touch)
  MaxSessions,     \* bound: runs of the programmer
  Abandon,         \* may a programmer be stopped in the middle, the bootloader running on
  Script,          \* the messages of a session of the programmer, in order
  Noise            \* the packets that a host other than the programmer sends

ASSUME BootAssumption ==
  /\ MaxResets \in Nat /\ MaxSessions \in Nat /\ Abandon \in BOOLEAN
  /\ \A p \in Noise : p \in Seq(0 .. 255) /\ Len(p) \in 0 .. BlPacketSize

VARIABLES
  step, toSend, got,     \* programmer: message of its script, bytes left to send, bytes read
  resets, sessions       \* counters of the bounds

hostVars == <<step, toSend, got>>
vars == <<entryVars, pipeVars, nvmVars, stkVars, hostVars, resets, sessions>>

-----------------------------------------------------------------------------
(* The programmer (avrdude -c arduino).  A message is a command, its       *)
(* arguments, a payload and the terminator; expect is the answer to it.    *)

Send(m) == <<m.cmd>> \o m.args \o m.data \o <<Eop>>

\* A page command: what it is for, how much, and where by the message before it.
Size(m) == m.args[1] * 256 + m.args[2]
Mem(m) == m.args[3]
Programs(k, mems) == Script[k].cmd = ProgPage /\ Mem(Script[k]) \in mems
Reads(k, mems) == Script[k].cmd = ReadPage /\ Mem(Script[k]) \in mems
Address(k) == Script[k - 1].args[1] + 256 * Script[k - 1].args[2]

\* What STK500 allows; 240 and 241 are no commands of the protocol.
Allowed(m) ==
  /\ m.cmd \in 0 .. 255 \ {FinalisePage, EmitPage}
  /\ m.args \in Seq(0 .. 255) /\ Len(m.args) = ArgLen(m.cmd)
  /\ m.data \in Seq(0 .. 255) /\ Len(m.data) = (IF m.cmd = ProgPage THEN Size(m) ELSE 0)
  /\ m.cmd \in {ProgPage, ReadPage} => Size(m) \in 1 .. PageBuf

\* A read comes after the upload of what it reads.
ReadsUploaded(k, mems) ==
  \E j \in 1 .. k - 1 :
    /\ Programs(j, mems) /\ Address(j) = Address(k) /\ Size(Script[k]) <= Len(Script[j].data)
    /\ Script[k].expect = <<Insync>> \o SubSeq(Script[j].data, 1, Size(Script[k])) \o <<Ok>>

Expects(k, c) ==
  CASE c \in Plain \cup {LoadAddress, ProgPage, LeaveProgmode} -> Script[k].expect = <<Insync, Ok>>
    [] c \in Answered -> Script[k].expect = <<Insync>> \o Data(c, Script[k].args) \o <<Ok>>
    [] c = ReadPage -> \/ Reads(k, FlashMem) /\ Address(k) >= AppStart /\ ReadsUploaded(k, FlashMem)
                       \/ Reads(k, EepromMem) /\ ReadsUploaded(k, EepromMem)
    [] OTHER -> Script[k].expect = <<Nosync>>

\* Every page command follows the address it is about; a page of the flash is
\* uploaded from its start ("avrdude ... does this naturally"), and no cell twice.
ASSUME ScriptAssumption ==
  /\ Len(Script) \in Nat \ {0}
  /\ \A k \in 1 .. Len(Script) :
       /\ Allowed(Script[k]) /\ Expects(k, Script[k].cmd)
       /\ Script[k].cmd = LeaveProgmode <=> k = Len(Script)
       /\ Script[k].cmd \in {ProgPage, ReadPage} => k > 1 /\ Script[k - 1].cmd = LoadAddress
       /\ Programs(k, FlashMem) =>
            /\ Address(k) % NvmPage = 0 /\ Address(k) < FlashEnd /\ Len(Script[k].data) <= NvmPage
            /\ \A j \in 1 .. k - 1 : Programs(j, FlashMem) => Address(j) # Address(k)
       /\ Programs(k, EepromMem) =>
            /\ Address(k) + Len(Script[k].data) <= EepromSize
            /\ \A j \in 1 .. k - 1 : Programs(j, EepromMem) =>
                 \/ Address(j) + Len(Script[j].data) <= Address(k)
                 \/ Address(k) + Len(Script[k].data) <= Address(j)

\* g_page_buf and the flash before the first upload: blank, or an old program.
Init ==
  /\ EntryInit /\ PipeInit /\ StkInit
  /\ \E old \in {Erased, 1} :
       flash = [a \in 0 .. FlashEnd - 1 |-> IF a < AppStart THEN 2 ELSE old]
  /\ eeprom = [a \in 0 .. EepromSize - 1 |-> Erased] /\ at = 0
  /\ step = 0 /\ toSend = <<>> /\ got = <<>> /\ resets = 0 /\ sessions = 0

device == <<nvmVars, stkVars, entryVars>>

StartSession ==
  /\ mode = "dfu" /\ sessions < MaxSessions
  /\ step = 0 \/ Abandon
  /\ sessions' = sessions + 1
  /\ step' = 1 /\ toSend' = Send(Script[1]) /\ got' = <<>>
  /\ UNCHANGED <<pipeVars, device, resets>>

HostSend ==
  /\ mode = "dfu" /\ toSend # <<>>
  /\ LET n == IF Len(toSend) < BlPacketSize THEN Len(toSend) ELSE BlPacketSize IN
       /\ OutPacket(SubSeq(toSend, 1, n))
       /\ toSend' = SubSeq(toSend, n + 1, Len(toSend))
  /\ UNCHANGED <<device, step, got, resets, sessions>>

HostRead ==
  /\ mode = "dfu" /\ step > 0 /\ InPacket
  /\ got' = got \o InBytes
  /\ UNCHANGED <<device, step, toSend, resets, sessions>>

HostNext ==                          \* the answer is complete
  /\ mode = "dfu" /\ step > 0 /\ toSend = <<>>
  /\ Len(got) >= Len(Script[step].expect)
  /\ got' = <<>>
  /\ IF step < Len(Script) THEN step' = step + 1 /\ toSend' = Send(Script[step + 1])
                           ELSE step' = 0 /\ toSend' = <<>>
  /\ UNCHANGED <<pipeVars, device, resets, sessions>>

\* Another host: any of its packets at any moment; what is offered to it is read.
HostNoise ==
  /\ mode = "dfu"
  /\ InPacket \/ \E p \in Noise : OutPacket(p)
  /\ UNCHANGED <<device, hostVars, resets, sessions>>

-----------------------------------------------------------------------------
(* Resets: start-up code clears the bootloader's variables, except         *)
(* s_dbltap_flag; the programmer loses the port.                           *)

AfterReset ==
  /\ PipeRestart /\ StkRestart /\ at' = 0
  /\ step' = 0 /\ toSend' = <<>> /\ got' = <<>>
  /\ UNCHANGED <<flash, eeprom, sessions>>

OutsideReset ==
  /\ resets < MaxResets /\ resets' = resets + 1
  /\ PowerOn \/ Button \/ Touch
  /\ AfterReset

Exit ==                              \* bl_exit_via_wdt(); the host has polled the last packet
  /\ mode = "dfu" /\ cpu = "halt" /\ inNak
  /\ Watchdog /\ AfterReset
  /\ UNCHANGED resets

Invalid == flash[AppStart] = Erased /\ flash[AppStart + 1] = Erased

Boot ==
  /\ Decide(Invalid) \/ AppUsesRam
  /\ UNCHANGED <<pipeVars, nvmVars, stkVars, hostVars, resets, sessions>>

Run == mode = "dfu" /\ Loop /\ UNCHANGED <<entryVars, hostVars, resets, sessions>>

Host == StartSession \/ HostSend \/ HostRead \/ HostNext

Next == Host \/ OutsideReset \/ Exit \/ Boot \/ Run

Spec == Init /\ [][Next]_vars

NoisySpec == Init /\ [][Next \/ HostNoise]_vars

\* The processor runs, a programmer goes on with the session it has started and
\* reads what is offered, the watchdog expires; nobody has to press anything.
Fairness ==
  /\ WF_vars(Run) /\ WF_vars(Exit) /\ WF_vars(Decide(Invalid) /\ Boot)
  /\ WF_vars(HostSend) /\ WF_vars(HostRead) /\ WF_vars(HostNext)

FairSpec == Spec /\ Fairness

-----------------------------------------------------------------------------
TypeOK ==
  /\ EntryTypes /\ PipeTypes /\ StkTypes
  /\ flash \in [0 .. FlashEnd - 1 -> 0 .. 255] /\ eeprom \in [0 .. EepromSize - 1 -> 0 .. 255]
  /\ at \in 0 .. PageBuf + 1
  /\ step \in 0 .. Len(Script) /\ resets \in 0 .. MaxResets /\ sessions \in 0 .. MaxSessions

\* What the programmer has read is a beginning of the answer it waits for: the
\* parser is in step with it and the pipe changes no byte, although replies are
\* staged in the buffer of the packet in flight.
AnswersRight ==
  step > 0 =>
    /\ Len(got) <= Len(Script[step].expect)
    /\ got = SubSeq(Script[step].expect, 1, Len(got))

\* A page of the application, or a byte of EEPROM, whose PROG_PAGE was answered
\* OK in this session is in memory, whatever resets came before and wherever.
AcknowledgedIsStored ==
  \A k \in 1 .. step - 1 :
    /\ Programs(k, FlashMem) /\ Address(k) >= AppStart =>
         \A i \in 1 .. Len(Script[k].data) : flash[Address(k) + i - 1] = Script[k].data[i]
    /\ Programs(k, EepromMem) =>
         \A i \in 1 .. Len(Script[k].data) : eeprom[Address(k) + i - 1] = Script[k].data[i]

\* No command and no upload changes the BOOT section ("Refuse to clobber the
\* BOOT section"), whatever bytes come in whatever packets.
BootIntact == \A a \in 0 .. AppStart - 1 : flash[a] = 2

\* "A lone press runs the application; a second press within a short window
\* enters DFU", the touch always does, a blank application is never started:
\* the bootloader stays if and only if it was asked to or has nothing to run.
StaysAsAsked ==
  [][mode' # mode /\ mode \in {"reset", "window"} =>
       /\ (mode' = "dfu" => asked \/ Invalid)
       /\ (mode' \in {"app", "window"} => ~asked)
       /\ (mode' = "app" => ~Invalid)]_vars

\* A session that is not cut off by a reset runs to its end and leaves the
\* bootloader.
SessionEnds == (step > 0) ~> (mode = "reset")
=============================================================================
