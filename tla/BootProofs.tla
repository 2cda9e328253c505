----------------------------- MODULE BootProofs -----------------------------
(***************************************************************************)
(* Bootloader, for every size of memory, page, packet and buffer and every *)
(* bound: it stays exactly when it was asked to, and no packets of any     *)
(* host change the BOOT section.                                           *)
(***************************************************************************)
EXTENDS Bootloader, SequenceTheorems, TLAPS

-----------------------------------------------------------------------------
(* The decision.                                                           *)

\* The flag and RSTCTRL.RSTFR together say what was asked for: the flag is
\* armed only in the window and in the resets that end it.
EntryInv ==
  /\ mode \in {"reset", "window", "dfu", "app"} /\ armed \in BOOLEAN /\ asked \in BOOLEAN
  /\ mode \in {"dfu", "app"} => ~armed /\ rstfr = {} /\ ~asked
  /\ mode = "window" => armed /\ rstfr = {} /\ ~asked
  /\ mode = "reset" => /\ asked <=> "sw" \in rstfr \/ armed
                       /\ armed => "ext" \in rstfr

LEMMA EntryStarts == ~ForeignArmed /\ Init => EntryInv
<1> SUFFICES ASSUME ~ForeignArmed, Init PROVE EntryInv
  OBVIOUS
<1>1. ForeignArmed = FALSE
  BY EntryAssumption
<1>2. mode = "reset" /\ rstfr = {"por"} /\ armed = FALSE /\ asked = FALSE
  BY <1>1 DEF Init, EntryInit
<1> QED BY <1>2 DEF EntryInv

\* Only the resets and main() change what the decision looks at.
LEMMA EntryFrame ==
  Next => PowerOn \/ Button \/ Touch \/ (Watchdog /\ mode = "dfu") \/ AppUsesRam \/ Decide(Invalid)
          \/ UNCHANGED entryVars
<1> SUFFICES ASSUME Next
             PROVE  PowerOn \/ Button \/ Touch \/ (Watchdog /\ mode = "dfu") \/ AppUsesRam
                    \/ Decide(Invalid) \/ UNCHANGED entryVars
  OBVIOUS
<1>1. CASE Host
  BY <1>1 DEF Host, StartSession, HostSend, HostRead, HostNext, device
<1>2. CASE OutsideReset
  BY <1>2 DEF OutsideReset
<1>5. CASE Boot
  BY <1>5 DEF Boot
<1>3. CASE Exit
  BY <1>3 DEF Exit
<1>4. CASE Run
  BY <1>4 DEF Run
<1> QED BY <1>1, <1>2, <1>3, <1>4, <1>5 DEF Next

LEMMA EntryStep == ~ForeignArmed /\ EntryInv /\ [Next]_vars => EntryInv'
<1> SUFFICES ASSUME ~ForeignArmed, EntryInv, [Next]_vars PROVE EntryInv'
  OBVIOUS
<1>0. ForeignArmed = FALSE
  BY EntryAssumption
<1>1. CASE PowerOn
  <2>1. mode' = "reset" /\ rstfr' = {"por"} /\ armed' = FALSE /\ asked' = FALSE
    BY <1>0, <1>1 DEF PowerOn
  <2> QED BY <2>1 DEF EntryInv
<1>2. CASE Button
  BY <1>2 DEF Button, EntryInv
<1>3. CASE Touch
  BY <1>3 DEF Touch, EntryInv
<1>4. CASE Watchdog /\ mode = "dfu"
  BY <1>4 DEF Watchdog, EntryInv
<1>5. CASE AppUsesRam
  <2>1. mode = "app" /\ armed' = FALSE /\ UNCHANGED <<mode, rstfr, asked>>
    BY <1>0, <1>5 DEF AppUsesRam
  <2> QED BY <2>1 DEF EntryInv
<1>6. CASE Decide(Invalid)
  <2>1. CASE StayOnTouch
    BY <2>1 DEF StayOnTouch, EntryInv
  <2>2. CASE StayOnDoubleTap
    BY <2>2 DEF StayOnDoubleTap, EntryInv
  <2>3. CASE OpenWindow
    BY <2>3 DEF OpenWindow, EntryInv
  <2>4. CASE WindowElapsed(Invalid)
    BY <2>4 DEF WindowElapsed, RunOrStay, EntryInv
  <2>5. CASE PlainBoot(Invalid)
    BY <2>5 DEF PlainBoot, RunOrStay, EntryInv
  <2> QED BY <1>6, <2>1, <2>2, <2>3, <2>4, <2>5 DEF Decide
<1>7. CASE UNCHANGED entryVars
  BY <1>7 DEF entryVars, EntryInv
<1> QED BY <1>1, <1>2, <1>3, <1>4, <1>5, <1>6, <1>7, EntryFrame DEF vars

\* The bootloader stays if and only if it was asked to or has nothing to run,
\* as long as no RAM the bootloader did not write looks like an armed flag.
THEOREM StaysCorrect == ~ForeignArmed => (Spec => StaysAsAsked)
<1> SUFFICES ASSUME ~ForeignArmed PROVE Spec => StaysAsAsked
  OBVIOUS
<1>1. Init => EntryInv
  BY EntryStarts
<1>2. EntryInv /\ [Next]_vars => EntryInv'
  BY EntryStep
<1>3. EntryInv /\ [Next]_vars
        => [mode' # mode /\ mode \in {"reset", "window"} =>
              /\ (mode' = "dfu" => asked \/ Invalid)
              /\ (mode' \in {"app", "window"} => ~asked)
              /\ (mode' = "app" => ~Invalid)]_vars
  <2> SUFFICES ASSUME EntryInv, Next, mode' # mode, mode \in {"reset", "window"}
               PROVE  /\ (mode' = "dfu" => asked \/ Invalid)
                      /\ (mode' \in {"app", "window"} => ~asked)
                      /\ (mode' = "app" => ~Invalid)
    OBVIOUS
  <2>1. CASE PowerOn \/ Button
    BY <2>1 DEF PowerOn, Button
  <2>2. CASE StayOnTouch \/ StayOnDoubleTap \/ OpenWindow
    BY <2>2 DEF StayOnTouch, StayOnDoubleTap, OpenWindow, EntryInv
  <2>3. CASE WindowElapsed(Invalid) \/ PlainBoot(Invalid)
    BY <2>3 DEF WindowElapsed, PlainBoot, RunOrStay, EntryInv
  <2> QED BY <2>1, <2>2, <2>3, EntryFrame DEF Touch, AppUsesRam, Decide, entryVars
<1> QED BY <1>1, <1>2, <1>3, PTL DEF Spec, StaysAsAsked

-----------------------------------------------------------------------------
(* The BOOT section.                                                       *)

\* The address and the progress of the writer are numbers; an address comes
\* from the two arguments of LOAD_ADDRESS.
ParserInv ==
  /\ addr \in Nat /\ at \in Nat /\ args \in Seq(0 .. 255)
  /\ st \in {"idle", "args", "eop", "progHeader", "readHeader", "data"}
  /\ st = "args" => need \in Nat \ {0} /\ Len(args) + need = ArgLen(cmd)
  /\ st \in {"progHeader", "readHeader", "data"} => cmd \in {ProgPage, ReadPage}
  /\ st = "eop" /\ cmd = LoadAddress => Len(args) = 2

\* The writer is started above the BOOT section and stays there.
FlashInv ==
  /\ ret \in {"loop", "put", "flush"}
  /\ cpu \in {"erase", "word"} => addr >= AppStart
  /\ flash = [c \in 0 .. FlashEnd - 1 |-> flash[c]]
  /\ BootIntact

LEMMA ParserStarts == Init => ParserInv
BY EmptySeq DEF Init, StkInit, ParserInv

\* Bytes of the programmer go into the arguments one by one.
LEMMA ParserStep == ParserInv /\ [Next \/ HostNoise]_vars => ParserInv'
<1> SUFFICES ASSUME ParserInv, [Next \/ HostNoise]_vars PROVE ParserInv'
  OBVIOUS
<1> DEFINE Same == UNCHANGED <<addr, at, args, st, need, cmd>>
<1>1. CASE Host \/ HostNoise \/ Boot \/ UNCHANGED vars
  <2>1. Same
    BY <1>1 DEF Host, StartSession, HostSend, HostRead, HostNext, HostNoise, Boot, device, nvmVars,
           stkVars, vars
  <2> QED BY <2>1 DEF ParserInv
<1>2. CASE OutsideReset \/ Exit
  <2>1. addr' = 0 /\ at' = 0 /\ args' = <<>> /\ st' = "idle"
    BY <1>2 DEF OutsideReset, Exit, AfterReset, StkRestart
  <2> QED BY <2>1, EmptySeq DEF ParserInv
<1>3. CASE PipeStep \/ ErasePart \/ NvmEnd \/ StkIdle \/ PutReply
  <2>1. Same
    BY <1>3 DEF PipeStep, ErasePart, NvmEnd, StkIdle, PutReply, nvmVars, stkVars
  <2> QED BY <2>1 DEF ParserInv
<1>4. CASE WordPart \/ EepromPart
  <2>1. at' \in {at + 1, at + 2} /\ UNCHANGED <<addr, args, st, need, cmd>>
    BY <1>4 DEF WordPart, EepromPart, stkVars
  <2> QED BY <2>1 DEF ParserInv
<1>5. CASE TakeCommand
  <2>1. PICK b \in 0 .. 255 :
          /\ cmd' = b /\ args' = <<>> /\ need' = ArgLen(b) /\ UNCHANGED <<addr, at>>
          /\ st' = CASE b = ProgPage -> "progHeader"
                     [] b = ReadPage -> "readHeader"
                     [] ArgLen(b) = 0 -> "eop"
                     [] OTHER -> "args"
    BY <1>5 DEF TakeCommand, nvmVars
  <2>2. ArgLen(b) \in Nat /\ ArgLen(LoadAddress) = 2
    BY DEF ArgLen, GetParameter, LoadAddress, ProgPage, ReadPage
  <2>3. CASE b \in {ProgPage, ReadPage}
    BY <2>1, <2>3, EmptySeq DEF ParserInv, ProgPage, ReadPage, LoadAddress
  <2>4. CASE b \notin {ProgPage, ReadPage} /\ ArgLen(b) = 0
    <3>1. st' = "eop" /\ b # LoadAddress
      BY <2>1, <2>2, <2>4
    <3> QED BY <2>1, <3>1, EmptySeq DEF ParserInv
  <2>5. CASE b \notin {ProgPage, ReadPage} /\ ArgLen(b) # 0
    <3>1. st' = "args"
      BY <2>1, <2>5
    <3> QED BY <2>1, <2>2, <2>5, <3>1, EmptySeq DEF ParserInv
  <2> QED BY <2>3, <2>4, <2>5
<1>6. CASE TakeArg
  <2>1. PICK b \in 0 .. 255 :
          /\ st = "args" /\ args' = Append(args, b) /\ need' = need - 1
          /\ st' = (IF need = 1 THEN "eop" ELSE "args")
          /\ UNCHANGED <<addr, at, cmd>>
    BY <1>6 DEF TakeArg, nvmVars
  <2>2. args' \in Seq(0 .. 255) /\ Len(args') = Len(args) + 1 /\ Len(args) \in Nat
    BY <2>1, AppendProperties DEF ParserInv
  <2>3. ArgLen(LoadAddress) = 2
    BY DEF ArgLen, GetParameter, LoadAddress, ProgPage, ReadPage
  <2>4. need \in Nat \ {0} /\ Len(args) + need = ArgLen(cmd)
    BY <2>1 DEF ParserInv
  <2>5. CASE need = 1
    <3>1. st' = "eop" /\ Len(args') = ArgLen(cmd)
      BY <2>1, <2>2, <2>4, <2>5
    <3> QED BY <2>1, <2>2, <2>3, <3>1 DEF ParserInv
  <2>6. CASE need # 1
    <3>1. st' = "args" /\ need' \in Nat \ {0} /\ Len(args') + need' = ArgLen(cmd)
      BY <2>1, <2>2, <2>4, <2>6
    <3> QED BY <2>1, <2>2, <3>1 DEF ParserInv
  <2> QED BY <2>5, <2>6
<1>7. CASE TakeProgHeader \/ TakeReadHeader
  <2>1. PICK b \in 0 .. 255 :
          /\ st \in {"progHeader", "readHeader"} /\ args' = Append(args, b)
          /\ st' \in {st, "data", "eop"} /\ cmd' \in {cmd, EmitPage}
          /\ UNCHANGED <<addr, at>>
          /\ st' = "data" => cmd' = cmd
          /\ st' = st => cmd' = cmd
    BY <1>7 DEF TakeProgHeader, TakeReadHeader, nvmVars
  <2>2. args' \in Seq(0 .. 255)
    BY <2>1, AppendProperties DEF ParserInv
  <2> QED BY <2>1, <2>2 DEF ParserInv, ProgPage, ReadPage, LoadAddress, EmitPage
<1>8. CASE TakePayload
  <2>1. /\ st = "data" /\ UNCHANGED <<addr, at, args, need>>
        /\ (st' = "eop" /\ cmd' = FinalisePage) \/ (st' = st /\ cmd' = cmd)
    BY <1>8 DEF TakePayload, nvmVars
  <2> QED BY <2>1 DEF ParserInv, FinalisePage, LoadAddress
<1>9. CASE Refuse \/ Acknowledge \/ Emit
  <2>1. st' = "idle" /\ UNCHANGED <<addr, at, args>>
    BY <1>9 DEF Refuse, Acknowledge, Emit, Terminator, nvmVars
  <2> QED BY <2>1 DEF ParserInv
<1>10. CASE Finalise
  <2>1. st' = "idle" /\ at' = 0 /\ UNCHANGED <<addr, args>>
    BY <1>10 DEF Finalise, Terminator
  <2> QED BY <2>1 DEF ParserInv
<1>11. CASE SetAddress
  <2>1. /\ st = "eop" /\ cmd = LoadAddress /\ st' = "idle" /\ UNCHANGED <<at, args>>
        /\ addr' = args[1] + 256 * args[2]
    BY <1>11 DEF SetAddress, Terminator, nvmVars, LoadedAddress
  <2>2. Len(args) = 2 /\ args \in Seq(0 .. 255)
    BY <2>1 DEF ParserInv
  <2>3. args[1] \in 0 .. 255 /\ args[2] \in 0 .. 255
    <3>1. 1 \in 1 .. Len(args) /\ 2 \in 1 .. Len(args)
      BY <2>2
    <3>2. \A i \in 1 .. Len(args) : args[i] \in 0 .. 255
      BY <2>2, ElementOfSeq
    <3> QED BY <3>1, <3>2
  <2>4. addr' \in Nat
    <3>1. \A x, y \in 0 .. 255 : x + 256 * y \in Nat
      OBVIOUS
    <3> QED BY <2>1, <2>3, <3>1
  <2> QED BY <2>1, <2>4 DEF ParserInv
<1> QED BY <1>1, <1>2, <1>3, <1>4, <1>5, <1>6, <1>7, <1>8, <1>9, <1>10, <1>11
        DEF Next, Run, Loop, Parse, Write

LEMMA FlashStarts == Init => FlashInv
<1> SUFFICES ASSUME Init PROVE FlashInv
  OBVIOUS
<1>1. PICK old \in {Erased, 1} : flash = [a \in 0 .. FlashEnd - 1 |-> IF a < AppStart THEN 2 ELSE old]
  BY DEF Init
<1>2. \A c \in 0 .. AppStart - 1 : c \in 0 .. FlashEnd - 1 /\ c < AppStart
  BY NvmAssumption
<1> QED BY <1>1, <1>2 DEF Init, PipeInit, FlashInv, BootIntact

\* A cell of the BOOT section is on no page that holds a cell of the application.
LEMMA OtherPage ==
  ASSUME NEW a \in Nat, a >= AppStart, NEW c \in 0 .. AppStart - 1
  PROVE  Page(c) # Page(a)
<1>1. PICK k \in Nat : AppStart = k * NvmPage
  <2>1. AppStart \div NvmPage \in Nat /\ AppStart = (AppStart \div NvmPage) * NvmPage
    BY NvmAssumption
  <2> QED BY <2>1
<1>2. c \div NvmPage < k
  BY <1>1, NvmAssumption
<1>3. a \div NvmPage >= k
  BY <1>1, NvmAssumption
<1> QED BY <1>2, <1>3, NvmAssumption DEF Page

\* The cell an address above the BOOT section is mapped to is above it as well.
LEMMA MappedAbove ==
  ASSUME NEW a \in Nat, a >= AppStart
  PROVE  Mapped(a) \in Nat /\ Mapped(a) >= AppStart
<1>1. Window \in Nat \ {0} /\ AppStart \in Nat /\ AppStart <= Window
  BY NvmAssumption
<1>2. a % Window \in Nat
  BY <1>1
<1>3. CASE a < Window
  <2>1. a % Window = a
    BY <1>1, <1>3
  <2> QED BY <1>1, <1>3, <2>1 DEF Mapped
<1>4. CASE a >= Window
  BY <1>1, <1>2, <1>4 DEF Mapped
<1> QED BY <1>1, <1>3, <1>4

LEMMA FlashStep == ParserInv /\ FlashInv /\ [Next \/ HostNoise]_vars => FlashInv'
<1> SUFFICES ASSUME ParserInv, FlashInv, [Next \/ HostNoise]_vars PROVE FlashInv'
  OBVIOUS
<1>1. CASE Host \/ HostNoise \/ Boot \/ UNCHANGED vars
  <2>1. UNCHANGED <<cpu, ret, addr, flash>>
    BY <1>1 DEF Host, StartSession, HostSend, OutPacket, HostRead, InPacket, HostNext, HostNoise, Boot,
           device, nvmVars, stkVars, pipeVars, vars
  <2> QED BY <2>1 DEF FlashInv, BootIntact
<1>2. CASE OutsideReset \/ Exit
  <2>1. cpu' = "usb" /\ ret' = "loop" /\ UNCHANGED flash
    BY <1>2 DEF OutsideReset, Exit, AfterReset, PipeRestart
  <2> QED BY <2>1 DEF FlashInv, BootIntact
<1>3. CASE PipeStep \/ NvmEnd \/ EepromPart \/ PutReply \/ StkIdle
  <2>1. /\ cpu' \notin {"erase", "word"} \/ cpu' = cpu
        /\ ret' \in {"loop", "put", "flush"}
    BY <1>3 DEF FlashInv, TxByte, PipeStep, PollIdle, AfterPoll, PollDone, PollAck, CdcPoll, WaitRoom, Flush, NvmEnd,
           EepromPart, PutReply, StkIdle
  <2>2. UNCHANGED <<addr, flash>>
    BY <1>3 DEF PipeStep, NvmEnd, EepromPart, PutReply, StkIdle, nvmVars, stkVars
  <2> QED BY <2>1, <2>2 DEF FlashInv, BootIntact
<1>4. CASE TakeCommand \/ TakeArg \/ TakeProgHeader \/ TakePayload \/ TakeReadHeader
  <2>1. UNCHANGED <<cpu, ret, addr, flash>>
    BY <1>4 DEF TakeCommand, TakeArg, TakeProgHeader, TakePayload, TakeReadHeader, nvmVars
  <2> QED BY <2>1 DEF FlashInv, BootIntact
<1>5. CASE Refuse \/ Acknowledge \/ SetAddress \/ Emit
  <2>1. cpu' = "put" /\ UNCHANGED <<ret, flash>>
    BY <1>5 DEF Terminator, Refuse, Acknowledge, SetAddress, Emit, Answer, nvmVars
  <2> QED BY <2>1 DEF FlashInv, BootIntact
<1>6. CASE Finalise
  <2>1. UNCHANGED <<ret, addr, flash>> /\ (cpu' \in {"erase", "word"} => Writable(addr, size))
    BY <1>6 DEF Finalise, Terminator
  <2> QED BY <2>1 DEF FlashInv, BootIntact, Writable
<1>7. CASE ErasePart
  <2>1. /\ cpu = "erase" /\ cpu' = "word" /\ UNCHANGED <<ret, addr>> /\ addr \in Nat /\ addr >= AppStart
        /\ flash' = [c \in DOMAIN flash |-> IF Page(c) = Page(Mapped(addr)) THEN Erased ELSE flash[c]]
    BY <1>7 DEF ErasePart, ErasePage, stkVars, FlashInv, ParserInv
  <2>2. DOMAIN flash = 0 .. FlashEnd - 1
    BY DEF FlashInv
  <2>3. \A c \in 0 .. AppStart - 1 : c \in DOMAIN flash /\ flash'[c] = flash[c]
    <3> SUFFICES ASSUME NEW c \in 0 .. AppStart - 1 PROVE c \in DOMAIN flash /\ flash'[c] = flash[c]
      OBVIOUS
    <3>1. Page(c) # Page(Mapped(addr))
      BY <2>1, MappedAbove, OtherPage
    <3>2. c \in 0 .. FlashEnd - 1
      BY NvmAssumption
    <3> QED BY <2>1, <2>2, <3>1, <3>2
  <2> QED BY <2>1, <2>2, <2>3 DEF FlashInv, BootIntact
<1>8. CASE WordPart
  <2> DEFINE m == Mapped(addr)
  <2>1. cpu = "word" /\ UNCHANGED <<cpu, ret, addr>> /\ m + at \in Nat /\ m + at >= AppStart
    <3>1. cpu = "word" /\ UNCHANGED <<cpu, ret, addr>> /\ addr \in Nat /\ addr >= AppStart /\ at \in Nat
      BY <1>8 DEF WordPart, stkVars, FlashInv, ParserInv
    <3>2. m \in Nat /\ m >= AppStart
      BY <3>1, MappedAbove
    <3> QED BY <3>1, <3>2, NvmAssumption
  <2>5. PICK x, y : flash' = [flash EXCEPT ![m + at] = x, ![m + at + 1] = y]
    BY <1>8 DEF WordPart, StoreWord
  <2> HIDE DEF m
  <2>2. DOMAIN flash = 0 .. FlashEnd - 1
    BY DEF FlashInv
  <2>3. \A c \in 0 .. AppStart - 1 : c \in 0 .. FlashEnd - 1 /\ c # m + at /\ c # m + at + 1
    BY <2>1, NvmAssumption
  <2>4. DOMAIN flash' = 0 .. FlashEnd - 1 /\ flash' = [c \in 0 .. FlashEnd - 1 |-> flash'[c]]
        /\ \A c \in 0 .. AppStart - 1 : flash'[c] = flash[c]
    BY <2>2, <2>3, <2>5
  <2> QED BY <2>1, <2>4 DEF FlashInv, BootIntact
<1> QED BY <1>1, <1>2, <1>3, <1>4, <1>5, <1>6, <1>7, <1>8 DEF Next, Run, Loop, Parse, Write

\* Whatever packets come from a programmer and from any other host, and wherever a
\* reset falls, the BOOT section stays.
THEOREM BootCorrect == NoisySpec => []BootIntact
<1>1. Init => ParserInv /\ FlashInv
  BY ParserStarts, FlashStarts
<1>2. ParserInv /\ FlashInv /\ [Next \/ HostNoise]_vars => (ParserInv /\ FlashInv)'
  BY ParserStep, FlashStep
<1>3. FlashInv => BootIntact
  BY DEF FlashInv
<1> QED BY <1>1, <1>2, <1>3, PTL DEF NoisySpec
=============================================================================
