---------------------------- MODULE UploadProofs ----------------------------
(***************************************************************************)
(* Bootloader, for every script of a programmer that is not stopped in the *)
(* middle, every size of memory, page, packet and buffer, and every bound: *)
(* its types, the answers the programmer reads, and that what was answered *)
(* OK is in memory.                                                        *)
(***************************************************************************)
EXTENDS BootProofs

Cell == 0 .. 255

-----------------------------------------------------------------------------
(* Numbers.                                                                *)

LEMMA RangeOf == ASSUME NEW n \in Int, NEW x PROVE x \in 0 .. n <=> x \in Nat /\ x <= n
OBVIOUS

LastWord == 65535

LEMMA WordRange == ASSUME NEW x PROVE x \in Word <=> x \in Nat /\ x <= LastWord
<1>1. Word = 0 .. LastWord
  BY DEF Word, LastWord
<1>2. LastWord \in Int
  BY DEF LastWord
<1> QED BY <1>1, <1>2, RangeOf

LEMMA WordOf == ASSUME NEW p \in Cell, NEW q \in Cell PROVE p + 256 * q \in Word /\ p * 256 + q \in Word
<1>1. /\ p + 256 * q \in Nat /\ p + 256 * q <= LastWord
      /\ p * 256 + q \in Nat /\ p * 256 + q <= LastWord
  BY DEF Cell, LastWord
<1> QED BY <1>1, WordRange

\* The i-th of n cells at a, all below e, is a cell; it is neither of two others.
LEMMA InCells ==
  ASSUME NEW a \in Nat, NEW n \in Nat, NEW e \in Nat, a + n <= e, NEW i \in 1 .. n
  PROVE  a + i - 1 \in 0 .. e - 1 /\ a <= a + i - 1 /\ a + i - 1 < a + n
OBVIOUS

LEMMA OtherCell ==
  ASSUME NEW a \in Nat, NEW x \in Nat, NEW i \in Nat, NEW c, c = a + x
  PROVE  /\ a + i - 1 = c <=> i = x + 1
         /\ a + i - 1 = c + 1 <=> i = x + 2
OBVIOUS

-----------------------------------------------------------------------------
(* Sequences of cells.                                                     *)

LEMMA NoCells == <<>> \in Seq(Cell) /\ Len(<<>>) = 0
BY EmptySeq

LEMMA OneCell == ASSUME NEW b \in Cell PROVE <<b>> \in Seq(Cell) /\ Len(<<b>>) = 1 /\ <<b>>[1] = b
OBVIOUS

LEMMA CellsLength == ASSUME NEW s \in Seq(Cell) PROVE Len(s) \in Nat /\ (Len(s) = 0 <=> s = <<>>)
BY EmptySeq

LEMMA CellsJoin ==
  ASSUME NEW s \in Seq(Cell), NEW t \in Seq(Cell)
  PROVE  s \o t \in Seq(Cell) /\ Len(s \o t) = Len(s) + Len(t)
BY ConcatProperties

\* Where the values of the two are.
LEMMA CellsJoined ==
  ASSUME NEW s \in Seq(Cell), NEW t \in Seq(Cell)
  PROVE  /\ \A i \in 1 .. Len(s) : (s \o t)[i] = s[i]
         /\ \A i \in 1 .. Len(t) : (s \o t)[Len(s) + i] = t[i]
<1>1. \A i \in 1 .. Len(s) + Len(t) : (s \o t)[i] = IF i <= Len(s) THEN s[i] ELSE t[i - Len(s)]
  BY ConcatProperties
<1>2. Len(s) \in Nat /\ Len(t) \in Nat
  BY CellsLength
<1>3. \A i \in 1 .. Len(s) : i \in 1 .. Len(s) + Len(t) /\ i <= Len(s)
  BY <1>2
<1>4. \A i \in 1 .. Len(t) : /\ Len(s) + i \in 1 .. Len(s) + Len(t) /\ ~(Len(s) + i <= Len(s))
                            /\ Len(s) + i - Len(s) = i
  BY <1>2
<1> QED BY <1>1, <1>3, <1>4

LEMMA CellsTriple ==
  ASSUME NEW s \in Seq(Cell), NEW t \in Seq(Cell), NEW u \in Seq(Cell)
  PROVE  (s \o t) \o u = s \o (t \o u)
BY ConcatAssociative

LEMMA CellsPart ==
  ASSUME NEW s \in Seq(Cell), NEW m \in Nat \ {0}, NEW n \in 0 .. Len(s)
  PROVE  /\ SubSeq(s, m, n) \in Seq(Cell)
         /\ Len(SubSeq(s, m, n)) = IF m <= n THEN n - m + 1 ELSE 0
         /\ \A i \in 1 .. n - m + 1 : SubSeq(s, m, n)[i] = s[m + i - 1]
<1>1. Len(s) \in Nat /\ m \in Int /\ n \in Int
  BY LenProperties
<1>2. \A i \in m .. n : s[i] \in Cell
  BY <1>1, ElementOfSeq
<1> HIDE DEF Cell
<1> QED BY <1>1, <1>2, SubSeqProperties

\* The first cells of a function or of a sequence.
LEMMA CellsOf ==
  ASSUME NEW f, NEW n \in Nat, \A i \in 1 .. n : f[i] \in Cell
  PROVE  /\ SubSeq(f, 1, n) \in Seq(Cell) /\ Len(SubSeq(f, 1, n)) = n
         /\ \A i \in 1 .. n : SubSeq(f, 1, n)[i] = f[i]
<1>1. 1 \in Int /\ n \in Int
  OBVIOUS
<1>2. /\ SubSeq(f, 1, n) \in Seq(Cell)
      /\ Len(SubSeq(f, 1, n)) = IF 1 <= n THEN n - 1 + 1 ELSE 0
      /\ \A i \in 1 .. n - 1 + 1 : SubSeq(f, 1, n)[i] = f[1 + i - 1]
  <2> HIDE DEF Cell
  <2> QED BY <1>1, SubSeqProperties
<1>3. (IF 1 <= n THEN n - 1 + 1 ELSE 0) = n /\ n - 1 + 1 = n /\ \A i \in 1 .. n : 1 + i - 1 = i
  OBVIOUS
<1> QED BY <1>2, <1>3

LEMMA JoinedEmpty ==
  ASSUME NEW s \in Seq(Cell), NEW t \in Seq(Cell)
  PROVE  s \o t = <<>> <=> s = <<>> /\ t = <<>>
BY ConcatEqualIffEmpty

\* Two sequences that begin with one value each.
LEMMA SameFirst ==
  ASSUME NEW s \in Seq(Cell), NEW t \in Seq(Cell), NEW b \in Cell, NEW c \in Cell,
         <<b>> \o s = <<c>> \o t
  PROVE  b = c /\ s = t
<1>1. /\ <<b>> \in Seq(Cell) /\ Len(<<b>>) = 1 /\ <<b>>[1] = b
      /\ <<c>> \in Seq(Cell) /\ Len(<<c>>) = 1 /\ <<c>>[1] = c
  BY OneCell
<1>2. Len(s) \in Nat /\ Len(t) \in Nat
  BY LenProperties
<1>3. (<<b>> \o s)[1] = b /\ (<<c>> \o t)[1] = c
  <2>1. \A i \in 1 .. 1 + Len(s) : (<<b>> \o s)[i] = IF i <= 1 THEN <<b>>[i] ELSE s[i - 1]
    BY <1>1, ConcatProperties
  <2>2. \A i \in 1 .. 1 + Len(t) : (<<c>> \o t)[i] = IF i <= 1 THEN <<c>>[i] ELSE t[i - 1]
    BY <1>1, ConcatProperties
  <2>3. 1 \in 1 .. 1 + Len(s) /\ 1 \in 1 .. 1 + Len(t)
    BY <1>2
  <2> QED BY <1>1, <2>1, <2>2, <2>3
<1>4. b = c
  BY <1>3
<1>5. <<b>> \o s = <<b>> \o t
  BY <1>4
<1>6. \A x, y, z \in Seq(Cell) : x \o y = x \o z => y = z
  BY ConcatSimplifications
<1> QED BY <1>1, <1>4, <1>5, <1>6

\* The first value of a stretch, and the rest.
LEMMA FirstOfPart ==
  ASSUME NEW s \in Seq(Cell), NEW m \in 1 .. Len(s), NEW n \in m .. Len(s)
  PROVE  SubSeq(s, m, n) = <<s[m]>> \o SubSeq(s, m + 1, n) /\ s[m] \in Cell
BY SubSeqRecursiveFirst, ElementOfSeq

-----------------------------------------------------------------------------
(* The pipe.                                                               *)

\* What the host has sent or has to send, and the parser has not read.
Unread == IF outTrn THEN rxBuf ELSE SubSeq(rxBuf, rxIdx + 1, rxCnt)
Incoming == Unread \o toSend

\* What the parser has answered, and the host has not read.
Offered == IF inNak THEN <<>> ELSE InBytes
Staged == SubSeq(txBuf, 1, txLen)
Outgoing == Offered \o (Staged \o reply)

PipeShape ==
  /\ rxBuf \in Seq(Cell) /\ Len(rxBuf) <= BlPacketSize
  /\ rxCnt \in 0 .. BlPacketSize /\ rxIdx \in 0 .. rxCnt
  /\ txBuf \in [1 .. BlPacketSize -> Cell]
  /\ txLen \in 0 .. BlPacketSize /\ inCnt \in 0 .. BlPacketSize
  /\ reply \in Seq(Cell) /\ toSend \in Seq(Cell) /\ got \in Seq(Cell)
  /\ trnIrq \in BOOLEAN /\ outNak \in BOOLEAN /\ outTrn \in BOOLEAN
  /\ inFlight \in BOOLEAN /\ inNak \in BOOLEAN /\ inTrn \in BOOLEAN /\ leaving \in BOOLEAN
  /\ ret \in {"loop", "put", "flush"}
  /\ cpu \in {"usb", "ack", "cdc", "stk", "put", "flush", "halt", "erase", "word", "eeprom"}

Writing == cpu \in {"erase", "word", "eeprom"}

\* A packet from the host is looked at once and its buffer handed back when all
\* of it is read.
RxInv ==
  /\ outTrn => outNak /\ rxCnt = 0
  /\ ~outNak => rxCnt = 0
  /\ ~outTrn /\ outNak => rxCnt = Len(rxBuf)

\* A packet is offered while s_tx_in_flight says so; an answer is put together
\* while none is, except in the wait for room.
TxInv ==
  /\ inTrn => inFlight /\ inNak
  /\ ~inNak => inFlight /\ inCnt > 0
  /\ reply # <<>> /\ ret # "put" => inNak

\* Where the processor can be while there is an answer to put, and on its way out.
CpuInv ==
  /\ cpu = "put" \/ Writing => reply # <<>>
  /\ Writing => ret = "loop"
  /\ reply # <<>> => cpu = "put" \/ Writing \/ ret = "put"
  /\ ret = "put" => reply # <<>> /\ cpu \in {"put", "usb", "ack", "cdc"}
  /\ ret = "flush" => leaving /\ reply = <<>> /\ cpu \in {"usb", "ack", "cdc", "flush"}
  /\ cpu \in {"flush", "halt"} => leaving /\ reply = <<>>
  /\ leaving /\ reply = <<>> => cpu \in {"flush", "halt"} \/ ret = "flush"

PipeInv == PipeShape /\ RxInv /\ TxInv /\ CpuInv

LEMMA PipeParts ==
  ASSUME PipeShape, RxInv
  PROVE  /\ Unread \in Seq(Cell) /\ Incoming \in Seq(Cell)
         /\ Offered \in Seq(Cell) /\ Staged \in Seq(Cell) /\ Outgoing \in Seq(Cell)
         /\ InBytes \in Seq(Cell) /\ Len(InBytes) = inCnt /\ Len(Staged) = txLen
<1>0. txLen \in Nat /\ inCnt \in Nat /\ rxIdx \in Nat /\ rxCnt \in Nat
  BY BlPipeAssumption DEF PipeShape
<1>1. \A n \in 0 .. BlPacketSize : SubSeq(txBuf, 1, n) \in Seq(Cell) /\ Len(SubSeq(txBuf, 1, n)) = n
  <2> SUFFICES ASSUME NEW n \in 0 .. BlPacketSize
               PROVE  SubSeq(txBuf, 1, n) \in Seq(Cell) /\ Len(SubSeq(txBuf, 1, n)) = n
    OBVIOUS
  <2>1. n \in Nat /\ \A i \in 1 .. n : txBuf[i] \in Cell
    BY BlPipeAssumption DEF PipeShape
  <2> QED BY <2>1, CellsOf
<1>2. Staged \in Seq(Cell) /\ Len(Staged) = txLen /\ InBytes \in Seq(Cell) /\ Len(InBytes) = inCnt
  BY <1>1 DEF PipeShape, Staged, InBytes
<1>3. Unread \in Seq(Cell)
  <2>1. CASE ~outTrn /\ rxCnt # 0
    <3>1. rxCnt \in 0 .. Len(rxBuf) /\ rxIdx + 1 \in Nat \ {0}
      BY <1>0, <2>1 DEF RxInv, PipeShape
    <3> QED BY <2>1, <3>1, CellsPart DEF PipeShape, Unread
  <2>2. CASE ~outTrn /\ rxCnt = 0
    <3>1. rxIdx = 0 /\ SubSeq(rxBuf, 1, 0) = <<>>
      BY <1>0, <2>2, SubSeqEmpty DEF PipeShape
    <3> QED BY <2>2, <3>1, NoCells DEF Unread
  <2> QED BY <2>1, <2>2 DEF PipeShape, Unread
<1>4. Offered \in Seq(Cell)
  BY <1>2, NoCells DEF Offered
<1>5. Staged \o reply \in Seq(Cell) /\ Incoming \in Seq(Cell)
  BY <1>2, <1>3, CellsJoin DEF PipeShape, Incoming
<1> QED BY <1>2, <1>3, <1>4, <1>5, CellsJoin DEF Outgoing

\* Nothing is on its way out when no packet is offered, staged or left to put.
LEMMA NothingOut == PipeInv => (Outgoing = <<>> <=> inNak /\ txLen = 0 /\ reply = <<>>)
<1> SUFFICES ASSUME PipeInv PROVE Outgoing = <<>> <=> inNak /\ txLen = 0 /\ reply = <<>>
  OBVIOUS
<1>1. /\ Offered \in Seq(Cell) /\ Staged \in Seq(Cell) /\ reply \in Seq(Cell)
      /\ InBytes \in Seq(Cell) /\ Len(InBytes) = inCnt /\ Len(Staged) = txLen
  BY PipeParts DEF PipeInv, PipeShape
<1>2. Staged = <<>> <=> txLen = 0
  BY <1>1, CellsLength
<1>3. Offered = <<>> <=> inNak
  <2>1. ~inNak => inCnt > 0
    BY DEF PipeInv, TxInv
  <2>2. ~inNak => InBytes # <<>>
    BY <1>1, <2>1, NoCells
  <2> QED BY <2>2 DEF Offered
<1>4. Staged \o reply \in Seq(Cell)
  BY <1>1, CellsJoin
<1>5. Outgoing = <<>> <=> Offered = <<>> /\ Staged = <<>> /\ reply = <<>>
  BY <1>1, <1>4, JoinedEmpty DEF Outgoing
<1> QED BY <1>2, <1>3, <1>5

\* Handing the staged bytes over to the endpoint.
LEMMA ArmKeeps ==
  ASSUME PipeInv, inNak, Arm, UNCHANGED reply
  PROVE  Outgoing' = Outgoing
<1>1. Offered' = Staged
  BY DEF Arm, Offered, InBytes, Staged
<1>2. Staged' = <<>>
  <2>1. SubSeq(txBuf, 1, 0) = <<>>
    BY SubSeqEmpty
  <2> QED BY <2>1 DEF Arm, Staged
<1>3. Staged \in Seq(Cell) /\ reply \in Seq(Cell) /\ Staged \o reply \in Seq(Cell)
  BY PipeParts, CellsJoin DEF PipeInv, PipeShape
<1>4. Offered = <<>>
  BY DEF Offered
<1>5. Staged \o (<<>> \o reply) = Staged \o reply /\ <<>> \o (Staged \o reply) = Staged \o reply
  BY <1>3, ConcatEmptySeq
<1> QED BY <1>1, <1>2, <1>4, <1>5 DEF Outgoing

\* The polling loop and the two waits move bytes from one place to the next.
LEMMA PipeStepKeeps ==
  ASSUME PipeInv, PipeStep, UNCHANGED <<toSend, got>>
  PROVE  PipeInv' /\ Unread' = Unread /\ Outgoing' = Outgoing /\ ~Writing /\ ~Writing'
<1> USE DEF rxVars, txVars
<1>0. UNCHANGED <<reply, leaving, toSend, got>>
  BY DEF PipeStep, stkVars
<1>1. CASE PollIdle \/ PollAck \/ WaitRoom
  <2>1. /\ UNCHANGED <<rxBuf, outNak, outTrn, rxCnt, rxIdx, txBuf, txLen, inFlight, inCnt, inNak, inTrn>>
        /\ trnIrq' \in {trnIrq, FALSE}
    BY <1>1 DEF PollIdle, PollAck, WaitRoom
  <2>2. PipeShape'
    BY <1>0, <1>1, <2>1 DEF PipeInv, PipeShape, PollIdle, PollAck, WaitRoom, AfterPoll
  <2>3. RxInv' /\ TxInv' /\ CpuInv' /\ ~Writing /\ ~Writing'
    <3>1. RxInv'
      BY <2>1 DEF PipeInv, RxInv
    <3>2. TxInv'
      BY <1>0, <1>1, <2>1 DEF PipeInv, TxInv, CpuInv, PollIdle, PollAck, WaitRoom
    <3>3. CpuInv' /\ ~Writing /\ ~Writing'
      BY <1>0, <1>1 DEF PipeInv, CpuInv, PipeShape, Writing, PollIdle, PollAck, WaitRoom, AfterPoll
    <3> QED BY <3>1, <3>2, <3>3
  <2>4. Unread' = Unread
    BY <2>1 DEF Unread
  <2>5. Outgoing' = Outgoing
    BY <1>0, <2>1 DEF Outgoing, Offered, Staged, InBytes
  <2> QED BY <2>2, <2>3, <2>4, <2>5 DEF PipeInv
<1>2. CASE PollDone
  <2>1. /\ UNCHANGED <<ret, trnIrq, rxBuf, outNak, txBuf, txLen, inCnt, inNak>>
        /\ cpu = "usb" /\ cpu' = "ack" /\ outTrn' = FALSE /\ inTrn' = FALSE
        /\ rxCnt' = (IF outTrn THEN Len(rxBuf) ELSE rxCnt)
        /\ rxIdx' = (IF outTrn THEN 0 ELSE rxIdx)
        /\ inFlight' = (inFlight /\ ~inTrn)
    BY <1>2 DEF PollDone
  <2>2. PipeShape'
    <3>1. rxCnt' \in 0 .. BlPacketSize /\ rxIdx' \in 0 .. rxCnt'
      <4>1. Len(rxBuf) \in 0 .. BlPacketSize /\ 0 \in 0 .. Len(rxBuf)
        BY CellsLength, BlPipeAssumption DEF PipeInv, PipeShape
      <4> QED BY <2>1, <4>1 DEF PipeInv, PipeShape
    <3>2. inFlight' \in BOOLEAN
      BY <2>1
    <3> QED BY <1>0, <2>1, <3>1, <3>2 DEF PipeInv, PipeShape
  <2>3. RxInv' /\ TxInv'
    BY <1>0, <2>1 DEF PipeInv, RxInv, TxInv
  <2>4. CpuInv' /\ ~Writing /\ ~Writing'
    BY <1>0, <2>1 DEF PipeInv, CpuInv, PipeShape, Writing
  <2>5. Unread' = Unread
    <3>1. CASE outTrn
      <4>1. SubSeq(rxBuf, 1, Len(rxBuf)) = rxBuf
        BY SubSeqFull DEF PipeInv, PipeShape
      <4> QED BY <2>1, <3>1, <4>1 DEF Unread
    <3> QED BY <2>1, <3>1 DEF Unread
  <2>6. Outgoing' = Outgoing
    BY <1>0, <2>1 DEF Outgoing, Offered, Staged, InBytes
  <2> QED BY <2>2, <2>3, <2>4, <2>5, <2>6 DEF PipeInv
<1>3. ASSUME Arm, txLen > 0, ~inFlight, reply = <<>> \/ ret' = "put"
      PROVE  TxInv' /\ Outgoing' = Outgoing /\ inCnt' \in 0 .. BlPacketSize /\ txLen' \in 0 .. BlPacketSize
             /\ inNak' \in BOOLEAN /\ inFlight' \in BOOLEAN /\ UNCHANGED <<txBuf, inTrn>>
  <2>1. inNak /\ ~inTrn
    BY <1>3 DEF PipeInv, TxInv, PipeShape
  <2>2. Outgoing' = Outgoing
    BY <1>0, <1>3, <2>1, ArmKeeps
  <2>3. txLen \in 0 .. BlPacketSize /\ 0 \in 0 .. BlPacketSize
    BY BlPipeAssumption DEF PipeInv, PipeShape
  <2>4. TxInv'
    BY <1>0, <1>3, <2>1 DEF Arm, TxInv
  <2> QED BY <1>3, <2>2, <2>3, <2>4 DEF Arm
<1>4. CASE CdcPoll
  <2>1. /\ UNCHANGED <<ret, trnIrq, rxBuf, outTrn>>
        /\ cpu = "cdc" /\ cpu' = (IF ret = "loop" THEN "stk" ELSE "usb")
        /\ IF RxDone THEN rxCnt' = 0 /\ rxIdx' = 0 /\ outNak' = FALSE
                     ELSE UNCHANGED <<rxCnt, rxIdx, outNak>>
        /\ IF ~inFlight /\ txLen > 0 /\ inNak THEN Arm ELSE UNCHANGED txVars
    BY <1>4 DEF CdcPoll, Pump
  <2>2. CpuInv' /\ ~Writing /\ ~Writing'
    BY <1>0, <2>1 DEF PipeInv, CpuInv, PipeShape, Writing
  <2>3. reply = <<>> \/ ret = "put"
    BY <2>1 DEF PipeInv, CpuInv, Writing
  <2>4. TxInv' /\ Outgoing' = Outgoing /\ inCnt' \in 0 .. BlPacketSize /\ txLen' \in 0 .. BlPacketSize
        /\ inNak' \in BOOLEAN /\ inFlight' \in BOOLEAN /\ UNCHANGED <<txBuf, inTrn>>
    <3>1. CASE ~inFlight /\ txLen > 0 /\ inNak
      BY <1>3, <2>1, <2>3, <3>1
    <3>2. CASE ~(~inFlight /\ txLen > 0 /\ inNak)
      <4>1. UNCHANGED txVars
        BY <2>1, <3>2
      <4> QED BY <1>0, <2>1, <4>1 DEF PipeInv, PipeShape, TxInv, Outgoing, Offered, Staged, InBytes
    <3> QED BY <3>1, <3>2
  <2>5. RxInv' /\ Unread' = Unread /\ rxCnt' \in 0 .. BlPacketSize /\ rxIdx' \in 0 .. rxCnt' /\ outNak' \in BOOLEAN
    <3>1. CASE RxDone
      <4>1. rxCnt \in Nat /\ rxCnt # 0 /\ rxIdx = rxCnt /\ ~outTrn /\ ~outTrn'
        BY <2>1, <3>1, BlPipeAssumption DEF RxDone, PipeInv, PipeShape, RxInv
      <4>2. SubSeq(rxBuf, rxIdx + 1, rxCnt) = <<>> /\ SubSeq(rxBuf, 0 + 1, 0) = <<>>
        BY <4>1, SubSeqEmpty
      <4>3. Unread = <<>> /\ Unread' = <<>>
        BY <2>1, <3>1, <4>1, <4>2 DEF Unread
      <4>4. rxCnt' = 0 /\ rxIdx' = 0 /\ outNak' = FALSE
        BY <2>1, <3>1
      <4>5. RxInv' /\ 0 \in 0 .. BlPacketSize /\ 0 \in 0 .. 0
        BY <4>1, <4>4, BlPipeAssumption DEF RxInv
      <4> QED BY <4>3, <4>4, <4>5
    <3>2. CASE ~RxDone
      BY <2>1, <3>2 DEF PipeInv, PipeShape, RxInv, Unread
    <3> QED BY <3>1, <3>2
  <2> QED BY <1>0, <2>1, <2>2, <2>4, <2>5 DEF PipeInv, PipeShape
<1>5. CASE Flush
  <2>1. UNCHANGED <<trnIrq, rxBuf, outNak, outTrn, rxCnt, rxIdx>> /\ cpu = "flush"
    BY <1>5 DEF Flush
  <2>2. Unread' = Unread /\ RxInv'
    BY <2>1 DEF Unread, PipeInv, RxInv
  <2>3. leaving /\ reply = <<>>
    BY <2>1 DEF PipeInv, CpuInv
  <2>4. CASE inFlight
    <3>1. cpu' = "cdc" /\ ret' = "flush" /\ UNCHANGED <<txBuf, txLen, inFlight, inCnt, inNak, inTrn>>
      BY <1>5, <2>4 DEF Flush
    <3> QED BY <1>0, <2>1, <2>2, <2>3, <3>1 DEF PipeInv, PipeShape, TxInv, CpuInv, Writing, Outgoing, Offered, Staged, InBytes
  <2>5. CASE ~inFlight
    <3>1. cpu' = "halt" /\ ret' = "loop" /\ IF txLen > 0 THEN Arm ELSE UNCHANGED txVars
      BY <1>5, <2>5 DEF Flush
    <3>2. CpuInv' /\ ~Writing /\ ~Writing'
      BY <1>0, <2>1, <2>3, <3>1 DEF CpuInv, Writing
    <3>3. TxInv' /\ Outgoing' = Outgoing /\ inCnt' \in 0 .. BlPacketSize /\ txLen' \in 0 .. BlPacketSize
          /\ inNak' \in BOOLEAN /\ inFlight' \in BOOLEAN /\ UNCHANGED <<txBuf, inTrn>>
      <4>1. CASE txLen > 0
        <5>1. Arm
          BY <3>1, <4>1
        <5> QED BY <1>3, <2>3, <2>5, <4>1, <5>1
      <4>2. CASE ~(txLen > 0)
        <5>1. UNCHANGED txVars
          BY <3>1, <4>2
        <5> QED BY <1>0, <2>3, <5>1 DEF PipeInv, PipeShape, TxInv, Outgoing, Offered, Staged, InBytes
      <4> QED BY <4>1, <4>2
    <3> QED BY <1>0, <2>1, <2>2, <3>1, <3>2, <3>3 DEF PipeInv, PipeShape
  <2> QED BY <2>4, <2>5
<1> QED BY <1>1, <1>2, <1>4, <1>5 DEF PipeStep

\* A byte of the answer is put behind what is staged; the endpoint does not hold
\* the buffer then.
LEMMA PutKeeps ==
  ASSUME PipeInv, PutReply, UNCHANGED <<toSend, got>>
  PROVE  PipeInv' /\ Unread' = Unread /\ Outgoing' = Outgoing /\ ~Writing /\ ~Writing'
<1> DEFINE b == Head(reply)
<1>1. /\ cpu = "put" /\ ~(txLen >= BlPacketSize) /\ ~(ret = "put" /\ inFlight)
      /\ txBuf' = [txBuf EXCEPT ![txLen + 1] = b] /\ txLen' = txLen + 1 /\ ret' = "loop"
      /\ reply' = Tail(reply)
      /\ cpu' = (IF Len(reply) > 1 THEN "put" ELSE IF leaving THEN "flush" ELSE "stk")
      /\ UNCHANGED <<trnIrq, rxBuf, outNak, outTrn, rxCnt, rxIdx, inFlight, inCnt, inNak, inTrn, leaving, toSend, got>>
  BY DEF PutReply, TxByte, MustWait, rxVars
<1>2. reply \in Seq(Cell) /\ reply # <<>>
  BY <1>1 DEF PipeInv, PipeShape, CpuInv
<1>3. b \in Cell /\ Tail(reply) \in Seq(Cell) /\ Len(Tail(reply)) = Len(reply) - 1 /\ Len(reply) \in Nat \ {0}
  BY <1>2, HeadTailProperties, EmptySeq
<1>4. reply = <<b>> \o Tail(reply)
  <2>1. Len(reply) \in 1 .. Len(reply) /\ 1 \in 1 .. Len(reply)
    BY <1>3
  <2>2. SubSeq(reply, 1, Len(reply)) = <<reply[1]>> \o SubSeq(reply, 1 + 1, Len(reply))
    BY <1>2, <2>1, FirstOfPart
  <2>3. SubSeq(reply, 1, Len(reply)) = reply /\ Tail(reply) = SubSeq(reply, 2, Len(reply))
    BY <1>2, SubSeqFull, TailIsSubSeq
  <2>4. b = reply[1]
    BY <1>2
  <2> QED BY <2>2, <2>3, <2>4
<1>5. Tail(reply) = <<>> <=> Len(reply) = 1
  <2>1. Len(Tail(reply)) = 0 <=> Tail(reply) = <<>>
    BY <1>3, CellsLength
  <2> QED BY <1>3, <2>1
<1>6. inNak
  BY <1>1, <1>2 DEF PipeInv, TxInv, PipeShape
<1> HIDE DEF b
<1>7. txLen \in Nat /\ txLen + 1 \in 1 .. BlPacketSize /\ txBuf \in [1 .. BlPacketSize -> Cell]
  BY <1>1, BlPipeAssumption DEF PipeInv, PipeShape
<1>8. txBuf' \in [1 .. BlPacketSize -> Cell] /\ txBuf'[txLen + 1] = b
      /\ \A i \in 1 .. txLen : txBuf'[i] = txBuf[i]
  <2>1. \A i \in 1 .. txLen : i \in 1 .. BlPacketSize /\ i # txLen + 1
    BY <1>7, BlPipeAssumption
  <2>2. txBuf' = [txBuf EXCEPT ![txLen + 1] = b]
    BY <1>1
  <2> HIDE DEF Cell
  <2> QED BY <1>3, <1>7, <2>1, <2>2
<1>9. Staged' = Staged \o <<b>>
  <2>1. SubSeq(txBuf', 1, txLen + 1) \in Seq(Cell) /\ Len(SubSeq(txBuf', 1, txLen + 1)) = txLen + 1
        /\ \A i \in 1 .. txLen + 1 : SubSeq(txBuf', 1, txLen + 1)[i] = txBuf'[i]
    <3>0. \A i \in 1 .. txLen + 1 : i \in 1 .. BlPacketSize
      BY <1>7, BlPipeAssumption
    <3>1. txLen + 1 \in Nat /\ \A i \in 1 .. txLen + 1 : txBuf'[i] \in Cell
      BY <1>7, <1>8, <3>0
    <3> QED BY <3>1, CellsOf
  <2>2. Staged \in Seq(Cell) /\ Len(Staged) = txLen /\ \A i \in 1 .. txLen : Staged[i] = txBuf[i]
    <3>0. \A i \in 1 .. txLen : i \in 1 .. BlPacketSize
      BY <1>7, BlPipeAssumption
    <3>1. txLen \in Nat /\ \A i \in 1 .. txLen : txBuf[i] \in Cell
      BY <1>7, <3>0
    <3> QED BY <3>1, CellsOf DEF Staged
  <2>3. /\ Staged \o <<b>> \in Seq(Cell) /\ Len(Staged \o <<b>>) = txLen + 1
        /\ \A i \in 1 .. txLen + 1 : (Staged \o <<b>>)[i] = IF i <= txLen THEN Staged[i] ELSE <<b>>[i - txLen]
    BY <1>3, <2>2, OneCell, ConcatProperties
  <2>4. \A i \in 1 .. txLen + 1 : SubSeq(txBuf', 1, txLen + 1)[i] = (Staged \o <<b>>)[i]
    <3> SUFFICES ASSUME NEW i \in 1 .. txLen + 1
                 PROVE  SubSeq(txBuf', 1, txLen + 1)[i] = (Staged \o <<b>>)[i]
      OBVIOUS
    <3>1. CASE i <= txLen
      <4>1. i \in 1 .. txLen
        BY <1>7, <3>1
      <4> QED BY <1>8, <2>1, <2>2, <2>3, <3>1, <4>1
    <3>2. CASE i = txLen + 1
      <4>1. ~(i <= txLen) /\ i - txLen = 1
        BY <1>7, <3>2
      <4>2. <<b>>[1] = b
        OBVIOUS
      <4>3. (Staged \o <<b>>)[i] = <<b>>[i - txLen]
        BY <2>3, <4>1
      <4>4. SubSeq(txBuf', 1, txLen + 1)[i] = txBuf'[i]
        BY <2>1
      <4> QED BY <1>8, <3>2, <4>1, <4>2, <4>3, <4>4
    <3>3. txLen \in Nat /\ i \in 1 .. txLen + 1
      BY <1>7
    <3>4. i <= txLen \/ i = txLen + 1
      BY <3>3
    <3> QED BY <3>1, <3>2, <3>4
  <2>5. SubSeq(txBuf', 1, txLen + 1) = Staged \o <<b>>
    BY <2>1, <2>3, <2>4, SeqEqual
  <2> QED BY <1>1, <2>5 DEF Staged
<1>10. Outgoing' = Outgoing
  <2>0. Staged \in Seq(Cell) /\ <<b>> \in Seq(Cell) /\ Tail(reply) \in Seq(Cell)
    BY <1>3, OneCell, PipeParts DEF PipeInv
  <2>1. (Staged \o <<b>>) \o Tail(reply) = Staged \o (<<b>> \o Tail(reply))
    BY <2>0, CellsTriple, Zenon
  <2>2. Offered' = Offered
    BY <1>1, <1>6 DEF Offered
  <2> QED BY <1>1, <1>4, <1>9, <2>1, <2>2 DEF Outgoing
<1>11. PipeShape'
  <2>1. cpu' \in {"put", "flush", "stk"} /\ txLen' \in 0 .. BlPacketSize
    BY <1>1, <1>7
  <2> QED BY <1>1, <1>3, <1>8, <2>1 DEF PipeInv, PipeShape
<1>12. RxInv' /\ TxInv' /\ Unread' = Unread
  BY <1>1, <1>6 DEF PipeInv, RxInv, TxInv, Unread
<1>13. CpuInv' /\ ~Writing /\ ~Writing'
  <2>1. Len(reply) > 1 <=> Tail(reply) # <<>>
    <3>1. PICK n : n = Len(reply)
      OBVIOUS
    <3>2. n > 1 <=> n # 1
      BY <1>3, <3>1
    <3> QED BY <1>5, <3>1, <3>2, Zenon
  <2>2. cpu' = (IF Tail(reply) # <<>> THEN "put" ELSE IF leaving THEN "flush" ELSE "stk")
    BY <1>1, <2>1
  <2>3. ret' = "loop" /\ reply' = Tail(reply) /\ leaving' = leaving /\ cpu = "put"
    BY <1>1
  <2> QED BY <2>2, <2>3 DEF CpuInv, Writing
<1> QED BY <1>10, <1>11, <1>12, <1>13 DEF PipeInv

\* The host fills an empty buffer.
LEMMA SendKeeps ==
  ASSUME PipeInv, HostSend, UNCHANGED <<reply, leaving, txLen, txBuf>>
  PROVE  PipeInv' /\ Incoming' = Incoming /\ Outgoing' = Outgoing
<1> DEFINE n == IF Len(toSend) < BlPacketSize THEN Len(toSend) ELSE BlPacketSize
           l == Len(toSend)
<1>1. /\ ~outNak /\ toSend # <<>> /\ rxBuf' = SubSeq(toSend, 1, n) /\ toSend' = SubSeq(toSend, n + 1, Len(toSend))
      /\ outNak' = TRUE /\ outTrn' = TRUE /\ trnIrq' = TRUE
      /\ UNCHANGED <<cpu, ret, rxCnt, rxIdx, txBuf, txLen, inFlight, inCnt, inNak, inTrn, got, reply, leaving>>
  BY DEF HostSend, OutPacket, txVars
<1>2. toSend \in Seq(Cell) /\ l \in Nat \ {0}
  BY <1>1, EmptySeq DEF PipeInv, PipeShape
<1>3. n \in 1 .. l /\ n <= BlPacketSize /\ n \in 0 .. l /\ l \in n .. l /\ l \in 0 .. l /\ n + 1 \in Nat \ {0} /\ 1 \in 1 .. l + 1
  BY <1>2, BlPipeAssumption
<1> HIDE DEF n
<1>4. SubSeq(toSend, 1, n) \o SubSeq(toSend, n + 1, l) = SubSeq(toSend, 1, l)
  <2>1. 1 \in 1 .. Len(toSend) + 1 /\ n \in 1 - 1 .. Len(toSend) /\ l \in n .. Len(toSend)
    BY <1>2, <1>3
  <2> QED BY <1>2, <2>1, ConcatAdjacentSubSeq
<1>5. SubSeq(toSend, 1, l) = toSend
  BY <1>2, SubSeqFull
<1>6. /\ SubSeq(toSend, 1, n) \in Seq(Cell) /\ Len(SubSeq(toSend, 1, n)) = n
      /\ SubSeq(toSend, n + 1, l) \in Seq(Cell)
  <2>1. /\ SubSeq(toSend, 1, n) \in Seq(Cell) /\ SubSeq(toSend, n + 1, l) \in Seq(Cell)
        /\ Len(SubSeq(toSend, 1, n)) = IF 1 <= n THEN n - 1 + 1 ELSE 0
    BY <1>2, <1>3, CellsPart
  <2> QED BY <1>3, <2>1
<1>7. ~outTrn /\ rxCnt = 0 /\ rxIdx = 0
  BY <1>1, BlPipeAssumption DEF PipeInv, PipeShape, RxInv
<1>8. Unread = <<>>
  <2>1. SubSeq(rxBuf, 0 + 1, 0) = <<>>
    BY SubSeqEmpty
  <2> QED BY <1>7, <2>1 DEF Unread
<1>9. Incoming = toSend
  BY <1>2, <1>8, ConcatEmptySeq DEF Incoming
<1>10. Incoming' = toSend
  BY <1>1, <1>4, <1>5 DEF Incoming, Unread
<1>11. Outgoing' = Outgoing
  BY <1>1 DEF Outgoing, Offered, Staged, InBytes
<1>12. PipeShape'
  <2>1. rxBuf' \in Seq(Cell) /\ Len(rxBuf') <= BlPacketSize /\ toSend' \in Seq(Cell)
    BY <1>1, <1>3, <1>6
  <2> QED BY <1>1, <2>1 DEF PipeInv, PipeShape
<1>13. RxInv' /\ TxInv'
  BY <1>1, <1>7 DEF PipeInv, RxInv, TxInv
<1>14. CpuInv'
  BY <1>1 DEF PipeInv, CpuInv, Writing
<1> QED BY <1>9, <1>10, <1>11, <1>12, <1>13, <1>14 DEF PipeInv

\* The host fetches what is offered.
LEMMA ReadKeeps ==
  ASSUME PipeInv, HostRead, UNCHANGED <<reply, leaving>>
  PROVE  PipeInv' /\ Incoming' = Incoming /\ got' \o Outgoing' = got \o Outgoing
<1>1. /\ ~inNak /\ inNak' = TRUE /\ inTrn' = TRUE /\ trnIrq' = TRUE /\ got' = got \o InBytes
      /\ UNCHANGED <<cpu, ret, rxBuf, outNak, outTrn, rxCnt, rxIdx, txBuf, txLen, inFlight, inCnt, toSend, reply, leaving>>
  BY DEF HostRead, InPacket, rxVars
<1>2. got \in Seq(Cell) /\ InBytes \in Seq(Cell) /\ Staged \in Seq(Cell) /\ reply \in Seq(Cell)
  BY PipeParts DEF PipeInv, PipeShape
<1>3. Staged \o reply \in Seq(Cell) /\ got \o InBytes \in Seq(Cell)
  BY <1>2, CellsJoin
<1>4. Outgoing = InBytes \o (Staged \o reply)
  BY <1>1 DEF Outgoing, Offered
<1>5. Outgoing' = Staged \o reply
  <2>1. Outgoing' = <<>> \o (Staged \o reply)
    BY <1>1 DEF Outgoing, Offered, Staged
  <2> QED BY <1>3, <2>1, ConcatEmptySeq
<1>6. (got \o InBytes) \o (Staged \o reply) = got \o (InBytes \o (Staged \o reply))
  <2>1. PICK s, t, u : s = got /\ t = InBytes /\ u = Staged \o reply
    OBVIOUS
  <2>2. s \in Seq(Cell) /\ t \in Seq(Cell) /\ u \in Seq(Cell)
    BY <1>2, <1>3, <2>1
  <2>3. (s \o t) \o u = s \o (t \o u)
    BY <2>2, CellsTriple
  <2> QED BY <2>1, <2>3
<1>7. PipeShape'
  BY <1>1, <1>3 DEF PipeInv, PipeShape
<1>8. RxInv' /\ TxInv'
  BY <1>1 DEF PipeInv, RxInv, TxInv, PipeShape
<1>9. CpuInv'
  BY <1>1 DEF PipeInv, CpuInv, Writing
<1>10. Incoming' = Incoming
  BY <1>1 DEF Incoming, Unread
<1> QED BY <1>1, <1>4, <1>5, <1>6, <1>7, <1>8, <1>9, <1>10 DEF PipeInv

\* The parser takes the first byte of what comes in.
LEMMA PopTakes ==
  ASSUME PipeInv, NEW b, Pop(b), UNCHANGED <<rxBuf, outNak, outTrn, rxCnt, toSend>>
  PROVE  /\ Incoming = <<b>> \o Incoming' /\ Incoming' \in Seq(Cell) /\ b \in Cell /\ Incoming # <<>>
         /\ RxInv' /\ rxIdx' \in 0 .. rxCnt
<1>1. rxIdx < rxCnt /\ b = rxBuf[rxIdx + 1] /\ rxIdx' = rxIdx + 1
  BY DEF Pop
<1>2. ~outTrn /\ rxCnt = Len(rxBuf) /\ rxIdx \in Nat /\ rxCnt \in Nat
  BY <1>1, BlPipeAssumption DEF PipeInv, PipeShape, RxInv
<1>3. rxIdx + 1 \in 1 .. Len(rxBuf) /\ rxCnt \in rxIdx + 1 .. Len(rxBuf)
  BY <1>1, <1>2
<1>4. SubSeq(rxBuf, rxIdx + 1, rxCnt) = <<b>> \o SubSeq(rxBuf, rxIdx + 1 + 1, rxCnt) /\ b \in Cell
  BY <1>1, <1>3, FirstOfPart DEF PipeInv, PipeShape
<1>5. Unread = <<b>> \o Unread'
  BY <1>1, <1>2, <1>4 DEF Unread
<1>6. RxInv' /\ rxIdx' \in 0 .. rxCnt
  BY <1>1, <1>2 DEF PipeInv, RxInv
<1>7. Unread' \in Seq(Cell) /\ toSend \in Seq(Cell)
  <2>1. rxIdx + 1 + 1 \in Nat \ {0} /\ rxCnt \in 0 .. Len(rxBuf)
    BY <1>2
  <2>2. SubSeq(rxBuf, rxIdx + 1 + 1, rxCnt) \in Seq(Cell)
    BY <2>1, CellsPart DEF PipeInv, PipeShape
  <2> QED BY <1>1, <1>2, <2>2 DEF Unread, PipeInv, PipeShape
<1>8. Incoming = <<b>> \o Incoming'
  BY <1>4, <1>5, <1>7, OneCell, CellsTriple DEF Incoming
<1>9. Incoming' \in Seq(Cell)
  BY <1>7, CellsJoin DEF Incoming
<1>10. Incoming # <<>>
  <2>1. <<b>> # <<>>
    OBVIOUS
  <2> QED BY <1>4, <1>8, <1>9, <2>1, OneCell, JoinedEmpty
<1> QED BY <1>4, <1>6, <1>8, <1>9, <1>10

\* A byte that leaves the pipe as it is, and one that ends a message.
LEMMA TakeKeeps ==
  ASSUME PipeInv, NEW b, Pop(b),
         UNCHANGED <<cpu, ret, trnIrq, rxBuf, outNak, outTrn, rxCnt, txVars, reply, leaving, toSend, got>>
  PROVE  PipeInv' /\ Outgoing' = Outgoing
<1>1. RxInv' /\ rxIdx' \in 0 .. rxCnt
  BY PopTakes
<1>2. UNCHANGED <<txBuf, txLen, inFlight, inCnt, inNak, inTrn>>
  BY DEF txVars
<1>3. PipeShape'
  BY <1>1, <1>2 DEF PipeInv, PipeShape
<1>4. TxInv'
  BY <1>2 DEF PipeInv, TxInv
<1>5. CpuInv'
  BY DEF PipeInv, CpuInv, Writing
<1>6. Outgoing' = Outgoing
  BY <1>2 DEF Outgoing, Offered, Staged, InBytes
<1> QED BY <1>1, <1>3, <1>4, <1>5, <1>6 DEF PipeInv

LEMMA AnswerKeeps ==
  ASSUME PipeInv, NEW b, Pop(b), Outgoing = <<>>, ~leaving,
         UNCHANGED <<ret, trnIrq, rxBuf, outNak, outTrn, rxCnt, txVars, toSend, got>>,
         reply' \in Seq(Cell), reply' # <<>>, leaving' \in BOOLEAN,
         cpu' \in {"put", "erase", "word", "eeprom"}
  PROVE  PipeInv' /\ Outgoing' = reply'
<1>1. RxInv' /\ rxIdx' \in 0 .. rxCnt
  BY PopTakes
<1>2. UNCHANGED <<txBuf, txLen, inFlight, inCnt, inNak, inTrn>>
  BY DEF txVars
<1>3. inNak /\ txLen = 0 /\ reply = <<>>
  BY NothingOut
<1>4. ret = "loop"
  BY <1>3 DEF PipeInv, PipeShape, CpuInv
<1>5. PipeShape'
  BY <1>1, <1>2 DEF PipeInv, PipeShape
<1>6. TxInv'
  BY <1>2, <1>3 DEF PipeInv, TxInv
<1>7. CpuInv'
  BY <1>4 DEF CpuInv, Writing
<1>8. Outgoing' = reply'
  <2>1. SubSeq(txBuf, 1, 0) = <<>>
    BY SubSeqEmpty
  <2>2. Outgoing' = <<>> \o (<<>> \o reply')
    BY <1>2, <1>3, <2>1 DEF Outgoing, Offered, Staged
  <2> QED BY <2>2, ConcatEmptySeq
<1> QED BY <1>1, <1>5, <1>6, <1>7, <1>8 DEF PipeInv

-----------------------------------------------------------------------------
(* Messages.                                                               *)

\* The bytes of a message before its terminator.
Final(m) == Len(m.args) + Len(m.data) + 1

LEMMA MessageBytes ==
  ASSUME NEW m, Allowed(m)
  PROVE  /\ m.cmd \in Cell /\ m.args \in Seq(Cell) /\ m.data \in Seq(Cell)
         /\ Len(m.args) \in Nat /\ Len(m.data) \in Nat
         /\ Send(m) \in Seq(Cell) /\ Len(Send(m)) = Final(m) + 1
         /\ Send(m)[1] = m.cmd
         /\ \A i \in 1 .. Len(m.args) : Send(m)[i + 1] = m.args[i]
         /\ \A i \in 1 .. Len(m.data) : Send(m)[Len(m.args) + i + 1] = m.data[i]
         /\ Send(m)[Final(m) + 1] = Eop
<1> DEFINE c == <<m.cmd>>
           a == c \o m.args
           d == a \o m.data
           x == Len(m.args)
           y == Len(m.data)
<1>1. m.cmd \in Cell /\ m.args \in Seq(Cell) /\ m.data \in Seq(Cell)
  BY DEF Allowed, Cell
<1>2. x \in Nat /\ y \in Nat
  BY <1>1, CellsLength
<1>3. c \in Seq(Cell) /\ Len(c) = 1 /\ c[1] = m.cmd
  BY <1>1, OneCell
<1>4. <<Eop>> \in Seq(Cell) /\ Len(<<Eop>>) = 1 /\ <<Eop>>[1] = Eop
  BY OneCell DEF Eop, Cell
<1> HIDE DEF c
<1>5. /\ a \in Seq(Cell) /\ Len(a) = 1 + x
      /\ a[1] = m.cmd /\ \A i \in 1 .. x : a[1 + i] = m.args[i]
  <2>1. 1 \in 1 .. Len(c)
    BY <1>3
  <2>2. \A i \in 1 .. Len(c) : a[i] = c[i]
    BY <1>1, <1>3, CellsJoined
  <2>3. \A i \in 1 .. x : a[Len(c) + i] = m.args[i]
    BY <1>1, <1>3, CellsJoined
  <2>4. a \in Seq(Cell) /\ Len(a) = Len(c) + x
    BY <1>1, <1>3, CellsJoin
  <2> QED BY <1>3, <2>1, <2>2, <2>3, <2>4
<1> HIDE DEF a
<1>6. /\ d \in Seq(Cell) /\ Len(d) = 1 + x + y
      /\ (\A i \in 1 .. 1 + x : d[i] = a[i]) /\ \A i \in 1 .. y : d[1 + x + i] = m.data[i]
  <2>1. \A i \in 1 .. Len(a) : d[i] = a[i]
    BY <1>1, <1>5, CellsJoined
  <2>2. \A i \in 1 .. y : d[Len(a) + i] = m.data[i]
    BY <1>1, <1>5, CellsJoined
  <2>3. d \in Seq(Cell) /\ Len(d) = Len(a) + Len(m.data)
    BY <1>1, <1>5, CellsJoin
  <2> QED BY <1>1, <1>5, <2>1, <2>2, <2>3
<1> HIDE DEF d
<1> DEFINE s == d \o <<Eop>>
<1>7. /\ s \in Seq(Cell) /\ Len(s) = 1 + x + y + 1
      /\ (\A i \in 1 .. 1 + x + y : s[i] = d[i]) /\ s[1 + x + y + 1] = Eop
  <2>1. \A i \in 1 .. Len(d) : s[i] = d[i]
    BY <1>4, <1>6, CellsJoined
  <2>2. \A i \in 1 .. Len(<<Eop>>) : s[Len(d) + i] = <<Eop>>[i]
    BY <1>4, <1>6, CellsJoined
  <2>3. 1 \in 1 .. Len(<<Eop>>)
    BY <1>4
  <2>4. s \in Seq(Cell) /\ Len(s) = Len(d) + Len(<<Eop>>)
    BY <1>4, <1>6, CellsJoin
  <2> HIDE DEF s
  <2> QED BY <1>4, <1>6, <2>1, <2>2, <2>3, <2>4
<1>8. Send(m) = s
  BY DEF Send, d, a, c
<1> HIDE DEF s, x, y
<1>9. /\ 1 \in 1 .. 1 + x /\ \A i \in 1 .. 1 + x : i \in 1 .. 1 + x + y
      /\ \A i \in 1 .. x : 1 + i \in 1 .. 1 + x /\ i + 1 = 1 + i
      /\ \A i \in 1 .. y : 1 + x + i \in 1 .. 1 + x + y /\ x + i + 1 = 1 + x + i
      /\ x + y + 1 + 1 = 1 + x + y + 1
  BY <1>2
<1>10. s[1] = m.cmd
  BY <1>5, <1>6, <1>7, <1>9
<1>11. \A i \in 1 .. x : s[i + 1] = m.args[i]
  BY <1>5, <1>6, <1>7, <1>9
<1>12. \A i \in 1 .. y : s[x + i + 1] = m.data[i]
  BY <1>6, <1>7, <1>9
<1>13. Final(m) + 1 = x + y + 1 + 1
  BY DEF Final, x, y
<1> QED BY <1>1, <1>2, <1>7, <1>8, <1>9, <1>10, <1>11, <1>12, <1>13 DEF x, y

\* What is left of a message begins with its next byte.
LEMMA NextByte ==
  ASSUME NEW m, Allowed(m), NEW j \in 0 .. Final(m), NEW b \in Cell, NEW rest \in Seq(Cell),
         <<b>> \o rest = SubSeq(Send(m), j + 1, Final(m) + 1)
  PROVE  /\ b = Send(m)[j + 1] /\ rest = SubSeq(Send(m), j + 1 + 1, Final(m) + 1)
         /\ rest = <<>> <=> j = Final(m)
<1>1. Final(m) \in Nat /\ Send(m) \in Seq(Cell) /\ Len(Send(m)) = Final(m) + 1
  <2>1. Len(m.args) \in Nat /\ Len(m.data) \in Nat
    BY MessageBytes
  <2>2. \A x, y \in Nat : x + y + 1 \in Nat
    OBVIOUS
  <2> QED BY <2>1, <2>2, MessageBytes DEF Final
<1>2. j + 1 \in 1 .. Len(Send(m)) /\ Final(m) + 1 \in j + 1 .. Len(Send(m))
  BY <1>1
<1>3. SubSeq(Send(m), j + 1, Final(m) + 1) = <<Send(m)[j + 1]>> \o SubSeq(Send(m), j + 1 + 1, Final(m) + 1)
      /\ Send(m)[j + 1] \in Cell
  BY <1>1, <1>2, FirstOfPart
<1>4. j + 1 + 1 \in Nat \ {0} /\ Final(m) + 1 \in 0 .. Len(Send(m))
  BY <1>1
<1>5. SubSeq(Send(m), j + 1 + 1, Final(m) + 1) \in Seq(Cell)
      /\ Len(SubSeq(Send(m), j + 1 + 1, Final(m) + 1))
           = IF j + 1 + 1 <= Final(m) + 1 THEN Final(m) + 1 - (j + 1 + 1) + 1 ELSE 0
  BY <1>1, <1>4, CellsPart
<1>6. b = Send(m)[j + 1] /\ rest = SubSeq(Send(m), j + 1 + 1, Final(m) + 1)
  BY <1>3, <1>5, SameFirst
<1>7. rest = <<>> <=> Len(rest) = 0
  BY CellsLength
<1>8. Len(rest) = 0 <=> j = Final(m)
  BY <1>1, <1>5, <1>6
<1> QED BY <1>6, <1>7, <1>8

\* One more of the first values of a sequence.
LEMMA OneMore ==
  ASSUME NEW s \in Seq(Cell), NEW j \in 1 .. Len(s)
  PROVE  Append(SubSeq(s, 1, j - 1), s[j]) = SubSeq(s, 1, j)
<1>1. Len(s) \in Nat /\ j \in Nat \ {0} /\ j - 1 \in 0 .. Len(s) /\ j \in 0 .. Len(s) /\ 1 \in Nat \ {0}
  BY CellsLength
<1>2. /\ SubSeq(s, 1, j - 1) \in Seq(Cell) /\ Len(SubSeq(s, 1, j - 1)) = (IF 1 <= j - 1 THEN j - 1 - 1 + 1 ELSE 0)
      /\ \A i \in 1 .. j - 1 - 1 + 1 : SubSeq(s, 1, j - 1)[i] = s[1 + i - 1]
  BY <1>1, CellsPart
<1>3. /\ SubSeq(s, 1, j) \in Seq(Cell) /\ Len(SubSeq(s, 1, j)) = (IF 1 <= j THEN j - 1 + 1 ELSE 0)
      /\ \A i \in 1 .. j - 1 + 1 : SubSeq(s, 1, j)[i] = s[1 + i - 1]
  BY <1>1, CellsPart
<1>4. s[j] \in Cell
  BY ElementOfSeq
<1> DEFINE p == SubSeq(s, 1, j - 1)
           q == Append(p, s[j])
<1>5. q \in Seq(Cell) /\ Len(q) = Len(p) + 1 /\ (\A i \in 1 .. Len(p) : q[i] = p[i]) /\ q[Len(p) + 1] = s[j]
  <2> HIDE DEF p
  <2> QED BY <1>2, <1>4, AppendProperties DEF p
<1>6. Len(p) = j - 1 /\ Len(SubSeq(s, 1, j)) = j
  BY <1>1, <1>2, <1>3
<1> HIDE DEF p, q
<1>7. \A i \in 1 .. j : q[i] = SubSeq(s, 1, j)[i]
  <2> SUFFICES ASSUME NEW i \in 1 .. j PROVE q[i] = SubSeq(s, 1, j)[i]
    OBVIOUS
  <2>1. i \in 1 .. j - 1 + 1 /\ 1 + i - 1 = i
    BY <1>1
  <2>2. SubSeq(s, 1, j)[i] = s[i]
    BY <1>3, <2>1
  <2>3. CASE i = j
    BY <1>1, <1>5, <1>6, <2>2, <2>3
  <2>4. CASE i # j
    <3>1. i \in 1 .. Len(p) /\ i \in 1 .. j - 1 - 1 + 1
      BY <1>1, <1>6, <2>4
    <3> QED BY <1>2, <1>5, <2>1, <2>2, <3>1 DEF p
  <2> QED BY <2>3, <2>4
<1>8. q = SubSeq(s, 1, j)
  BY <1>1, <1>3, <1>5, <1>6, <1>7, SeqEqual
<1> QED BY <1>8 DEF q, p

-----------------------------------------------------------------------------
(* The script, and where a message of it is.                               *)

LEMMA Wrapped ==
  ASSUME NEW d \in Seq(Cell)
  PROVE  <<Insync>> \o d \o <<Ok>> \in Seq(Cell) /\ Len(<<Insync>> \o d \o <<Ok>>) = Len(d) + 2
<1>1. /\ <<Insync>> \in Seq(Cell) /\ Len(<<Insync>>) = 1
      /\ <<Ok>> \in Seq(Cell) /\ Len(<<Ok>>) = 1
  BY OneCell DEF Insync, Ok, Cell
<1>2. <<Insync>> \o d \in Seq(Cell) /\ Len(<<Insync>> \o d) = 1 + Len(d)
  BY <1>1, CellsJoin
<1>3. <<Insync>> \o d \o <<Ok>> \in Seq(Cell) /\ Len(<<Insync>> \o d \o <<Ok>>) = Len(<<Insync>> \o d) + 1
  BY <1>1, <1>2, CellsJoin
<1>4. Len(d) \in Nat
  BY CellsLength
<1> QED BY <1>2, <1>3, <1>4

LEMMA ShortAnswers ==
  /\ <<Insync, Ok>> \in Seq(Cell) /\ <<Insync, Ok>> # <<>>
  /\ <<Nosync>> \in Seq(Cell) /\ <<Nosync>> # <<>>
BY DEF Insync, Ok, Nosync, Cell

LEMMA DataCells == ASSUME NEW c \in Answered, NEW a PROVE Data(c, a) \in Seq(Cell)
<1>1. CASE c = 49
  <2>1. Data(c, a) = <<65, 86, 82, 32, 83, 84, 75>>
    BY <1>1 DEF Data, GetParameter
  <2>2. \A p, q, r, t, u, v, w \in Cell : <<p, q, r, t, u, v, w>> \in Seq(Cell)
    OBVIOUS
  <2>3. 65 \in Cell /\ 86 \in Cell /\ 82 \in Cell /\ 32 \in Cell /\ 83 \in Cell /\ 84 \in Cell /\ 75 \in Cell
    BY DEF Cell
  <2> QED BY <2>1, <2>2, <2>3
<1>2. CASE c = GetParameter
  <2> DEFINE known == [p \in {128, 129, 130} |-> CASE p = 128 -> 1 [] p = 129 -> 8 [] p = 130 -> 2]
  <2>1. \A p \in {128, 129, 130} : known[p] \in Cell
    BY DEF Cell
  <2>2. DOMAIN known = {128, 129, 130} /\ 3 \in Cell
    BY DEF Cell
  <2> HIDE DEF known
  <2>3. (IF a[1] \in DOMAIN known THEN known[a[1]] ELSE 3) \in Cell
    BY <2>1, <2>2
  <2>4. Data(c, a) = <<IF a[1] \in DOMAIN known THEN known[a[1]] ELSE 3>>
    BY <1>2 DEF Data, GetParameter, known
  <2> QED BY <2>3, <2>4, OneCell
<1>3. CASE c = 86
  BY <1>3 DEF Data, Cell, GetParameter
<1>4. CASE c = 117
  BY <1>4 DEF Data, Cell, GetParameter
<1> QED BY <1>1, <1>2, <1>3, <1>4 DEF Answered

\* What ScriptAssumption says of one message.
LEMMA ScriptMessage ==
  ASSUME NEW k \in 1 .. Len(Script)
  PROVE  /\ Len(Script) \in Nat \ {0} /\ Allowed(Script[k]) /\ Expects(k, Script[k].cmd)
         /\ Script[k].cmd = LeaveProgmode <=> k = Len(Script)
         /\ Script[k].cmd \in {ProgPage, ReadPage} => k > 1 /\ Script[k - 1].cmd = LoadAddress
BY ScriptAssumption

LEMMA MessageShape ==
  ASSUME NEW m, Allowed(m)
  PROVE  /\ m.args \in Seq(Cell) /\ Len(m.args) = ArgLen(m.cmd) /\ Len(m.args) \in 0 .. 20
         /\ m.cmd \notin {FinalisePage, EmitPage}
         /\ m.cmd # ProgPage => Len(m.data) = 0
<1>1. /\ m.cmd \notin {FinalisePage, EmitPage} /\ m.args \in Seq(Cell) /\ Len(m.args) = ArgLen(m.cmd)
      /\ Len(m.data) = (IF m.cmd = ProgPage THEN Size(m) ELSE 0)
  BY DEF Allowed, Cell
<1>2. \A c : ArgLen(c) \in 0 .. 20
  BY DEF ArgLen, GetParameter, LoadAddress, ProgPage, ReadPage
<1> QED BY <1>1, <1>2

LEMMA LoadShape ==
  ASSUME NEW m, Allowed(m), m.cmd = LoadAddress
  PROVE  Len(m.args) = 2 /\ m.args[1] \in Cell /\ m.args[2] \in Cell
<1>1. ArgLen(LoadAddress) = 2
  BY DEF ArgLen, GetParameter, LoadAddress, ProgPage, ReadPage
<1>2. m.args \in Seq(Cell) /\ Len(m.args) = 2
  BY <1>1, MessageShape
<1>3. \A i \in 1 .. Len(m.args) : m.args[i] \in Cell
  BY <1>2, ElementOfSeq
<1>4. 1 \in 1 .. 2 /\ 2 \in 1 .. 2
  OBVIOUS
<1> QED BY <1>2, <1>3, <1>4

LEMMA PageShape ==
  ASSUME NEW m, Allowed(m), m.cmd \in {ProgPage, ReadPage}
  PROVE  /\ Len(m.args) = 3 /\ m.args[1] \in Cell /\ m.args[2] \in Cell /\ m.args[3] \in Cell
         /\ Size(m) \in Nat \ {0} /\ Size(m) <= PageBuf /\ Size(m) \in Word /\ Mem(m) = m.args[3]
         /\ m.cmd = ProgPage => Len(m.data) = Size(m)
<1>1. ArgLen(ProgPage) = 3 /\ ArgLen(ReadPage) = 3
  BY DEF ArgLen, GetParameter, LoadAddress, ProgPage, ReadPage
<1>2. m.args \in Seq(Cell) /\ Len(m.args) = 3
  BY <1>1, MessageShape
<1>3. \A i \in 1 .. Len(m.args) : m.args[i] \in Cell
  BY <1>2, ElementOfSeq
<1>4. 1 \in 1 .. 3 /\ 2 \in 1 .. 3 /\ 3 \in 1 .. 3
  OBVIOUS
<1>5. m.args[1] \in Cell /\ m.args[2] \in Cell /\ m.args[3] \in Cell
  BY <1>2, <1>3, <1>4
<1>6. PICK p, q : p = m.args[1] /\ q = m.args[2]
  OBVIOUS
<1>7. Size(m) \in Word
  <2>1. p \in Cell /\ q \in Cell
    BY <1>5, <1>6
  <2>2. p * 256 + q \in Word
    BY <2>1, WordOf
  <2>3. Size(m) = p * 256 + q
    BY <1>6 DEF Size
  <2> QED BY <2>2, <2>3, Zenon
<1>8. Size(m) \in 1 .. PageBuf /\ (m.cmd = ProgPage => Len(m.data) = Size(m))
  BY DEF Allowed
<1>9. \A n \in 1 .. PageBuf : n \in Nat \ {0} /\ n <= PageBuf
  BY StkAssumption
<1>10. Size(m) \in Nat \ {0} /\ Size(m) <= PageBuf
  BY <1>8, <1>9
<1>11. Mem(m) = m.args[3]
  BY DEF Mem
<1> QED BY <1>2, <1>5, <1>7, <1>8, <1>10, <1>11, Zenon

LEMMA FinalNat == ASSUME NEW m, Allowed(m) PROVE Final(m) \in Nat \ {0}
<1>1. Len(m.args) \in Nat /\ Len(m.data) \in Nat
  BY MessageBytes
<1>2. \A x, y \in Nat : x + y + 1 \in Nat \ {0}
  OBVIOUS
<1> QED BY <1>1, <1>2 DEF Final

LEMMA Expected ==
  ASSUME NEW k \in 1 .. Len(Script), NEW c, c = Script[k].cmd
  PROVE  /\ c \in Plain \cup {LoadAddress, ProgPage, LeaveProgmode} => Script[k].expect = <<Insync, Ok>>
         /\ c \in Answered => Script[k].expect = <<Insync>> \o Data(c, Script[k].args) \o <<Ok>>
         /\ c = ReadPage => \/ Reads(k, FlashMem) /\ Address(k) >= AppStart /\ ReadsUploaded(k, FlashMem)
                            \/ Reads(k, EepromMem) /\ ReadsUploaded(k, EepromMem)
         /\ c \notin Plain \cup {LoadAddress, ProgPage, LeaveProgmode} /\ c \notin Answered /\ c # ReadPage
              => Script[k].expect = <<Nosync>>
<1>1. Expects(k, c)
  BY ScriptMessage
<1>2. c \in Plain \cup {LoadAddress, ProgPage, LeaveProgmode} => c \notin Answered /\ c # ReadPage
  BY DEF Answered, Plain, LoadAddress, ProgPage, LeaveProgmode, GetParameter, GetSync, ReadPage
<1>3. c \in Answered => c # ReadPage
  BY DEF Answered, GetParameter, ReadPage
<1>4. c \in Plain \cup {LoadAddress, ProgPage, LeaveProgmode} => Script[k].expect = <<Insync, Ok>>
  BY <1>1, <1>2 DEF Expects
<1>5. c \in Answered => Script[k].expect = <<Insync>> \o Data(c, Script[k].args) \o <<Ok>>
  BY <1>1, <1>2, <1>3 DEF Expects
<1>6. c = ReadPage => \/ Reads(k, FlashMem) /\ Address(k) >= AppStart /\ ReadsUploaded(k, FlashMem)
                      \/ Reads(k, EepromMem) /\ ReadsUploaded(k, EepromMem)
  <2> HAVE c = ReadPage
  <2>1. c \notin Plain \cup {LoadAddress, ProgPage, LeaveProgmode} /\ c \notin Answered
    BY <1>2, <1>3
  <2> QED BY <1>1, <2>1 DEF Expects
<1>7. c \notin Plain \cup {LoadAddress, ProgPage, LeaveProgmode} /\ c \notin Answered /\ c # ReadPage
        => Script[k].expect = <<Nosync>>
  BY <1>1 DEF Expects
<1> QED BY <1>4, <1>5, <1>6, <1>7

LEMMA ExpectCells ==
  ASSUME NEW k \in 1 .. Len(Script)
  PROVE  Script[k].expect \in Seq(Cell) /\ Script[k].expect # <<>>
<1>1. PICK c : c = Script[k].cmd
  OBVIOUS
<1>2. ASSUME NEW d \in Seq(Cell), Script[k].expect = <<Insync>> \o d \o <<Ok>>
      PROVE  Script[k].expect \in Seq(Cell) /\ Script[k].expect # <<>>
  <2>1. Script[k].expect \in Seq(Cell) /\ Len(Script[k].expect) = Len(d) + 2 /\ Len(d) \in Nat
    BY <1>2, Wrapped, CellsLength
  <2>2. Len(Script[k].expect) # 0
    BY <2>1
  <2> QED BY <2>1, <2>2, CellsLength
<1>3. CASE c \in Plain \cup {LoadAddress, ProgPage, LeaveProgmode}
  BY <1>1, <1>3, Expected, ShortAnswers
<1>4. CASE c \in Answered
  BY <1>1, <1>2, <1>4, Expected, DataCells
<1>5. CASE c = ReadPage
  <2>1. ReadsUploaded(k, FlashMem) \/ ReadsUploaded(k, EepromMem)
    BY <1>1, <1>5, Expected
  <2>2. PICK j \in 1 .. k - 1 :
          /\ Size(Script[k]) <= Len(Script[j].data)
          /\ Script[k].expect = <<Insync>> \o SubSeq(Script[j].data, 1, Size(Script[k])) \o <<Ok>>
    BY <2>1 DEF ReadsUploaded
  <2>3. Size(Script[k]) \in Nat
    BY <1>1, <1>5, ScriptMessage, PageShape
  <2>4. j \in 1 .. Len(Script)
    BY ScriptMessage
  <2>5. Script[j].data \in Seq(Cell) /\ Len(Script[j].data) \in Nat
    BY <2>4, ScriptMessage, MessageBytes
  <2>6. Size(Script[k]) \in 0 .. Len(Script[j].data) /\ 1 \in Nat \ {0}
    BY <2>2, <2>3, <2>5
  <2> QED BY <1>2, <2>2, <2>5, <2>6, CellsPart
<1>6. CASE c \notin Plain \cup {LoadAddress, ProgPage, LeaveProgmode} /\ c \notin Answered /\ c # ReadPage
  BY <1>1, <1>6, Expected, ShortAnswers
<1> QED BY <1>3, <1>4, <1>5, <1>6

\* The command as the parser keeps it until the terminator.
Executed(m) == CASE m.cmd = ProgPage -> FinalisePage [] m.cmd = ReadPage -> EmitPage [] OTHER -> m.cmd

\* The parser has taken j bytes of message m.
InStep(m, j) ==
  /\ j = 0 => st = "idle"
  /\ j \in 1 .. Len(m.args) =>
       /\ st = (CASE m.cmd = ProgPage -> "progHeader" [] m.cmd = ReadPage -> "readHeader" [] OTHER -> "args")
       /\ cmd = m.cmd /\ args = SubSeq(m.args, 1, j - 1) /\ need = Len(m.args) - j + 1
  /\ j > Len(m.args) /\ j # 0 /\ j < Final(m) => st = "data" /\ cmd = m.cmd
  /\ j = Final(m) => st = "eop" /\ args = m.args /\ cmd = Executed(m)
  /\ j > Len(m.args) /\ m.cmd \in {ProgPage, ReadPage} => size = Size(m) /\ mem = Mem(m)
  /\ j > Len(m.args) /\ m.cmd = ProgPage =>
       fill = j - Len(m.args) - 1 /\ args = m.args /\ \A i \in 1 .. fill : page[i - 1] = m.data[i]

\* A programmer that started while the bootloader was leaving is not heard.
Deaf == leaving /\ reply = <<>> /\ step = 1 /\ got = <<>> /\ Outgoing = <<>> /\ Incoming # <<>>

Asking(j) ==
  /\ ~leaving /\ got = <<>> /\ Outgoing = <<>> /\ step # 0
  /\ j \in 0 .. Final(Script[step]) /\ InStep(Script[step], j)
  /\ Incoming = SubSeq(Send(Script[step]), j + 1, Final(Script[step]) + 1)

Answering ==
  /\ Incoming = <<>> /\ st = "idle" /\ step # 0
  /\ got \o Outgoing = Script[step].expect
  /\ leaving <=> step = Len(Script)

Conversation ==
  \/ step = 0 /\ got = <<>> /\ Outgoing = <<>> /\ Incoming = <<>> /\ (leaving \/ st = "idle")
  \/ Deaf \/ Answering \/ \E j \in Nat : Asking(j)

ParserTypes ==
  /\ st \in {"idle", "args", "eop", "progHeader", "readHeader", "data"}
  /\ cmd \in Cell /\ addr \in Word /\ need \in 0 .. 20
  /\ args \in Seq(Cell) /\ size \in Word /\ mem \in Cell
  /\ page \in [0 .. PageBuf - 1 -> Cell] /\ fill \in 0 .. PageBuf

\* Whatever the parser takes is the next byte of the message it is in.
LEMMA PoppedByte ==
  ASSUME PipeInv, Conversation, step \in 0 .. Len(Script),
         NEW b, Pop(b), UNCHANGED <<rxBuf, outNak, outTrn, rxCnt, toSend>>
  PROVE  /\ step \in 1 .. Len(Script) /\ Allowed(Script[step]) /\ Incoming # <<>> /\ b \in Cell
         /\ \E j \in Nat :
              /\ Asking(j) /\ b = Send(Script[step])[j + 1]
              /\ Incoming' = SubSeq(Send(Script[step]), j + 1 + 1, Final(Script[step]) + 1)
              /\ Incoming' = <<>> <=> j = Final(Script[step])
<1>1. Incoming = <<b>> \o Incoming' /\ Incoming' \in Seq(Cell) /\ b \in Cell /\ Incoming # <<>>
  BY PopTakes
<1>2. ~Deaf
  <2>1. cpu = "stk"
    BY DEF Pop
  <2> QED BY <2>1 DEF Deaf, PipeInv, CpuInv
<1>3. PICK j \in Nat : Asking(j)
  BY <1>1, <1>2 DEF Conversation, Answering
<1>4. step \in 1 .. Len(Script)
  <2>1. Len(Script) \in Nat
    BY ScriptAssumption
  <2> QED BY <1>3, <2>1 DEF Asking
<1>5. Allowed(Script[step])
  BY <1>4, ScriptMessage
<1>6. PICK m : m = Script[step]
  OBVIOUS
<1>7. Allowed(m) /\ j \in 0 .. Final(m) /\ <<b>> \o Incoming' = SubSeq(Send(m), j + 1, Final(m) + 1)
  BY <1>1, <1>3, <1>5, <1>6 DEF Asking
<1>8. /\ b = Send(m)[j + 1] /\ Incoming' = SubSeq(Send(m), j + 1 + 1, Final(m) + 1)
      /\ Incoming' = <<>> <=> j = Final(m)
  BY <1>1, <1>7, NextByte
<1> QED BY <1>1, <1>3, <1>4, <1>5, <1>6, <1>8

-----------------------------------------------------------------------------
(* A message is taken in.                                                  *)

LEMMA InPhase ==
  ASSUME NEW m, Allowed(m), NEW j \in Nat, j \in 0 .. Final(m), InStep(m, j)
  PROVE  /\ st = "idle" => j = 0
         /\ st = "args" => j \in 1 .. Len(m.args) /\ m.cmd \notin {ProgPage, ReadPage}
         /\ st = "progHeader" => j \in 1 .. Len(m.args) /\ m.cmd = ProgPage
         /\ st = "readHeader" => j \in 1 .. Len(m.args) /\ m.cmd = ReadPage
         /\ st = "data" => j \in Len(m.args) + 1 .. Final(m) - 1 /\ m.cmd = ProgPage
         /\ st = "eop" => j = Final(m)
<1> DEFINE x == Len(m.args)
           y == Len(m.data)
<1>1. x \in Nat /\ y \in Nat /\ Final(m) = x + y + 1
  BY MessageBytes DEF Final
<1>2. m.cmd # ProgPage => Len(m.data) = 0
  BY MessageShape
<1>3. ProgPage # ReadPage
  BY DEF ProgPage, ReadPage
<1> HIDE DEF x, y
<1>4. j = 0 \/ j \in 1 .. x \/ (j > x /\ j # 0 /\ j < Final(m)) \/ j = Final(m)
  BY <1>1
<1>5. CASE j = 0
  BY <1>5 DEF InStep
<1>6. CASE j \in 1 .. x
  <2>1. st = (CASE m.cmd = ProgPage -> "progHeader" [] m.cmd = ReadPage -> "readHeader" [] OTHER -> "args")
    BY <1>6 DEF InStep, x
  <2> QED BY <1>3, <1>6, <2>1 DEF x
<1>7. CASE j > x /\ j # 0 /\ j < Final(m)
  <2>1. st = "data"
    BY <1>7 DEF InStep, x
  <2>2. y # 0 /\ j \in x + 1 .. Final(m) - 1
    BY <1>1, <1>7
  <2> QED BY <1>2, <2>1, <2>2 DEF x, y
<1>8. CASE j = Final(m)
  BY <1>8 DEF InStep
<1> QED BY <1>4, <1>5, <1>6, <1>7, <1>8

\* A byte that is not a terminator is inside a message.
LEMMA Taken ==
  ASSUME PipeInv, Conversation, step \in 0 .. Len(Script), st # "eop",
         NEW b, Pop(b), UNCHANGED <<rxBuf, outNak, outTrn, rxCnt, toSend>>
  PROVE  /\ b \in Cell /\ step \in 1 .. Len(Script)
         /\ \E m, j : /\ m = Script[step] /\ Allowed(m) /\ j \in Nat /\ j \in 0 .. Final(m) - 1
                      /\ Asking(j) /\ InStep(m, j) /\ b = Send(m)[j + 1]
<1>1. /\ step \in 1 .. Len(Script) /\ Allowed(Script[step]) /\ b \in Cell
      /\ \E j \in Nat : Asking(j) /\ b = Send(Script[step])[j + 1]
  BY PoppedByte
<1>2. PICK m : m = Script[step]
  OBVIOUS
<1>3. PICK j \in Nat : Asking(j) /\ b = Send(m)[j + 1]
  BY <1>1, <1>2
<1>4. j \in 0 .. Final(m) /\ InStep(m, j) /\ j # Final(m)
  BY <1>2, <1>3 DEF Asking, InStep
<1>5. j \in 0 .. Final(m) - 1
  BY <1>1, <1>2, <1>4, FinalNat
<1> QED BY <1>1, <1>2, <1>3, <1>4, <1>5

\* It takes the message one byte further.
LEMMA TakeMoves ==
  ASSUME PipeInv, NEW b, Pop(b),
         UNCHANGED <<cpu, ret, trnIrq, rxBuf, outNak, outTrn, rxCnt, txVars, reply, leaving, toSend, got, step>>,
         NEW m, m = Script[step], Allowed(m), NEW j \in Nat, j \in 0 .. Final(m) - 1, Asking(j),
         InStep(m, j + 1)'
  PROVE  PipeInv' /\ Conversation' /\ Incoming # <<>> /\ Incoming' # <<>>
<1>1. Incoming = <<b>> \o Incoming' /\ Incoming' \in Seq(Cell) /\ b \in Cell /\ Incoming # <<>>
  BY PopTakes
<1>2. m = Script[step]' /\ Final(m) \in Nat
  BY FinalNat
<1>3. j \in 0 .. Final(m) /\ j # Final(m) /\ j + 1 \in Nat /\ j + 1 \in 0 .. Final(m)
  BY <1>2
<1>4. ~leaving /\ got = <<>> /\ Outgoing = <<>> /\ step # 0
      /\ <<b>> \o Incoming' = SubSeq(Send(m), j + 1, Final(m) + 1)
  BY <1>1 DEF Asking
<1>5. Incoming' = SubSeq(Send(m), j + 1 + 1, Final(m) + 1) /\ Incoming' # <<>>
  BY <1>1, <1>3, <1>4, NextByte
<1>6. PipeInv' /\ Outgoing' = Outgoing
  BY TakeKeeps
<1>7. Asking(j + 1)'
  <2>1. ~leaving' /\ got' = <<>> /\ Outgoing' = <<>> /\ step' # 0
    BY <1>4, <1>6
  <2> QED BY <1>2, <1>3, <1>5, <2>1 DEF Asking
<1> QED BY <1>1, <1>3, <1>5, <1>6, <1>7 DEF Conversation

LEMMA CommandTaken ==
  ASSUME PipeInv, Conversation, ParserTypes, step \in 0 .. Len(Script),
         TakeCommand, UNCHANGED <<toSend, got, step>>
  PROVE  PipeInv' /\ Conversation' /\ ParserTypes' /\ Incoming # <<>> /\ Incoming' # <<>>
<1>1. PICK b \in Cell :
        /\ Pop(b) /\ st = "idle" /\ cmd' = b /\ args' = <<>> /\ need' = ArgLen(b)
        /\ st' = CASE b = ProgPage -> "progHeader"
                   [] b = ReadPage -> "readHeader"
                   [] ArgLen(b) = 0 -> "eop"
                   [] OTHER -> "args"
        /\ UNCHANGED <<cpu, ret, trnIrq, rxBuf, outNak, outTrn, rxCnt, txVars, nvmVars,
                       addr, size, mem, page, fill, reply, leaving>>
  BY DEF TakeCommand, Cell
<1>2. PICK m, j : /\ m = Script[step] /\ Allowed(m) /\ j \in Nat /\ j \in 0 .. Final(m) - 1
                  /\ Asking(j) /\ InStep(m, j) /\ b = Send(m)[j + 1]
  BY <1>1, Taken
<1>3. j = 0 /\ b = m.cmd
  <2>1. j \in 0 .. Final(m)
    BY <1>2, FinalNat
  <2>2. j = 0
    BY <1>1, <1>2, <2>1, InPhase
  <2> QED BY <1>2, <2>2, MessageBytes
<1>4. Len(m.args) = ArgLen(b) /\ ArgLen(b) \in 0 .. 20 /\ m.args \in Seq(Cell)
  BY <1>2, <1>3, MessageShape
<1>5. Len(m.data) \in Nat /\ Final(m) = Len(m.args) + Len(m.data) + 1
  BY <1>2, MessageBytes DEF Final
<1>6. b \in {ProgPage, ReadPage} => Len(m.args) = 3
  BY <1>2, <1>3, PageShape
<1>7. b # ProgPage => Len(m.data) = 0
  BY <1>2, <1>3, MessageShape
<1>8. ProgPage # ReadPage
  BY DEF ProgPage, ReadPage
<1>9. InStep(m, 1)'
  <2>1. ASSUME 1 \in 1 .. Len(m.args)
        PROVE  /\ st' = (CASE m.cmd = ProgPage -> "progHeader" [] m.cmd = ReadPage -> "readHeader" [] OTHER -> "args")
               /\ cmd' = m.cmd /\ args' = SubSeq(m.args, 1, 1 - 1) /\ need' = Len(m.args) - 1 + 1
    <3>1. ArgLen(b) # 0 /\ Len(m.args) - 1 + 1 = Len(m.args)
      BY <1>4, <2>1
    <3>2. SubSeq(m.args, 1, 0) = <<>> /\ 1 - 1 = 0
      BY SubSeqEmpty
    <3> QED BY <1>1, <1>3, <1>4, <1>8, <3>1, <3>2
  <2>2. ~(1 > Len(m.args) /\ 1 < Final(m))
    <3>1. PICK x, y : x = Len(m.args) /\ y = Len(m.data)
      OBVIOUS
    <3>2. x \in Nat /\ y \in Nat /\ Final(m) = x + y + 1 /\ (x = 3 \/ y = 0)
      BY <1>4, <1>5, <1>6, <1>7, <3>1
    <3>3. ~(1 > x /\ 1 < x + y + 1)
      BY <3>2
    <3> QED BY <3>1, <3>2, <3>3
  <2>3. ASSUME 1 = Final(m)
        PROVE  st' = "eop" /\ args' = m.args /\ cmd' = Executed(m)
    <3>1. Len(m.args) = 0
      BY <1>4, <1>5, <2>3
    <3>2. m.args = <<>> /\ b \notin {ProgPage, ReadPage} /\ ArgLen(b) = 0
      BY <1>4, <1>6, <3>1, CellsLength
    <3> QED BY <1>1, <1>3, <3>2 DEF Executed
  <2>4. ~(1 > Len(m.args) /\ m.cmd \in {ProgPage, ReadPage})
    <3> SUFFICES ASSUME m.cmd \in {ProgPage, ReadPage} PROVE ~(1 > Len(m.args))
      OBVIOUS
    <3>1. Len(m.args) = 3
      BY <1>3, <1>6
    <3> QED BY <3>1
  <2> QED BY <2>1, <2>2, <2>3, <2>4 DEF InStep
<1>10. PipeInv' /\ Conversation' /\ Incoming # <<>> /\ Incoming' # <<>>
  <2>1. InStep(m, j + 1)'
    BY <1>3, <1>9
  <2> QED BY <1>1, <1>2, <2>1, TakeMoves
<1>11. ParserTypes'
  <2>1. st' \in {"progHeader", "readHeader", "eop", "args"}
    BY <1>1
  <2> QED BY <1>1, <1>4, <2>1, NoCells DEF ParserTypes
<1> QED BY <1>10, <1>11

\* An argument, of a command or of a page command.
LEMMA ArgumentByte ==
  ASSUME NEW m, Allowed(m), NEW j \in 1 .. Len(m.args), InStep(m, j)
  PROVE  /\ Send(m)[j + 1] = m.args[j] /\ need = Len(m.args) - j + 1 /\ cmd = m.cmd
         /\ Append(args, m.args[j]) = SubSeq(m.args, 1, j)
         /\ Append(args, m.args[j]) \in Seq(Cell)
         /\ j = Len(m.args) => Append(args, m.args[j]) = m.args
<1>1. /\ m.args \in Seq(Cell) /\ Len(m.args) \in Nat
      /\ \A i \in 1 .. Len(m.args) : Send(m)[i + 1] = m.args[i]
  BY MessageBytes
<1>2. cmd = m.cmd /\ args = SubSeq(m.args, 1, j - 1) /\ need = Len(m.args) - j + 1
  BY DEF InStep
<1>3. Append(args, m.args[j]) = SubSeq(m.args, 1, j)
  BY <1>1, <1>2, OneMore
<1>4. SubSeq(m.args, 1, j) \in Seq(Cell)
  <2>1. 1 \in Nat \ {0} /\ j \in 0 .. Len(m.args)
    BY <1>1
  <2> QED BY <1>1, <2>1, CellsPart
<1>5. SubSeq(m.args, 1, Len(m.args)) = m.args
  BY <1>1, SubSeqFull
<1> QED BY <1>1, <1>2, <1>3, <1>4, <1>5

LEMMA ArgTaken ==
  ASSUME PipeInv, Conversation, ParserTypes, step \in 0 .. Len(Script),
         TakeArg, UNCHANGED <<toSend, got, step>>
  PROVE  PipeInv' /\ Conversation' /\ ParserTypes' /\ Incoming # <<>> /\ Incoming' # <<>>
<1>1. PICK b \in Cell :
        /\ Pop(b) /\ st = "args" /\ args' = Append(args, b) /\ need' = need - 1
        /\ st' = (IF need = 1 THEN "eop" ELSE "args")
        /\ UNCHANGED <<cpu, ret, trnIrq, rxBuf, outNak, outTrn, rxCnt, txVars, nvmVars,
                       cmd, addr, size, mem, page, fill, reply, leaving>>
  BY DEF TakeArg, Cell
<1>2. PICK m, j : /\ m = Script[step] /\ Allowed(m) /\ j \in Nat /\ j \in 0 .. Final(m) - 1
                  /\ Asking(j) /\ InStep(m, j) /\ b = Send(m)[j + 1]
  BY <1>1, Taken
<1>3. j \in 1 .. Len(m.args) /\ m.cmd \notin {ProgPage, ReadPage}
  <2>1. j \in 0 .. Final(m)
    BY <1>2, FinalNat
  <2> QED BY <1>1, <1>2, <2>1, InPhase
<1>4. /\ b = m.args[j] /\ need = Len(m.args) - j + 1 /\ cmd = m.cmd
      /\ args' = SubSeq(m.args, 1, j) /\ args' \in Seq(Cell) /\ (j = Len(m.args) => args' = m.args)
  BY <1>1, <1>2, <1>3, ArgumentByte
<1>5. Len(m.data) = 0 /\ Len(m.args) \in 0 .. 20
  BY <1>2, <1>3, MessageShape
<1>6. Final(m) = Len(m.args) + 1
  BY <1>5 DEF Final
<1>7. InStep(m, j + 1)'
  <2>1. j + 1 # 0 /\ ~(j + 1 > Len(m.args) /\ j + 1 < Final(m))
    BY <1>2, <1>5, <1>6
  <2>2. ASSUME j + 1 \in 1 .. Len(m.args)
        PROVE  /\ st' = (CASE m.cmd = ProgPage -> "progHeader" [] m.cmd = ReadPage -> "readHeader" [] OTHER -> "args")
               /\ cmd' = m.cmd /\ args' = SubSeq(m.args, 1, j + 1 - 1) /\ need' = Len(m.args) - (j + 1) + 1
    <3>1. need # 1 /\ need - 1 = Len(m.args) - (j + 1) + 1 /\ j + 1 - 1 = j
      <4>1. \A x \in 0 .. 20, i \in Nat : i + 1 \in 1 .. x =>
              x - i + 1 # 1 /\ x - i + 1 - 1 = x - (i + 1) + 1 /\ i + 1 - 1 = i
        OBVIOUS
      <4>2. j \in Nat /\ Len(m.args) \in 0 .. 20 /\ need = Len(m.args) - j + 1
        BY <1>2, <1>4, <1>5
      <4> QED BY <2>2, <4>1, <4>2
    <3> QED BY <1>1, <1>3, <1>4, <3>1
  <2>3. ASSUME j + 1 = Final(m)
        PROVE  st' = "eop" /\ args' = m.args /\ cmd' = Executed(m)
    <3>1. j = Len(m.args) /\ need = 1
      BY <1>2, <1>4, <1>5, <1>6, <2>3
    <3> QED BY <1>1, <1>3, <1>4, <3>1 DEF Executed
  <2> QED BY <1>3, <2>1, <2>2, <2>3 DEF InStep
<1>8. PipeInv' /\ Conversation' /\ Incoming # <<>> /\ Incoming' # <<>>
  BY <1>1, <1>2, <1>7, TakeMoves
<1>9. ParserTypes'
  <2>1. need - 1 \in 0 .. 20
    <3>1. PICK x : x = Len(m.args)
      OBVIOUS
    <3>2. j \in 1 .. x /\ x \in 0 .. 20 /\ need = x - j + 1
      BY <1>3, <1>4, <1>5, <3>1
    <3> QED BY <3>2
  <2>2. st' \in {"eop", "args"}
    BY <1>1
  <2> QED BY <1>1, <1>4, <2>1, <2>2 DEF ParserTypes
<1> QED BY <1>8, <1>9

\* The third byte of the header of a page command, and the two before it.
LEMMA HeaderByte ==
  ASSUME NEW m, Allowed(m), m.cmd \in {ProgPage, ReadPage}, NEW j \in 1 .. 3, InStep(m, j)
  PROVE  /\ Len(m.args) = 3 /\ Send(m)[j + 1] = m.args[j] /\ need = 3 - j + 1 /\ cmd = m.cmd
         /\ Append(args, m.args[j]) = SubSeq(m.args, 1, j) /\ Append(args, m.args[j]) \in Seq(Cell)
         /\ j = 3 => /\ Append(args, m.args[j]) = m.args
                     /\ HeaderSize = Size(m) /\ m.args[j] = Mem(m)
<1>1. Len(m.args) = 3 /\ Mem(m) = m.args[3] /\ m.args \in Seq(Cell)
  BY PageShape, MessageBytes
<1>2. /\ Send(m)[j + 1] = m.args[j] /\ need = 3 - j + 1 /\ cmd = m.cmd
      /\ Append(args, m.args[j]) = SubSeq(m.args, 1, j) /\ Append(args, m.args[j]) \in Seq(Cell)
      /\ j = 3 => Append(args, m.args[j]) = m.args
  <2>1. j \in 1 .. Len(m.args)
    BY <1>1
  <2>2. /\ Send(m)[j + 1] = m.args[j] /\ need = Len(m.args) - j + 1 /\ cmd = m.cmd
        /\ Append(args, m.args[j]) = SubSeq(m.args, 1, j) /\ Append(args, m.args[j]) \in Seq(Cell)
        /\ (j = Len(m.args) => Append(args, m.args[j]) = m.args)
    BY <2>1, ArgumentByte
  <2> QED BY <1>1, <2>2
<1>3. ASSUME j = 3 PROVE HeaderSize = Size(m)
  <2>1. args = SubSeq(m.args, 1, 2)
    BY <1>1, <1>3 DEF InStep
  <2>2. 2 \in 0 .. Len(m.args) /\ 1 \in Nat \ {0} /\ 1 \in 1 .. 2 - 1 + 1 /\ 2 \in 1 .. 2 - 1 + 1
        /\ 1 + 1 - 1 = 1 /\ 1 + 2 - 1 = 2
    BY <1>1
  <2>3. \A i \in 1 .. 2 - 1 + 1 : SubSeq(m.args, 1, 2)[i] = m.args[1 + i - 1]
    BY <1>1, <2>2, CellsPart
  <2>4. args[1] = m.args[1] /\ args[2] = m.args[2]
    BY <2>1, <2>2, <2>3
  <2> QED BY <2>4 DEF HeaderSize, Size
<1> QED BY <1>1, <1>2, <1>3

LEMMA ProgHeaderTaken ==
  ASSUME PipeInv, Conversation, ParserTypes, step \in 0 .. Len(Script),
         TakeProgHeader, UNCHANGED <<toSend, got, step>>
  PROVE  PipeInv' /\ Conversation' /\ ParserTypes' /\ Incoming # <<>> /\ Incoming' # <<>>
<1>1. PICK b \in Cell :
        /\ Pop(b) /\ st = "progHeader" /\ args' = Append(args, b) /\ need' = need - 1
        /\ IF need > 1
           THEN UNCHANGED <<st, size, mem, fill>>
           ELSE /\ size' = HeaderSize /\ mem' = b
                /\ fill' = (IF HeaderSize > PageBuf THEN fill ELSE 0)
                /\ st' = (IF HeaderSize \in 1 .. PageBuf THEN "data" ELSE "eop")
        /\ UNCHANGED <<cpu, ret, trnIrq, rxBuf, outNak, outTrn, rxCnt, txVars, nvmVars,
                       cmd, addr, page, reply, leaving>>
  BY DEF TakeProgHeader, Cell
<1>2. PICK m, j : /\ m = Script[step] /\ Allowed(m) /\ j \in Nat /\ j \in 0 .. Final(m) - 1
                  /\ Asking(j) /\ InStep(m, j) /\ b = Send(m)[j + 1]
  BY <1>1, Taken
<1>3. j \in 1 .. 3 /\ m.cmd = ProgPage
  <2>1. j \in 0 .. Final(m)
    BY <1>2, FinalNat
  <2>2. j \in 1 .. Len(m.args) /\ m.cmd = ProgPage
    BY <1>1, <1>2, <2>1, InPhase
  <2> QED BY <1>2, <2>2, PageShape
<1>4. /\ b = m.args[j] /\ need = 3 - j + 1 /\ cmd = m.cmd
      /\ args' = SubSeq(m.args, 1, j) /\ args' \in Seq(Cell)
      /\ j = 3 => args' = m.args /\ HeaderSize = Size(m) /\ b = Mem(m)
  <2>1. /\ Send(m)[j + 1] = m.args[j] /\ need = 3 - j + 1 /\ cmd = m.cmd
        /\ Append(args, m.args[j]) = SubSeq(m.args, 1, j) /\ Append(args, m.args[j]) \in Seq(Cell)
        /\ j = 3 => Append(args, m.args[j]) = m.args /\ HeaderSize = Size(m) /\ m.args[j] = Mem(m)
    BY <1>2, <1>3, HeaderByte, Zenon
  <2>2. args' = Append(args, b) /\ b = m.args[j]
    BY <1>1, <1>2, <2>1, Zenon
  <2> QED BY <2>1, <2>2, Zenon
<1>5. /\ Len(m.args) = 3 /\ Len(m.data) = Size(m) /\ Mem(m) \in Cell
      /\ Size(m) \in Nat \ {0} /\ Size(m) <= PageBuf /\ Size(m) \in Word
  BY <1>2, <1>3, PageShape
<1>6. Final(m) = 3 + Size(m) + 1
  BY <1>5 DEF Final
<1>7. CASE j < 3
  <2>1. need > 1 /\ need - 1 = 3 - (j + 1) + 1 /\ j + 1 - 1 = j /\ need - 1 \in 0 .. 20 /\ j + 1 # 0
        /\ ~(j + 1 > 3) /\ j + 1 # Final(m)
    <3>1. need = 3 - j + 1 /\ j \in 1 .. 2
      BY <1>3, <1>4, <1>7
    <3>2. PICK n : n = Size(m)
      OBVIOUS
    <3>3. Final(m) = 3 + n + 1 /\ n \in Nat
      BY <1>5, <1>6, <3>2
    <3> QED BY <3>1, <3>3
  <2>2. InStep(m, j + 1)'
    <3>1. ProgPage # ReadPage
      BY DEF ProgPage, ReadPage
    <3>2. ASSUME j + 1 \in 1 .. Len(m.args)
          PROVE  /\ st' = (CASE m.cmd = ProgPage -> "progHeader" [] m.cmd = ReadPage -> "readHeader" [] OTHER -> "args")
                 /\ cmd' = m.cmd /\ args' = SubSeq(m.args, 1, j + 1 - 1) /\ need' = Len(m.args) - (j + 1) + 1
      BY <1>1, <1>3, <1>4, <1>5, <2>1, <3>1
    <3>3. j + 1 # 0 /\ ~(j + 1 > Len(m.args)) /\ j + 1 # Final(m)
      BY <1>5, <2>1
    <3>4. j \in Nat /\ Len(m.args) \in Nat
      BY <1>2, <1>5
    <3> QED BY <3>2, <3>3, <3>4 DEF InStep
  <2>3. ParserTypes'
    BY <1>1, <1>4, <2>1 DEF ParserTypes
  <2> QED BY <1>1, <1>2, <2>2, <2>3, TakeMoves
<1>8. CASE j = 3
  <2>1. ~(need > 1) /\ HeaderSize \in 1 .. PageBuf /\ ~(HeaderSize > PageBuf) /\ need - 1 \in 0 .. 20
    BY <1>4, <1>5, <1>8, StkAssumption
  <2>2. /\ size' = Size(m) /\ mem' = Mem(m) /\ fill' = 0 /\ st' = "data" /\ args' = m.args /\ cmd' = m.cmd
    BY <1>1, <1>4, <1>8, <2>1
  <2>3. 4 # 0 /\ ~(4 \in 1 .. 3) /\ 4 < Final(m) /\ 4 # Final(m) /\ 0 = 4 - 3 - 1 /\ 3 + 1 = 4
    BY <1>5, <1>6
  <2>4. \A i \in 1 .. fill' : page'[i - 1] = m.data[i]
    BY <2>2
  <2>5. InStep(m, 4)'
    BY <1>5, <2>2, <2>3, <2>4 DEF InStep
  <2>6. InStep(m, j + 1)'
    BY <1>8, <2>3, <2>5
  <2>7. 0 \in 0 .. PageBuf
    BY StkAssumption
  <2>8. ParserTypes'
    BY <1>1, <1>4, <1>5, <2>1, <2>2, <2>7 DEF ParserTypes
  <2> QED BY <1>1, <1>2, <2>6, <2>8, TakeMoves
<1> QED BY <1>3, <1>7, <1>8

LEMMA PayloadTaken ==
  ASSUME PipeInv, Conversation, ParserTypes, step \in 0 .. Len(Script),
         TakePayload, UNCHANGED <<toSend, got, step>>
  PROVE  PipeInv' /\ Conversation' /\ ParserTypes' /\ Incoming # <<>> /\ Incoming' # <<>>
<1>1. PICK b \in Cell :
        /\ Pop(b) /\ st = "data" /\ page' = [page EXCEPT ![fill] = b] /\ fill' = fill + 1
        /\ IF fill + 1 >= size THEN cmd' = FinalisePage /\ st' = "eop" ELSE UNCHANGED <<cmd, st>>
        /\ UNCHANGED <<cpu, ret, trnIrq, rxBuf, outNak, outTrn, rxCnt, txVars, nvmVars,
                       addr, args, need, size, mem, reply, leaving>>
  BY DEF TakePayload, LastPayload, Cell
<1>2. PICK m, j : /\ m = Script[step] /\ Allowed(m) /\ j \in Nat /\ j \in 0 .. Final(m) - 1
                  /\ Asking(j) /\ InStep(m, j) /\ b = Send(m)[j + 1]
  BY <1>1, Taken
<1>3. j \in Len(m.args) + 1 .. Final(m) - 1 /\ m.cmd = ProgPage
  <2>1. j \in 0 .. Final(m)
    BY <1>2, FinalNat
  <2> QED BY <1>1, <1>2, <2>1, InPhase
<1>4. /\ Len(m.args) = 3 /\ Len(m.data) = Size(m)
      /\ Size(m) \in Nat \ {0} /\ Size(m) <= PageBuf
  BY <1>2, <1>3, PageShape
<1>5. Final(m) = 3 + Size(m) + 1
  BY <1>4 DEF Final
<1>6. j \in 4 .. Size(m) + 3
  BY <1>3, <1>4, <1>5
<1>7. /\ fill = j - 3 - 1 /\ args = m.args /\ size = Size(m) /\ mem = Mem(m) /\ cmd = m.cmd
      /\ \A i \in 1 .. fill : page[i - 1] = m.data[i]
  <2>1. j > 3 /\ j # 0 /\ j < Final(m)
    BY <1>4, <1>5, <1>6
  <2> QED BY <1>2, <1>3, <1>4, <2>1 DEF InStep
<1>8. b = m.data[j - 3] /\ b \in Cell
  <2>1. \A i \in 1 .. Len(m.data) : Send(m)[Len(m.args) + i + 1] = m.data[i]
    BY <1>2, MessageBytes
  <2>2. j - 3 \in 1 .. Size(m) /\ 3 + (j - 3) + 1 = j + 1
    BY <1>4, <1>6
  <2>3. Send(m)[3 + (j - 3) + 1] = m.data[j - 3]
    BY <1>4, <2>1, <2>2
  <2> QED BY <1>1, <1>2, <2>2, <2>3
<1>9. /\ fill \in 0 .. PageBuf - 1 /\ fill + 1 = j + 1 - 3 - 1 /\ fill + 1 = j - 3 /\ fill + 1 \in 0 .. PageBuf
      /\ fill + 1 >= size <=> j + 1 = Final(m)
  BY <1>4, <1>5, <1>6, <1>7, StkAssumption
<1>10. page' \in [0 .. PageBuf - 1 -> Cell] /\ \A i \in 1 .. fill' : page'[i - 1] = m.data[i]
  <2>1. page \in [0 .. PageBuf - 1 -> Cell]
    BY DEF ParserTypes
  <2>2. page' \in [0 .. PageBuf - 1 -> Cell] /\ page'[fill] = b
        /\ \A c \in 0 .. PageBuf - 1 : c # fill => page'[c] = page[c]
    BY <1>1, <1>8, <1>9, <2>1
  <2>3. \A i \in 1 .. fill + 1 : page'[i - 1] = m.data[i]
    <3> SUFFICES ASSUME NEW i \in 1 .. fill + 1 PROVE page'[i - 1] = m.data[i]
      OBVIOUS
    <3>1. CASE i = fill + 1
      <4>1. i - 1 = fill /\ i = j - 3
        BY <1>9, <3>1
      <4> QED BY <1>8, <2>2, <4>1
    <3>2. CASE i # fill + 1
      <4>1. i \in 1 .. fill /\ i - 1 \in 0 .. PageBuf - 1 /\ i - 1 # fill
        BY <1>9, <3>2, StkAssumption
      <4> QED BY <1>7, <2>2, <4>1
    <3> QED BY <3>1, <3>2
  <2> QED BY <1>1, <2>2, <2>3
<1>11. InStep(m, j + 1)'
  <2>1. /\ j + 1 # 0 /\ ~(j + 1 \in 1 .. Len(m.args)) /\ j + 1 > Len(m.args) /\ j \in Nat /\ Len(m.args) \in Nat
        /\ Final(m) \in Nat /\ j + 1 <= Final(m)
    BY <1>4, <1>5, <1>6
  <2>2. /\ size' = Size(m) /\ mem' = Mem(m) /\ args' = m.args /\ fill' = j + 1 - Len(m.args) - 1
    BY <1>1, <1>4, <1>7, <1>9
  <2>3. ASSUME j + 1 < Final(m)
        PROVE  st' = "data" /\ cmd' = m.cmd
    BY <1>1, <1>7, <1>9, <2>1, <2>3
  <2>4. ASSUME j + 1 = Final(m)
        PROVE  st' = "eop" /\ args' = m.args /\ cmd' = Executed(m)
    <3>1. Executed(m) = FinalisePage
      BY <1>3 DEF Executed, ProgPage, ReadPage
    <3> QED BY <1>1, <1>9, <2>2, <2>4, <3>1
  <2> QED BY <1>10, <2>1, <2>2, <2>3, <2>4 DEF InStep
<1>12. PipeInv' /\ Conversation' /\ Incoming # <<>> /\ Incoming' # <<>>
  BY <1>1, <1>2, <1>11, TakeMoves
<1>13. ParserTypes'
  <2>1. st' \in {"data", "eop"} /\ cmd' \in Cell /\ fill' \in 0 .. PageBuf
    <3>1. FinalisePage \in Cell
      BY DEF FinalisePage, Cell
    <3> QED BY <1>1, <1>9, <3>1 DEF ParserTypes
  <2> QED BY <1>1, <1>10, <2>1 DEF ParserTypes
<1> QED BY <1>12, <1>13

LEMMA ReadHeaderTaken ==
  ASSUME PipeInv, Conversation, ParserTypes, step \in 0 .. Len(Script),
         TakeReadHeader, UNCHANGED <<toSend, got, step>>
  PROVE  PipeInv' /\ Conversation' /\ ParserTypes' /\ Incoming # <<>> /\ Incoming' # <<>>
<1>1. PICK b \in Cell :
        /\ Pop(b) /\ st = "readHeader" /\ args' = Append(args, b) /\ need' = need - 1
        /\ IF need > 1
           THEN UNCHANGED <<st, size, mem, cmd>>
           ELSE /\ size' = HeaderSize /\ mem' = b /\ st' = "eop"
                /\ cmd' = (IF HeaderSize > PageBuf THEN cmd ELSE EmitPage)
        /\ UNCHANGED <<cpu, ret, trnIrq, rxBuf, outNak, outTrn, rxCnt, txVars, nvmVars,
                       addr, page, fill, reply, leaving>>
  BY DEF TakeReadHeader, Cell
<1>2. PICK m, j : /\ m = Script[step] /\ Allowed(m) /\ j \in Nat /\ j \in 0 .. Final(m) - 1
                  /\ Asking(j) /\ InStep(m, j) /\ b = Send(m)[j + 1]
  BY <1>1, Taken
<1>3. j \in 1 .. 3 /\ m.cmd = ReadPage
  <2>1. j \in 0 .. Final(m)
    BY <1>2, FinalNat
  <2>2. j \in 1 .. Len(m.args) /\ m.cmd = ReadPage
    BY <1>1, <1>2, <2>1, InPhase
  <2> QED BY <1>2, <2>2, PageShape
<1>4. /\ b = m.args[j] /\ need = 3 - j + 1 /\ cmd = m.cmd
      /\ args' = SubSeq(m.args, 1, j) /\ args' \in Seq(Cell)
      /\ j = 3 => args' = m.args /\ HeaderSize = Size(m) /\ b = Mem(m)
  <2>1. /\ Send(m)[j + 1] = m.args[j] /\ need = 3 - j + 1 /\ cmd = m.cmd
        /\ Append(args, m.args[j]) = SubSeq(m.args, 1, j) /\ Append(args, m.args[j]) \in Seq(Cell)
        /\ j = 3 => Append(args, m.args[j]) = m.args /\ HeaderSize = Size(m) /\ m.args[j] = Mem(m)
    BY <1>2, <1>3, HeaderByte, Zenon
  <2>2. args' = Append(args, b) /\ b = m.args[j]
    BY <1>1, <1>2, <2>1, Zenon
  <2> QED BY <2>1, <2>2, Zenon
<1>5. /\ Len(m.args) = 3 /\ Mem(m) \in Cell
      /\ Size(m) \in Nat \ {0} /\ Size(m) <= PageBuf /\ Size(m) \in Word
  BY <1>2, <1>3, PageShape
<1>0. ProgPage # ReadPage
  BY DEF ProgPage, ReadPage
<1>6. Final(m) = 3 + 0 + 1
  <2>1. Len(m.data) = 0
    BY <1>0, <1>2, <1>3, MessageShape
  <2> QED BY <1>5, <2>1 DEF Final
<1>7. CASE j < 3
  <2>1. need > 1 /\ need - 1 = 3 - (j + 1) + 1 /\ j + 1 - 1 = j /\ need - 1 \in 0 .. 20 /\ j + 1 # 0
        /\ ~(j + 1 > 3) /\ j + 1 # Final(m)
    <3>1. need = 3 - j + 1 /\ j \in 1 .. 2
      BY <1>3, <1>4, <1>7
    <3> QED BY <1>6, <3>1
  <2>2. InStep(m, j + 1)'
    <3>1. ASSUME j + 1 \in 1 .. Len(m.args)
          PROVE  /\ st' = (CASE m.cmd = ProgPage -> "progHeader" [] m.cmd = ReadPage -> "readHeader" [] OTHER -> "args")
                 /\ cmd' = m.cmd /\ args' = SubSeq(m.args, 1, j + 1 - 1) /\ need' = Len(m.args) - (j + 1) + 1
      BY <1>0, <1>1, <1>3, <1>4, <1>5, <2>1
    <3>2. j + 1 # 0 /\ ~(j + 1 > Len(m.args)) /\ j + 1 # Final(m)
      BY <1>5, <2>1
    <3>3. j \in Nat /\ Len(m.args) \in Nat
      BY <1>2, <1>5
    <3> QED BY <3>1, <3>2, <3>3 DEF InStep
  <2>3. ParserTypes'
    BY <1>1, <1>4, <2>1 DEF ParserTypes
  <2> QED BY <1>1, <1>2, <2>2, <2>3, TakeMoves
<1>8. CASE j = 3
  <2>1. ~(need > 1) /\ ~(HeaderSize > PageBuf) /\ need - 1 \in 0 .. 20
    BY <1>4, <1>5, <1>8, StkAssumption
  <2>2. Executed(m) = EmitPage
    BY <1>0, <1>3 DEF Executed
  <2>3. /\ size' = Size(m) /\ mem' = Mem(m) /\ st' = "eop" /\ args' = m.args /\ cmd' = Executed(m)
    BY <1>1, <1>4, <1>8, <2>1, <2>2
  <2>4. 4 # 0 /\ ~(4 \in 1 .. 3) /\ 4 = Final(m) /\ ~(4 < Final(m)) /\ 3 + 1 = 4
    BY <1>6
  <2>5. InStep(m, 4)'
    BY <1>0, <1>3, <1>5, <2>3, <2>4 DEF InStep
  <2>6. InStep(m, j + 1)'
    BY <1>8, <2>4, <2>5
  <2>7. EmitPage \in Cell
    BY DEF EmitPage, Cell
  <2>8. ParserTypes'
    BY <1>1, <1>4, <1>5, <2>1, <2>2, <2>3, <2>7 DEF ParserTypes
  <2> QED BY <1>1, <1>2, <2>6, <2>8, TakeMoves
<1> QED BY <1>3, <1>7, <1>8

-----------------------------------------------------------------------------
(* Pages.                                                                  *)

\* The cells of a page are the NvmPage cells from its start.
LEMMA PageCells ==
  ASSUME NEW a \in Nat, a % NvmPage = 0
  PROVE  \A c \in Nat : Page(c) = Page(a) <=> a <= c /\ c < a + NvmPage
<1>1. NvmPage \in Nat \ {0}
  BY NvmAssumption
<1>2. PICK q \in Nat : a = q * NvmPage /\ Page(a) = q
  <2>1. a \div NvmPage \in Nat /\ a = (a \div NvmPage) * NvmPage
    BY <1>1
  <2> QED BY <2>1 DEF Page
<1>3. SUFFICES ASSUME NEW c \in Nat PROVE Page(c) = Page(a) <=> a <= c /\ c < a + NvmPage
  OBVIOUS
<1>4. PICK r \in Nat : r * NvmPage <= c /\ c < r * NvmPage + NvmPage /\ Page(c) = r
  <2>1. c \div NvmPage \in Nat
    BY <1>1
  <2>2. (c \div NvmPage) * NvmPage <= c /\ c < (c \div NvmPage) * NvmPage + NvmPage
    BY <1>1
  <2> QED BY <2>1, <2>2 DEF Page
<1>5. r = q => a <= c /\ c < a + NvmPage
  BY <1>1, <1>2, <1>4
<1>6. r < q => c < a
  <2>1. r < q => r * NvmPage + NvmPage <= q * NvmPage
    <3> SUFFICES ASSUME r < q PROVE r * NvmPage + NvmPage <= q * NvmPage
      OBVIOUS
    <3>1. PICK d \in Nat : q = r + 1 + d
      <4>1. q - r - 1 \in Nat /\ q = r + 1 + (q - r - 1)
        OBVIOUS
      <4> QED BY <4>1
    <3>2. q * NvmPage = r * NvmPage + NvmPage + d * NvmPage /\ d * NvmPage \in Nat /\ r * NvmPage \in Nat
      BY <1>1, <3>1
    <3> QED BY <1>1, <3>2
  <2>2. r * NvmPage \in Nat /\ q * NvmPage \in Nat
    BY <1>1
  <2> QED BY <1>1, <1>2, <1>4, <2>1, <2>2
<1>7. r > q => c >= a + NvmPage
  <2>1. r > q => q * NvmPage + NvmPage <= r * NvmPage
    <3> SUFFICES ASSUME r > q PROVE q * NvmPage + NvmPage <= r * NvmPage
      OBVIOUS
    <3>1. PICK d \in Nat : r = q + 1 + d
      <4>1. r - q - 1 \in Nat /\ r = q + 1 + (r - q - 1)
        OBVIOUS
      <4> QED BY <4>1
    <3>2. r * NvmPage = q * NvmPage + NvmPage + d * NvmPage /\ d * NvmPage \in Nat /\ q * NvmPage \in Nat
      BY <1>1, <3>1
    <3> QED BY <1>1, <3>2
  <2>2. r * NvmPage \in Nat /\ q * NvmPage \in Nat
    BY <1>1
  <2> QED BY <1>1, <1>2, <1>4, <2>1, <2>2
<1> QED BY <1>1, <1>2, <1>4, <1>5, <1>6, <1>7

\* A page that begins in the flash ends in it, and has no cell of another page.
LEMMA PageFits ==
  ASSUME NEW a \in Nat, a % NvmPage = 0, a < FlashEnd
  PROVE  /\ a + NvmPage <= FlashEnd
         /\ \A b \in Nat : b % NvmPage = 0 /\ a # b => b >= a + NvmPage \/ a >= b + NvmPage
<1>1. NvmPage \in Nat \ {0} /\ FlashEnd \in Nat /\ FlashEnd % NvmPage = 0
  BY NvmAssumption
<1>2. \A b \in Nat : b % NvmPage = 0 /\ a # b => b >= a + NvmPage \/ a >= b + NvmPage
  <2> SUFFICES ASSUME NEW b \in Nat, b % NvmPage = 0, a # b PROVE b >= a + NvmPage \/ a >= b + NvmPage
    OBVIOUS
  <2>1. Page(b) = Page(a) <=> a <= b /\ b < a + NvmPage
    BY PageCells
  <2>2. Page(a) = Page(b) <=> b <= a /\ a < b + NvmPage
    BY PageCells
  <2> QED BY <1>1, <2>1, <2>2
<1>3. FlashEnd >= a + NvmPage \/ a >= FlashEnd + NvmPage
  <2>1. a # FlashEnd
    BY <1>1
  <2> QED BY <1>1, <1>2, <2>1
<1> QED BY <1>1, <1>2, <1>3

\* The pointer for an address of the flash points at its cell.
LEMMA MappedIs == ASSUME NEW a \in Nat, a < FlashEnd PROVE Mapped(a) = a
<1>1. Window \in Nat \ {0} /\ FlashEnd = 2 * Window
  BY NvmAssumption
<1>2. CASE a < Window
  <2>1. a % Window = a
    BY <1>1, <1>2
  <2> QED BY <1>1, <1>2, <2>1 DEF Mapped
<1>3. CASE a >= Window
  <2>1. a % Window = a - Window
    BY <1>1, <1>3
  <2> QED BY <1>1, <1>3, <2>1 DEF Mapped
<1> QED BY <1>1, <1>2, <1>3

-----------------------------------------------------------------------------
(* What is in memory.                                                      *)

\* The parser has the address of the last LOAD_ADDRESS.
Loaded(k) ==
  k > 0 /\ Script[k].cmd = LoadAddress => addr = Script[k].args[1] + 256 * Script[k].args[2]

AddrInv ==
  step > 0 => IF Incoming = <<>> /\ Script[step].cmd = LoadAddress THEN Loaded(step) ELSE Loaded(step - 1)

StoredAt(k) ==
  /\ Programs(k, FlashMem) /\ Address(k) >= AppStart =>
       \A i \in 1 .. Len(Script[k].data) : flash[Address(k) + i - 1] = Script[k].data[i]
  /\ Programs(k, EepromMem) =>
       \A i \in 1 .. Len(Script[k].data) : eeprom[Address(k) + i - 1] = Script[k].data[i]

\* The writer works on the page command of the message; the cells before at are
\* written and, of a page of the flash, the others still erased.
WriterInv ==
  Writing =>
    /\ step \in 1 .. Len(Script) /\ Incoming = <<>> /\ Script[step].cmd = ProgPage
    /\ mem = Mem(Script[step]) /\ size = Len(Script[step].data)
    /\ \A i \in 1 .. size : page[i - 1] = Script[step].data[i]
    /\ at \in 0 .. size + 1 /\ (cpu = "erase" => at = 0)
    /\ cpu = "eeprom" =>
         /\ mem \in EepromMem /\ at <= size
         /\ \A i \in 1 .. at : eeprom[addr + i - 1] = page[i - 1]
    /\ cpu \in {"erase", "word"} => mem \in FlashMem /\ addr >= AppStart
    /\ cpu = "word" =>
         /\ at % 2 = 0
         /\ \A i \in 1 .. size : i <= at => flash[addr + i - 1] = page[i - 1]
         /\ \A i \in 1 .. NvmPage : i > at => flash[addr + i - 1] = Erased

StoredInv ==
  /\ \A k \in 1 .. step - 1 : StoredAt(k)
  /\ step > 0 /\ Incoming = <<>> /\ ~Writing => StoredAt(step)

MemoryTypes ==
  /\ flash \in [0 .. FlashEnd - 1 -> Cell] /\ eeprom \in [0 .. EepromSize - 1 -> Cell]
  /\ at \in 0 .. PageBuf + 1

MemoryInv == AddrInv /\ WriterInv /\ StoredInv

\* A step that leaves the memory and the writer alone.
LEMMA MemoryFrame ==
  ASSUME MemoryInv, UNCHANGED <<step, addr, flash, eeprom>>,
         Incoming' = <<>> <=> Incoming = <<>>,
         (~Writing /\ ~Writing') \/ UNCHANGED <<cpu, at, size, mem, page>>
  PROVE  MemoryInv'
<1>1. AddrInv'
  BY DEF MemoryInv, AddrInv, Loaded
<1>2. WriterInv'
  <2>1. CASE ~Writing'
    BY <2>1 DEF WriterInv
  <2>2. CASE UNCHANGED <<cpu, at, size, mem, page>>
    BY <2>2 DEF MemoryInv, WriterInv, Writing
  <2> QED BY <2>1, <2>2
<1>3. Writing' <=> Writing
  BY DEF Writing
<1>4. \A k : StoredAt(k)' <=> StoredAt(k)
  BY DEF StoredAt, Programs, Address, Mem
<1>5. StoredInv'
  BY <1>3, <1>4 DEF MemoryInv, StoredInv
<1> QED BY <1>1, <1>2, <1>5 DEF MemoryInv

\* A page command: the address it is about, and what it names.
LEMMA PageCommand ==
  ASSUME MemoryInv, NEW k \in 1 .. Len(Script), step = k, Script[k].cmd \in {ProgPage, ReadPage}
  PROVE  /\ addr = Address(k) /\ addr \in Word
         /\ Allowed(Script[k]) /\ k > 1
<1>1. Len(Script) \in Nat /\ Allowed(Script[k]) /\ k > 1 /\ Script[k - 1].cmd = LoadAddress
  BY ScriptMessage
<1>2. k - 1 \in 1 .. Len(Script)
  BY <1>1
<1>3. Script[k].cmd # LoadAddress
  BY DEF ProgPage, ReadPage, LoadAddress
<1>4. Loaded(k - 1)
  BY <1>1, <1>3 DEF MemoryInv, AddrInv
<1>5. addr = Address(k)
  BY <1>1, <1>2, <1>4 DEF Loaded, Address
<1>6. Script[k - 1].args[1] \in Cell /\ Script[k - 1].args[2] \in Cell
  BY <1>1, <1>2, ScriptMessage, LoadShape
<1>7. addr \in Word
  <2>1. PICK p, q : p = Script[k - 1].args[1] /\ q = Script[k - 1].args[2]
    OBVIOUS
  <2>2. p \in Cell /\ q \in Cell
    BY <1>6, <2>1
  <2>3. p + 256 * q \in Word
    BY <2>2, WordOf
  <2>4. addr = p + 256 * q
    BY <1>5, <2>1 DEF Address
  <2> QED BY <2>3, <2>4
<1> QED BY <1>1, <1>5, <1>7

-----------------------------------------------------------------------------
(* A message is executed.                                                  *)

LEMMA Ended ==
  ASSUME PipeInv, Conversation, step \in 0 .. Len(Script), NEW b, Terminator(b), UNCHANGED toSend
  PROVE  /\ b = Eop /\ ~leaving /\ got = <<>> /\ Outgoing = <<>> /\ Incoming # <<>> /\ Incoming' = <<>>
         /\ step \in 1 .. Len(Script)
         /\ cmd = Executed(Script[step]) /\ args = Script[step].args
         /\ Script[step].cmd \in {ProgPage, ReadPage} => size = Size(Script[step]) /\ mem = Mem(Script[step])
         /\ Script[step].cmd = ProgPage =>
              size = Len(Script[step].data) /\ \A i \in 1 .. size : page[i - 1] = Script[step].data[i]
<1>1. Pop(b) /\ st = "eop" /\ UNCHANGED <<rxBuf, outNak, outTrn, rxCnt, toSend>>
  BY DEF Terminator
<1>2. /\ step \in 1 .. Len(Script) /\ Allowed(Script[step]) /\ Incoming # <<>> /\ b \in Cell
      /\ \E j \in Nat :
           /\ Asking(j) /\ b = Send(Script[step])[j + 1]
           /\ Incoming' = <<>> <=> j = Final(Script[step])
  BY <1>1, PoppedByte
<1>3. PICK m : m = Script[step]
  OBVIOUS
<1>4. PICK j \in Nat : Asking(j) /\ b = Send(m)[j + 1] /\ (Incoming' = <<>> <=> j = Final(m))
  BY <1>2, <1>3
<1>5. j \in 0 .. Final(m) /\ InStep(m, j) /\ ~leaving /\ got = <<>> /\ Outgoing = <<>>
  BY <1>3, <1>4 DEF Asking
<1>6. j = Final(m)
  BY <1>1, <1>2, <1>3, <1>5, InPhase
<1>7. b = Eop /\ Incoming' = <<>>
  BY <1>2, <1>3, <1>4, <1>6, MessageBytes
<1>8. cmd = Executed(m) /\ args = m.args
  BY <1>5, <1>6 DEF InStep
<1>9. Len(m.args) \in Nat /\ Len(m.data) \in Nat /\ Final(m) = Len(m.args) + Len(m.data) + 1
  BY <1>2, <1>3, MessageBytes DEF Final
<1>10. j > Len(m.args) /\ j - Len(m.args) - 1 = Len(m.data)
  <2>1. PICK x, y : x = Len(m.args) /\ y = Len(m.data)
    OBVIOUS
  <2>2. x \in Nat /\ y \in Nat /\ j = x + y + 1
    BY <1>6, <1>9, <2>1
  <2>3. j > x /\ j - x - 1 = y
    BY <2>2
  <2> QED BY <2>1, <2>3
<1>11. m.cmd \in {ProgPage, ReadPage} => size = Size(m) /\ mem = Mem(m)
  BY <1>5, <1>10 DEF InStep
<1>12. m.cmd = ProgPage => size = Len(m.data) /\ \A i \in 1 .. size : page[i - 1] = m.data[i]
  <2> SUFFICES ASSUME m.cmd = ProgPage
               PROVE  size = Len(m.data) /\ \A i \in 1 .. size : page[i - 1] = m.data[i]
    OBVIOUS
  <2>1. Len(m.data) = Size(m)
    BY <1>2, <1>3, PageShape
  <2>2. fill = Len(m.data) /\ \A i \in 1 .. fill : page[i - 1] = m.data[i]
    BY <1>5, <1>10 DEF InStep
  <2> QED BY <1>11, <2>1, <2>2
<1> QED BY <1>2, <1>3, <1>5, <1>7, <1>8, <1>11, <1>12

\* The answer is the one the programmer expects.
LEMMA EndMoves ==
  ASSUME PipeInv, Conversation, step \in 0 .. Len(Script), NEW b, Terminator(b), UNCHANGED <<toSend, got, step>>,
         reply' = Script[step].expect, leaving' \in BOOLEAN, leaving' <=> step = Len(Script),
         cpu' \in {"put", "erase", "word", "eeprom"}
  PROVE  PipeInv' /\ Conversation'
<1>1. ~leaving /\ got = <<>> /\ Outgoing = <<>> /\ Incoming' = <<>> /\ step \in 1 .. Len(Script)
  BY Ended
<1>2. reply' \in Seq(Cell) /\ reply' # <<>>
  BY <1>1, ExpectCells
<1>3. Pop(b) /\ UNCHANGED <<ret, trnIrq, rxBuf, outNak, outTrn, rxCnt, txVars, toSend, got>> /\ st' = "idle"
  BY DEF Terminator
<1>4. PipeInv' /\ Outgoing' = reply'
  BY <1>1, <1>2, <1>3, AnswerKeeps
<1>5. got' \o Outgoing' = Script[step].expect
  BY <1>1, <1>2, <1>4, ConcatEmptySeq
<1>6. Answering'
  BY <1>1, <1>3, <1>5 DEF Answering
<1> QED BY <1>4, <1>6 DEF Conversation

\* The command the parser kept, and the one of the message.
LEMMA ExecutedIs ==
  ASSUME NEW m, Allowed(m)
  PROVE  /\ Executed(m) \in Cell
         /\ Executed(m) = FinalisePage <=> m.cmd = ProgPage
         /\ Executed(m) = EmitPage <=> m.cmd = ReadPage
         /\ Executed(m) \notin {FinalisePage, EmitPage} => Executed(m) = m.cmd
<1>1. m.cmd \notin {FinalisePage, EmitPage} /\ m.cmd \in Cell
  BY MessageShape, MessageBytes
<1>2. ProgPage # ReadPage /\ FinalisePage # EmitPage /\ FinalisePage \in Cell /\ EmitPage \in Cell
  BY DEF ProgPage, ReadPage, FinalisePage, EmitPage, Cell
<1>3. m.cmd = ProgPage => Executed(m) = FinalisePage
  BY <1>2 DEF Executed
<1>4. m.cmd = ReadPage => Executed(m) = EmitPage
  BY <1>2 DEF Executed
<1>5. m.cmd \notin {ProgPage, ReadPage} => Executed(m) = m.cmd
  BY DEF Executed
<1> QED BY <1>1, <1>2, <1>3, <1>4, <1>5

\* A command that stores nothing and keeps the address, or loads it.
LEMMA EndMemory ==
  ASSUME PipeInv, Conversation, MemoryInv, step \in 0 .. Len(Script), NEW b, Terminator(b),
         UNCHANGED <<toSend, step, flash, eeprom>>, cpu' = "put",
         Script[step].cmd # ProgPage,
         IF Script[step].cmd = LoadAddress
         THEN addr' = Script[step].args[1] + 256 * Script[step].args[2]
         ELSE addr' = addr
  PROVE  MemoryInv'
<1>1. Incoming # <<>> /\ Incoming' = <<>> /\ step \in 1 .. Len(Script)
  BY Ended
<1>2. WriterInv' /\ ~Writing'
  BY DEF WriterInv, Writing
<1>3. AddrInv'
  <2>1. CASE Script[step].cmd = LoadAddress
    BY <1>1, <2>1 DEF AddrInv, Loaded
  <2>2. CASE Script[step].cmd # LoadAddress
    <3>1. Loaded(step - 1)
      BY <1>1 DEF MemoryInv, AddrInv
    <3> QED BY <1>1, <2>2, <3>1 DEF AddrInv, Loaded
  <2> QED BY <2>1, <2>2
<1>4. \A k : StoredAt(k)' <=> StoredAt(k)
  BY DEF StoredAt, Programs, Address, Mem
<1>5. StoredAt(step)
  BY DEF StoredAt, Programs
<1>6. StoredInv'
  BY <1>4, <1>5 DEF MemoryInv, StoredInv
<1> QED BY <1>2, <1>3, <1>6 DEF MemoryInv

\* The types of the parser after a terminator.
LEMMA EndTypes ==
  ASSUME ParserTypes, MemoryTypes, NEW b, Terminator(b), UNCHANGED <<flash, eeprom>>,
         addr' \in Word, at' \in {0, at}
  PROVE  ParserTypes' /\ MemoryTypes'
<1>1. st' = "idle" /\ UNCHANGED <<cmd, args, need, size, mem, page, fill>>
  BY DEF Terminator
<1>2. 0 \in 0 .. PageBuf + 1
  BY StkAssumption
<1> QED BY <1>1, <1>2 DEF ParserTypes, MemoryTypes

LEMMA RefuseStep ==
  ASSUME PipeInv, Conversation, ParserTypes, MemoryTypes, MemoryInv, step \in 0 .. Len(Script),
         Refuse, UNCHANGED <<toSend, got, step>>
  PROVE  PipeInv' /\ Conversation' /\ ParserTypes' /\ MemoryTypes' /\ MemoryInv'
<1>1. PICK b : /\ Terminator(b) /\ reply' = <<Nosync>> /\ cpu' = "put"
               /\ b # Eop \/ cmd \notin Plain \cup Answered \cup {LoadAddress, LeaveProgmode, FinalisePage, EmitPage}
               /\ UNCHANGED <<flash, eeprom, at, addr, leaving>>
  BY DEF Refuse, Answer, nvmVars
<1>2. PICK m, c : m = Script[step] /\ c = m.cmd
  OBVIOUS
<1>3. b = Eop /\ ~leaving /\ step \in 1 .. Len(Script) /\ cmd = Executed(m)
  BY <1>1, <1>2, Ended
<1>4. Allowed(m) /\ (c = LeaveProgmode <=> step = Len(Script))
  BY <1>2, <1>3, ScriptMessage
<1>5. c \notin Plain \cup {LoadAddress, ProgPage, LeaveProgmode} /\ c \notin Answered /\ c # ReadPage
  <2>1. cmd \notin {FinalisePage, EmitPage}
    BY <1>1, <1>3
  <2>2. c = cmd /\ c \notin {ProgPage, ReadPage}
    BY <1>2, <1>3, <1>4, <2>1, ExecutedIs
  <2> QED BY <1>1, <1>3, <2>2
<1>6. reply' = Script[step].expect
  BY <1>1, <1>2, <1>3, <1>5, Expected
<1>7. leaving' \in BOOLEAN /\ (leaving' <=> step = Len(Script))
  <2>1. leaving \in BOOLEAN /\ leaving' = leaving
    BY <1>1 DEF PipeInv, PipeShape
  <2>2. step # Len(Script)
    BY <1>4, <1>5
  <2> QED BY <1>3, <2>1, <2>2
<1>8. PipeInv' /\ Conversation'
  BY <1>1, <1>6, <1>7, EndMoves
<1>9. MemoryInv'
  BY <1>1, <1>2, <1>5, EndMemory
<1>10. ParserTypes' /\ MemoryTypes'
  <2>1. addr' \in Word
    BY <1>1 DEF ParserTypes
  <2> QED BY <1>1, <2>1, EndTypes
<1> QED BY <1>8, <1>9, <1>10

LEMMA AcknowledgeStep ==
  ASSUME PipeInv, Conversation, ParserTypes, MemoryTypes, MemoryInv, step \in 0 .. Len(Script),
         Acknowledge, UNCHANGED <<toSend, got, step>>
  PROVE  PipeInv' /\ Conversation' /\ ParserTypes' /\ MemoryTypes' /\ MemoryInv'
<1>1. /\ Terminator(Eop) /\ cmd \in Plain \cup Answered \cup {LeaveProgmode} /\ cpu' = "put"
      /\ reply' = (IF cmd \in Answered THEN <<Insync>> \o Data(cmd, args) \o <<Ok>> ELSE <<Insync, Ok>>)
      /\ leaving' = (cmd = LeaveProgmode)
      /\ UNCHANGED <<flash, eeprom, at, addr>>
  BY DEF Acknowledge, Answer, nvmVars
<1>2. PICK m, c : m = Script[step] /\ c = m.cmd
  OBVIOUS
<1>3. step \in 1 .. Len(Script) /\ cmd = Executed(m) /\ args = m.args
  BY <1>1, <1>2, Ended
<1>4. Allowed(m) /\ (c = LeaveProgmode <=> step = Len(Script))
  BY <1>2, <1>3, ScriptMessage
<1>5. c = cmd /\ c \notin {ProgPage, LoadAddress}
  <2>1. cmd \notin {FinalisePage, EmitPage, ProgPage, LoadAddress}
    BY <1>1 DEF Plain, Answered, GetSync, GetParameter, LeaveProgmode, FinalisePage, EmitPage, ProgPage, LoadAddress
  <2>2. c = cmd
    BY <1>2, <1>3, <1>4, <2>1, ExecutedIs
  <2> QED BY <2>1, <2>2
<1>6. reply' = Script[step].expect
  <2>1. CASE cmd \in Answered
    BY <1>1, <1>2, <1>3, <1>5, <2>1, Expected
  <2>2. CASE cmd \notin Answered
    BY <1>1, <1>2, <1>3, <1>5, <2>2, Expected
  <2> QED BY <2>1, <2>2
<1>7. leaving' \in BOOLEAN /\ (leaving' <=> step = Len(Script))
  BY <1>1, <1>4, <1>5
<1>8. PipeInv' /\ Conversation'
  BY <1>1, <1>6, <1>7, EndMoves
<1>9. MemoryInv'
  BY <1>1, <1>2, <1>5, EndMemory
<1>10. ParserTypes' /\ MemoryTypes'
  <2>1. addr' \in Word
    BY <1>1 DEF ParserTypes
  <2> QED BY <1>1, <2>1, EndTypes
<1> QED BY <1>8, <1>9, <1>10

LEMMA SetAddressStep ==
  ASSUME PipeInv, Conversation, ParserTypes, MemoryTypes, MemoryInv, step \in 0 .. Len(Script),
         SetAddress, UNCHANGED <<toSend, got, step>>
  PROVE  PipeInv' /\ Conversation' /\ ParserTypes' /\ MemoryTypes' /\ MemoryInv'
<1>1. /\ Terminator(Eop) /\ cmd = LoadAddress /\ addr' = args[1] + 256 * args[2]
      /\ reply' = <<Insync, Ok>> /\ cpu' = "put"
      /\ UNCHANGED <<flash, eeprom, at, leaving>>
  BY DEF SetAddress, LoadedAddress, Answer, nvmVars
<1>2. PICK m, c : m = Script[step] /\ c = m.cmd
  OBVIOUS
<1>3. step \in 1 .. Len(Script) /\ cmd = Executed(m) /\ args = m.args /\ ~leaving
  BY <1>1, <1>2, Ended
<1>4. Allowed(m) /\ (c = LeaveProgmode <=> step = Len(Script))
  BY <1>2, <1>3, ScriptMessage
<1>5. c = LoadAddress /\ c # ProgPage /\ c # LeaveProgmode
  <2>1. cmd \notin {FinalisePage, EmitPage, ProgPage, LeaveProgmode}
    BY <1>1 DEF FinalisePage, EmitPage, ProgPage, LoadAddress, LeaveProgmode
  <2>2. c = cmd
    BY <1>2, <1>3, <1>4, <2>1, ExecutedIs
  <2> QED BY <1>1, <2>1, <2>2
<1>6. reply' = Script[step].expect
  BY <1>1, <1>2, <1>3, <1>5, Expected
<1>7. leaving' \in BOOLEAN /\ (leaving' <=> step = Len(Script))
  <2>1. leaving \in BOOLEAN /\ leaving' = leaving
    BY <1>1 DEF PipeInv, PipeShape
  <2>2. step # Len(Script)
    BY <1>4, <1>5
  <2> QED BY <1>3, <2>1, <2>2
<1>8. PipeInv' /\ Conversation'
  BY <1>1, <1>6, <1>7, EndMoves
<1>9. MemoryInv'
  BY <1>1, <1>2, <1>3, <1>5, EndMemory
<1>10. ParserTypes' /\ MemoryTypes'
  <2>1. PICK p, q : p = args[1] /\ q = args[2]
    OBVIOUS
  <2>2. p \in Cell /\ q \in Cell
    BY <1>2, <1>3, <1>4, <1>5, <2>1, LoadShape
  <2>3. p + 256 * q \in Word
    BY <2>2, WordOf
  <2>4. addr' \in Word
    BY <1>1, <2>1, <2>3
  <2> QED BY <1>1, <2>4, EndTypes
<1> QED BY <1>8, <1>9, <1>10

\* The first values of a sequence, one by one.
LEMMA PartIs ==
  ASSUME NEW s \in Seq(Cell), NEW n \in 0 .. Len(s)
  PROVE  [i \in 1 .. n |-> s[i]] = SubSeq(s, 1, n)
<1>1. n \in Nat /\ Len(s) \in Nat /\ \A i \in 1 .. n : i \in 1 .. Len(s)
  BY CellsLength
<1>2. \A i \in 1 .. n : s[i] \in Cell
  BY <1>1, ElementOfSeq
<1>3. SubSeq(s, 1, n) \in Seq(Cell) /\ Len(SubSeq(s, 1, n)) = n /\ \A i \in 1 .. n : SubSeq(s, 1, n)[i] = s[i]
  BY <1>1, <1>2, CellsOf
<1> DEFINE q == [i \in 1 .. n |-> s[i]]
<1>4. q \in Seq(Cell) /\ Len(q) = n /\ \A i \in 1 .. n : q[i] = s[i]
  <2>1. q \in [1 .. n -> Cell]
    BY <1>2
  <2>2. q \in Seq(Cell) /\ Len(q) = n
    BY <1>1, <2>1
  <2> QED BY <2>2
<1> HIDE DEF q
<1>5. q = SubSeq(s, 1, n)
  BY <1>3, <1>4, SeqEqual
<1> QED BY <1>5 DEF q

\* A message of the script that programs, and the memory it is about.
LEMMA Programming ==
  ASSUME NEW k \in 1 .. Len(Script), NEW mems, Programs(k, mems)
  PROVE  /\ Script[k].cmd = ProgPage /\ Mem(Script[k]) \in mems /\ Allowed(Script[k])
         /\ Script[k].data \in Seq(Cell) /\ Len(Script[k].data) \in Nat \ {0} /\ Len(Script[k].data) <= PageBuf
         /\ Address(k) \in Nat /\ k > 1
<1>1. Script[k].cmd = ProgPage /\ Mem(Script[k]) \in mems
  BY DEF Programs
<1>2. Len(Script) \in Nat /\ Allowed(Script[k]) /\ k > 1 /\ Script[k - 1].cmd = LoadAddress
  BY <1>1, ScriptMessage
<1>3. Script[k].data \in Seq(Cell)
  BY <1>2, MessageBytes
<1>4. Len(Script[k].data) \in Nat \ {0} /\ Len(Script[k].data) <= PageBuf
  BY <1>1, <1>2, PageShape
<1>5. Address(k) \in Nat
  <2>1. k - 1 \in 1 .. Len(Script)
    BY <1>2
  <2>2. PICK p, q : p = Script[k - 1].args[1] /\ q = Script[k - 1].args[2]
    OBVIOUS
  <2>3. p \in Cell /\ q \in Cell
    BY <1>2, <2>1, <2>2, ScriptMessage, LoadShape
  <2>4. p + 256 * q \in Nat
    BY <2>3 DEF Cell
  <2> QED BY <2>2, <2>4 DEF Address
<1> QED BY <1>1, <1>2, <1>3, <1>4, <1>5

\* What ScriptAssumption says of the pages and of the EEPROM.
LEMMA FlashUpload ==
  ASSUME NEW k \in 1 .. Len(Script), Programs(k, FlashMem)
  PROVE  /\ Address(k) % NvmPage = 0 /\ Address(k) < FlashEnd /\ Len(Script[k].data) <= NvmPage
         /\ \A j \in 1 .. k - 1 : Programs(j, FlashMem) => Address(j) # Address(k)
BY ScriptAssumption

LEMMA EepromUpload ==
  ASSUME NEW k \in 1 .. Len(Script), Programs(k, EepromMem)
  PROVE  /\ Address(k) + Len(Script[k].data) <= EepromSize
         /\ \A j \in 1 .. k - 1 : Programs(j, EepromMem) =>
              \/ Address(j) + Len(Script[j].data) <= Address(k)
              \/ Address(k) + Len(Script[k].data) <= Address(j)
BY ScriptAssumption

LEMMA EmitStep ==
  ASSUME PipeInv, Conversation, ParserTypes, MemoryTypes, MemoryInv, step \in 0 .. Len(Script),
         Emit, UNCHANGED <<toSend, got, step>>
  PROVE  PipeInv' /\ Conversation' /\ ParserTypes' /\ MemoryTypes' /\ MemoryInv'
<1>1. /\ Terminator(Eop) /\ cmd = EmitPage /\ cpu' = "put"
      /\ reply' = <<Insync>> \o [i \in 1 .. size |-> Stored(addr + i - 1)] \o <<Ok>>
      /\ UNCHANGED <<flash, eeprom, at, addr, leaving>>
  BY DEF Emit, Answer, nvmVars
<1>2. PICK k : k = step
  OBVIOUS
<1>3. /\ k \in 1 .. Len(Script) /\ cmd = Executed(Script[k]) /\ ~leaving
  BY <1>1, <1>2, Ended
<1>4. Allowed(Script[k]) /\ (Script[k].cmd = LeaveProgmode <=> k = Len(Script)) /\ Len(Script) \in Nat
  BY <1>3, ScriptMessage
<1>5. Script[k].cmd = ReadPage
  BY <1>1, <1>3, <1>4, ExecutedIs
<1>6. Script[k].cmd \notin {LoadAddress, ProgPage, LeaveProgmode}
  BY <1>5 DEF ReadPage, LoadAddress, ProgPage, LeaveProgmode
<1>7. size = Size(Script[k]) /\ mem = Mem(Script[k])
  BY <1>1, <1>2, <1>5, Ended
<1>8. addr = Address(k) /\ addr \in Word /\ k > 1
  BY <1>2, <1>3, <1>5, PageCommand
<1>9. ASSUME NEW mems, mems \in {FlashMem, EepromMem}, Reads(k, mems), ReadsUploaded(k, mems),
             mems = FlashMem => Address(k) >= AppStart
      PROVE  reply' = Script[k].expect
  <2>1. PICK j \in 1 .. k - 1 :
          /\ Programs(j, mems) /\ Address(j) = Address(k) /\ Size(Script[k]) <= Len(Script[j].data)
          /\ Script[k].expect = <<Insync>> \o SubSeq(Script[j].data, 1, Size(Script[k])) \o <<Ok>>
    BY <1>9 DEF ReadsUploaded
  <2>2. PICK s : s = Script[j].data
    OBVIOUS
  <2>3. j \in 1 .. Len(Script)
    BY <1>3, <1>4
  <2>4. s \in Seq(Cell) /\ Len(s) \in Nat /\ Address(j) \in Nat
    BY <2>1, <2>2, <2>3, Programming
  <2>5. size \in 0 .. Len(s) /\ \A i \in 1 .. size : i \in 1 .. Len(s)
    <3>1. size \in Nat
      BY <1>4, <1>5, <1>7, PageShape
    <3> QED BY <1>7, <2>1, <2>2, <2>4, <3>1
  <2>6. StoredAt(j)
    BY <1>2, <2>1 DEF MemoryInv, StoredInv
  <2>7. mem \in mems
    BY <1>7, <1>9 DEF Reads
  <2>8. \A i \in 1 .. size : Stored(addr + i - 1) = s[i]
    <3>1. CASE mems = FlashMem
      <4>1. \A i \in 1 .. Len(s) : flash[addr + i - 1] = s[i]
        BY <1>8, <1>9, <2>1, <2>2, <2>6, <3>1 DEF StoredAt
      <4>2. Address(j) + NvmPage <= FlashEnd /\ Len(s) <= NvmPage
        BY <2>1, <2>2, <2>3, <2>4, <3>1, FlashUpload, PageFits
      <4>3. \A i \in 1 .. size : Mapped(addr + i - 1) = addr + i - 1
        <5> SUFFICES ASSUME NEW i \in 1 .. size PROVE Mapped(addr + i - 1) = addr + i - 1
          OBVIOUS
        <5>1. NvmPage \in Nat /\ FlashEnd \in Nat /\ addr \in Nat /\ addr + NvmPage <= FlashEnd
          BY <1>8, <2>1, <2>4, <4>2, NvmAssumption
        <5>2. i \in 1 .. Len(s) /\ Len(s) \in Nat /\ Len(s) <= NvmPage
          BY <2>4, <2>5, <4>2
        <5>3. addr + i - 1 \in Nat /\ addr + i - 1 < FlashEnd
          BY <5>1, <5>2
        <5> QED BY <5>3, MappedIs
      <4> QED BY <2>5, <2>7, <3>1, <4>1, <4>3 DEF Stored, ReadFlash
    <3>2. CASE mems = EepromMem
      <4>1. \A i \in 1 .. Len(s) : eeprom[addr + i - 1] = s[i]
        BY <1>8, <2>1, <2>2, <2>6, <3>2 DEF StoredAt
      <4>2. Address(j) + Len(s) <= EepromSize
        BY <2>1, <2>2, <2>3, <3>2, EepromUpload
      <4>3. \A i \in 1 .. Len(s) : addr + i - 1 < EepromSize
        BY <1>8, <2>1, <2>4, <4>2, NvmAssumption
      <4>4. mem \notin FlashMem
        BY <2>7, <3>2 DEF FlashMem, EepromMem
      <4> QED BY <2>5, <2>7, <3>2, <4>1, <4>3, <4>4 DEF Stored, ReadEeprom
    <3> QED BY <1>9, <3>1, <3>2
  <2>9. [i \in 1 .. size |-> Stored(addr + i - 1)] = [i \in 1 .. size |-> s[i]]
    BY <2>8
  <2>10. [i \in 1 .. size |-> s[i]] = SubSeq(s, 1, size)
    BY <2>4, <2>5, PartIs
  <2> QED BY <1>1, <1>7, <2>1, <2>2, <2>9, <2>10
<1>10. reply' = Script[step].expect
  <2>1. \/ Reads(k, FlashMem) /\ Address(k) >= AppStart /\ ReadsUploaded(k, FlashMem)
        \/ Reads(k, EepromMem) /\ ReadsUploaded(k, EepromMem)
    BY <1>3, <1>5, Expected
  <2>2. CASE Reads(k, FlashMem) /\ Address(k) >= AppStart /\ ReadsUploaded(k, FlashMem)
    BY <1>2, <1>9, <2>2
  <2>3. CASE Reads(k, EepromMem) /\ ReadsUploaded(k, EepromMem)
    <3>1. EepromMem # FlashMem
      <4>1. 69 \in EepromMem /\ 69 \notin FlashMem
        BY DEF EepromMem, FlashMem
      <4> QED BY <4>1
    <3> QED BY <1>2, <1>9, <2>3, <3>1
  <2> QED BY <2>1, <2>2, <2>3
<1>11. leaving' \in BOOLEAN /\ (leaving' <=> step = Len(Script))
  <2>1. leaving \in BOOLEAN /\ leaving' = leaving
    BY <1>1 DEF PipeInv, PipeShape
  <2>2. step # Len(Script)
    BY <1>2, <1>4, <1>6
  <2> QED BY <1>3, <2>1, <2>2
<1>12. PipeInv' /\ Conversation'
  BY <1>1, <1>10, <1>11, EndMoves
<1>13. MemoryInv'
  BY <1>1, <1>2, <1>6, EndMemory
<1>14. ParserTypes' /\ MemoryTypes'
  BY <1>1, <1>8, EndTypes
<1> QED BY <1>12, <1>13, <1>14

LEMMA FinaliseStep ==
  ASSUME PipeInv, Conversation, ParserTypes, MemoryTypes, MemoryInv, step \in 0 .. Len(Script),
         Finalise, UNCHANGED <<toSend, got, step>>
  PROVE  PipeInv' /\ Conversation' /\ ParserTypes' /\ MemoryTypes' /\ MemoryInv'
<1>1. /\ Terminator(Eop) /\ cmd = FinalisePage /\ reply' = <<Insync, Ok>> /\ at' = 0
      /\ cpu' = IF mem \in FlashMem /\ Writable(addr, size) THEN "erase"
                ELSE IF mem \in EepromMem THEN "eeprom" ELSE "put"
      /\ UNCHANGED <<flash, eeprom, addr, leaving>>
  BY DEF Finalise
<1>2. PICK k : k = step
  OBVIOUS
<1>3. /\ k \in 1 .. Len(Script) /\ cmd = Executed(Script[k]) /\ ~leaving /\ Incoming # <<>> /\ Incoming' = <<>>
  BY <1>1, <1>2, Ended
<1>4. Allowed(Script[k]) /\ (Script[k].cmd = LeaveProgmode <=> k = Len(Script))
  BY <1>3, ScriptMessage
<1>5. Script[k].cmd = ProgPage
  BY <1>1, <1>3, <1>4, ExecutedIs
<1>6. Script[k].cmd \notin {LoadAddress, LeaveProgmode}
  BY <1>5 DEF LoadAddress, ProgPage, LeaveProgmode
<1>7. /\ mem = Mem(Script[k]) /\ size = Len(Script[k].data)
      /\ \A i \in 1 .. size : page[i - 1] = Script[k].data[i]
  BY <1>1, <1>2, <1>5, Ended
<1>8. addr = Address(k) /\ addr \in Word
  BY <1>2, <1>3, <1>5, PageCommand
<1>9. UNCHANGED <<size, mem, page>>
  BY <1>1 DEF Terminator
<1>10. size \in Nat \ {0}
  BY <1>4, <1>5, <1>7, PageShape
<1>11. cpu' \in {"put", "erase", "eeprom"}
  BY <1>1
<1>12. reply' = Script[step].expect
  BY <1>1, <1>2, <1>3, <1>5, Expected
<1>13. leaving' \in BOOLEAN /\ (leaving' <=> step = Len(Script))
  <2>1. leaving \in BOOLEAN /\ leaving' = leaving
    BY <1>1 DEF PipeInv, PipeShape
  <2>2. step # Len(Script)
    BY <1>2, <1>4, <1>6
  <2> QED BY <1>3, <2>1, <2>2
<1>14. PipeInv' /\ Conversation'
  BY <1>1, <1>11, <1>12, <1>13, EndMoves
<1>15. ParserTypes' /\ MemoryTypes'
  BY <1>1, <1>8, EndTypes
<1>16. AddrInv'
  <2>1. Loaded(step - 1)
    BY <1>2, <1>3 DEF MemoryInv, AddrInv
  <2> QED BY <1>1, <1>2, <1>6, <2>1 DEF AddrInv, Loaded
<1>17. WriterInv'
  <2>1. 0 \in 0 .. size + 1 /\ 0 <= size /\ 1 .. 0 = {}
    BY <1>10
  <2>2. cpu' = "eeprom" => mem \in EepromMem
    BY <1>1
  <2>3. cpu' = "erase" => mem \in FlashMem /\ addr >= AppStart
    BY <1>1 DEF Writable
  <2> QED BY <1>1, <1>2, <1>3, <1>5, <1>7, <1>9, <1>11, <2>1, <2>2, <2>3 DEF WriterInv
<1>18. StoredInv'
  <2>1. \A i : StoredAt(i)' <=> StoredAt(i)
    BY <1>1 DEF StoredAt, Programs, Address, Mem
  <2>2. ~Writing' => StoredAt(k)
    <3> SUFFICES ASSUME ~Writing' PROVE StoredAt(k)
      OBVIOUS
    <3>1. mem \notin EepromMem /\ ~(mem \in FlashMem /\ Writable(addr, size))
      BY <1>1 DEF Writing
    <3>2. mem \in FlashMem => ~(addr >= AppStart)
      BY <1>10, <3>1 DEF Writable
    <3> QED BY <1>7, <1>8, <3>1, <3>2 DEF StoredAt, Programs
  <2> QED BY <1>2, <2>1, <2>2 DEF MemoryInv, StoredInv
<1> QED BY <1>14, <1>15, <1>16, <1>17, <1>18 DEF MemoryInv

-----------------------------------------------------------------------------
(* The writer.                                                             *)

LEMMA WriterFrame ==
  ASSUME PipeInv, Conversation, ParserTypes, MemoryInv, Writing, cpu' \in {"erase", "word", "eeprom", "put"},
         UNCHANGED <<ret, trnIrq, rxVars, txVars, stkVars, toSend, got, step>>
  PROVE  PipeInv' /\ Conversation' /\ ParserTypes' /\ AddrInv' /\ Incoming' = Incoming
<1>1. UNCHANGED <<rxBuf, outNak, outTrn, rxCnt, rxIdx, txBuf, txLen, inFlight, inCnt, inNak, inTrn>>
  BY DEF rxVars, txVars
<1>2. UNCHANGED <<st, cmd, addr, args, need, size, mem, page, fill, reply, leaving>>
  BY DEF stkVars
<1>3. PipeInv'
  <2>1. PipeShape' /\ RxInv' /\ TxInv'
    BY <1>1, <1>2 DEF PipeInv, PipeShape, RxInv, TxInv
  <2>2. CpuInv'
    BY <1>2 DEF PipeInv, CpuInv, Writing
  <2> QED BY <2>1, <2>2 DEF PipeInv
<1>4. Incoming' = Incoming /\ Outgoing' = Outgoing
  BY <1>1, <1>2 DEF Incoming, Unread, Outgoing, Offered, InBytes, Staged
<1>5. Conversation'
  <2>1. Deaf' <=> Deaf
    BY <1>2, <1>4 DEF Deaf
  <2>2. Answering' <=> Answering
    BY <1>2, <1>4 DEF Answering
  <2>3. \A j \in Nat : Asking(j)' <=> Asking(j)
    BY <1>2, <1>4 DEF Asking, InStep
  <2> QED BY <1>2, <1>4, <2>1, <2>2, <2>3 DEF Conversation
<1>6. ParserTypes' /\ AddrInv'
  BY <1>2, <1>4 DEF ParserTypes, MemoryInv, AddrInv, Loaded
<1> QED BY <1>3, <1>4, <1>5, <1>6

\* The page command that the writer works on, and its place.
LEMMA WriterPlace ==
  ASSUME MemoryInv, Writing, NEW k, k = step
  PROVE  /\ k \in 1 .. Len(Script) /\ addr = Address(k) /\ addr \in Nat /\ Incoming = <<>>
         /\ size = Len(Script[k].data) /\ size \in Nat \ {0} /\ size <= PageBuf
         /\ \A i \in 1 .. size : page[i - 1] = Script[k].data[i]
         /\ cpu \in {"erase", "word"} =>
              /\ Programs(k, FlashMem) /\ ~Programs(k, EepromMem) /\ addr % NvmPage = 0
              /\ addr + NvmPage <= FlashEnd /\ size <= NvmPage
         /\ cpu = "eeprom" =>
              Programs(k, EepromMem) /\ ~Programs(k, FlashMem) /\ addr + size <= EepromSize
<1>1. /\ k \in 1 .. Len(Script) /\ Incoming = <<>> /\ Script[k].cmd = ProgPage
      /\ mem = Mem(Script[k]) /\ size = Len(Script[k].data)
      /\ \A i \in 1 .. size : page[i - 1] = Script[k].data[i]
      /\ cpu = "eeprom" => mem \in EepromMem
      /\ cpu \in {"erase", "word"} => mem \in FlashMem
  BY DEF MemoryInv, WriterInv
<1>2. addr = Address(k) /\ addr \in Word /\ Allowed(Script[k])
  BY <1>1, PageCommand
<1>3. addr \in Nat
  <2>1. PICK a : a = addr
    OBVIOUS
  <2>2. a \in Word
    BY <1>2, <2>1
  <2>3. a \in Nat
    BY <2>2, WordRange
  <2> QED BY <2>1, <2>3
<1>4. size \in Nat \ {0} /\ size <= PageBuf
  BY <1>1, <1>2, PageShape
<1>5. FlashMem \cap EepromMem = {}
  BY DEF FlashMem, EepromMem
<1>6. ASSUME cpu \in {"erase", "word"}
      PROVE  /\ Programs(k, FlashMem) /\ ~Programs(k, EepromMem) /\ addr % NvmPage = 0
             /\ addr + NvmPage <= FlashEnd /\ size <= NvmPage
  <2>1. Programs(k, FlashMem) /\ ~Programs(k, EepromMem)
    BY <1>1, <1>5, <1>6 DEF Programs
  <2>2. addr % NvmPage = 0 /\ addr < FlashEnd /\ size <= NvmPage
    BY <1>1, <1>2, <2>1, FlashUpload
  <2>3. addr + NvmPage <= FlashEnd
    BY <1>3, <2>2, PageFits
  <2> QED BY <2>1, <2>2, <2>3
<1>7. ASSUME cpu = "eeprom"
      PROVE  Programs(k, EepromMem) /\ ~Programs(k, FlashMem) /\ addr + size <= EepromSize
  <2>1. Programs(k, EepromMem) /\ ~Programs(k, FlashMem)
    BY <1>1, <1>5, <1>7 DEF Programs
  <2> QED BY <1>1, <1>2, <2>1, EepromUpload
<1> QED BY <1>1, <1>2, <1>3, <1>4, <1>6, <1>7

\* What is stored elsewhere stays.
LEMMA FlashElsewhere ==
  ASSUME MemoryInv, NEW k \in 1 .. Len(Script), k = step, Programs(k, FlashMem), addr = Address(k),
         UNCHANGED eeprom,
         \A c \in 0 .. FlashEnd - 1 : c < addr \/ c >= addr + NvmPage => flash'[c] = flash[c]
  PROVE  \A j \in 1 .. k - 1 : StoredAt(j)'
<1> SUFFICES ASSUME NEW j \in 1 .. k - 1 PROVE StoredAt(j)'
  OBVIOUS
<1>1. Len(Script) \in Nat /\ NvmPage \in Nat \ {0} /\ FlashEnd \in Nat
  BY ScriptAssumption, NvmAssumption
<1>2. j \in 1 .. Len(Script) /\ StoredAt(j)
  BY <1>1 DEF MemoryInv, StoredInv
<1>3. ASSUME Programs(j, FlashMem), Address(j) >= AppStart, NEW i \in 1 .. Len(Script[j].data)
      PROVE  flash'[Address(j) + i - 1] = Script[j].data[i]
  <2>1. addr % NvmPage = 0 /\ addr < FlashEnd /\ Address(j) # addr /\ addr \in Nat
    BY <1>3, FlashUpload, Programming
  <2>2. /\ Address(j) \in Nat /\ Address(j) % NvmPage = 0 /\ Address(j) < FlashEnd
        /\ Len(Script[j].data) <= NvmPage /\ Len(Script[j].data) \in Nat
    BY <1>2, <1>3, FlashUpload, Programming
  <2>3. Address(j) >= addr + NvmPage \/ addr >= Address(j) + NvmPage
    BY <2>1, <2>2, PageFits
  <2>4. Address(j) + NvmPage <= FlashEnd
    BY <2>2, PageFits
  <2>5. PICK c, b, l : c = Address(j) + i - 1 /\ b = Address(j) /\ l = Len(Script[j].data)
    OBVIOUS
  <2>6. c \in 0 .. FlashEnd - 1 /\ (c < addr \/ c >= addr + NvmPage)
    <3>1. /\ b \in Nat /\ l \in Nat /\ l <= NvmPage /\ i \in 1 .. l /\ c = b + i - 1
          /\ b + NvmPage <= FlashEnd /\ (b >= addr + NvmPage \/ addr >= b + NvmPage)
      BY <1>3, <2>2, <2>3, <2>4, <2>5, Zenon
    <3>2. addr \in Nat /\ NvmPage \in Nat /\ FlashEnd \in Nat
      BY <1>1, <2>1
    <3>3. b + l <= FlashEnd /\ c = b + i - 1 /\ i \in 1 .. l
      BY <3>1, <3>2
    <3>4. c \in 0 .. FlashEnd - 1 /\ b <= c /\ c < b + l
      BY <3>1, <3>2, <3>3, InCells
    <3>5. c \in Nat
      BY <3>2, <3>4
    <3> QED BY <3>1, <3>2, <3>4, <3>5
  <2>7. flash'[c] = flash[c]
    BY <2>6
  <2>8. flash[Address(j) + i - 1] = Script[j].data[i]
    BY <1>2, <1>3 DEF StoredAt
  <2> QED BY <2>5, <2>7, <2>8
<1>4. ASSUME Programs(j, EepromMem), NEW i \in 1 .. Len(Script[j].data)
      PROVE  eeprom'[Address(j) + i - 1] = Script[j].data[i]
  BY <1>2, <1>4 DEF StoredAt
<1> QED BY <1>3, <1>4 DEF StoredAt, Programs, Address, Mem

LEMMA EepromElsewhere ==
  ASSUME MemoryInv, NEW k \in 1 .. Len(Script), k = step, Programs(k, EepromMem), addr = Address(k),
         size = Len(Script[k].data), UNCHANGED flash,
         \A c \in 0 .. EepromSize - 1 : c < addr \/ c >= addr + size => eeprom'[c] = eeprom[c]
  PROVE  \A j \in 1 .. k - 1 : StoredAt(j)'
<1> SUFFICES ASSUME NEW j \in 1 .. k - 1 PROVE StoredAt(j)'
  OBVIOUS
<1>1. Len(Script) \in Nat /\ EepromSize \in Nat \ {0}
  BY ScriptAssumption, NvmAssumption
<1>2. j \in 1 .. Len(Script) /\ StoredAt(j)
  BY <1>1 DEF MemoryInv, StoredInv
<1>3. ASSUME Programs(j, EepromMem), NEW i \in 1 .. Len(Script[j].data)
      PROVE  eeprom'[Address(j) + i - 1] = Script[j].data[i]
  <2>1. /\ Address(j) \in Nat /\ Len(Script[j].data) \in Nat /\ Address(j) + Len(Script[j].data) <= EepromSize
        /\ addr \in Nat /\ size \in Nat
    BY <1>2, <1>3, EepromUpload, Programming
  <2>2. Address(j) + Len(Script[j].data) <= addr \/ addr + size <= Address(j)
    BY <1>3, EepromUpload
  <2>3. PICK c, b, l : c = Address(j) + i - 1 /\ b = Address(j) /\ l = Len(Script[j].data)
    OBVIOUS
  <2>4. c \in 0 .. EepromSize - 1 /\ (c < addr \/ c >= addr + size)
    <3>1. /\ b \in Nat /\ l \in Nat /\ i \in 1 .. l /\ c = b + i - 1
          /\ b + l <= EepromSize /\ (b + l <= addr \/ addr + size <= b)
      BY <1>3, <2>1, <2>2, <2>3, Zenon
    <3>2. addr \in Nat /\ size \in Nat /\ EepromSize \in Nat
      BY <1>1, <2>1
    <3>3. c \in 0 .. EepromSize - 1 /\ b <= c /\ c < b + l
      BY <3>1, <3>2, InCells
    <3>4. c \in Nat
      BY <3>2, <3>3
    <3> QED BY <3>1, <3>2, <3>3, <3>4
  <2>5. eeprom'[c] = eeprom[c]
    BY <2>4
  <2>6. eeprom[Address(j) + i - 1] = Script[j].data[i]
    BY <1>2, <1>3 DEF StoredAt
  <2> QED BY <2>3, <2>5, <2>6
<1>4. ASSUME Programs(j, FlashMem), Address(j) >= AppStart, NEW i \in 1 .. Len(Script[j].data)
      PROVE  flash'[Address(j) + i - 1] = Script[j].data[i]
  BY <1>2, <1>4 DEF StoredAt
<1> QED BY <1>3, <1>4 DEF StoredAt, Programs, Address, Mem

\* The steps of the writer but for what they do to the cells.
LEMMA WriterMoves ==
  ASSUME PipeInv, Conversation, ParserTypes, MemoryInv, Writing, cpu' \in {"word", "eeprom", "put"},
         UNCHANGED <<ret, trnIrq, rxVars, txVars, stkVars, toSend, got, step>>,
         \A j \in 1 .. step - 1 : StoredAt(j)', ~Writing' => StoredAt(step)', WriterInv'
  PROVE  PipeInv' /\ Conversation' /\ ParserTypes' /\ MemoryInv'
<1>1. PipeInv' /\ Conversation' /\ ParserTypes' /\ AddrInv' /\ Incoming' = Incoming
  BY WriterFrame
<1>2. StoredInv'
  BY DEF StoredInv, StoredAt, Programs, Address, Mem
<1> QED BY <1>1, <1>2 DEF MemoryInv

LEMMA ErasePartStep ==
  ASSUME PipeInv, Conversation, ParserTypes, MemoryTypes, MemoryInv, ErasePart, UNCHANGED <<toSend, got, step>>
  PROVE  PipeInv' /\ Conversation' /\ ParserTypes' /\ MemoryTypes' /\ MemoryInv'
<1>1. /\ cpu = "erase" /\ cpu' = "word" /\ Writing /\ Writing'
      /\ flash' = [c \in DOMAIN flash |-> IF Page(c) = Page(Mapped(addr)) THEN Erased ELSE flash[c]]
      /\ UNCHANGED <<ret, trnIrq, rxVars, txVars, eeprom, at, stkVars>>
  BY DEF ErasePart, ErasePage, Writing
<1>2. PICK k : k = step
  OBVIOUS
<1>3. /\ k \in 1 .. Len(Script) /\ addr = Address(k) /\ addr \in Nat /\ Incoming = <<>>
      /\ size \in Nat \ {0} /\ Programs(k, FlashMem) /\ ~Programs(k, EepromMem) /\ addr % NvmPage = 0
      /\ addr + NvmPage <= FlashEnd
  BY <1>1, <1>2, WriterPlace
<1>4. NvmPage \in Nat \ {0} /\ FlashEnd \in Nat
  BY NvmAssumption
<1>5. DOMAIN flash = 0 .. FlashEnd - 1 /\ \A c \in 0 .. FlashEnd - 1 : flash[c] \in Cell
  BY DEF MemoryTypes
<1>6. \A c \in 0 .. FlashEnd - 1 :
        flash'[c] = IF addr <= c /\ c < addr + NvmPage THEN Erased ELSE flash[c]
  <2> SUFFICES ASSUME NEW c \in 0 .. FlashEnd - 1
               PROVE  flash'[c] = IF addr <= c /\ c < addr + NvmPage THEN Erased ELSE flash[c]
    OBVIOUS
  <2>1. c \in Nat
    OBVIOUS
  <2>2. Page(c) = Page(addr) <=> addr <= c /\ c < addr + NvmPage
    BY <1>3, <2>1, PageCells
  <2>3. Mapped(addr) = addr
    BY <1>3, <1>4, MappedIs
  <2>4. flash'[c] = IF Page(c) = Page(addr) THEN Erased ELSE flash[c]
    BY <1>1, <1>5, <2>3
  <2> QED BY <2>2, <2>4
<1>7. MemoryTypes'
  <2>1. Erased \in Cell
    BY DEF Erased, Cell
  <2>2. flash' \in [0 .. FlashEnd - 1 -> Cell]
    BY <1>1, <1>5, <2>1
  <2> QED BY <1>1, <2>2 DEF MemoryTypes
<1>8. \A j \in 1 .. k - 1 : StoredAt(j)'
  <2>1. \A c \in 0 .. FlashEnd - 1 : c < addr \/ c >= addr + NvmPage => flash'[c] = flash[c]
    BY <1>3, <1>4, <1>6
  <2> QED BY <1>1, <1>2, <1>3, <2>1, FlashElsewhere
<1>9. WriterInv'
  <2>1. at = 0
    BY <1>1 DEF MemoryInv, WriterInv
  <2>2. \A i \in 1 .. NvmPage : flash'[addr + i - 1] = Erased
    <3> SUFFICES ASSUME NEW i \in 1 .. NvmPage PROVE flash'[addr + i - 1] = Erased
      OBVIOUS
    <3>1. PICK c : c = addr + i - 1
      OBVIOUS
    <3>2. c \in 0 .. FlashEnd - 1 /\ addr <= c /\ c < addr + NvmPage
      BY <1>3, <1>4, <3>1
    <3> QED BY <1>6, <3>1, <3>2
  <2>3. Incoming' = Incoming
    BY <1>1, WriterFrame
  <2>4. UNCHANGED <<size, mem, page, addr>>
    BY <1>1 DEF stkVars
  <2>5. at % 2 = 0 /\ \A i \in 1 .. size : ~(i <= at)
    BY <2>1
  <2> QED BY <1>1, <2>1, <2>2, <2>3, <2>4, <2>5 DEF MemoryInv, WriterInv
<1> QED BY <1>1, <1>2, <1>7, <1>8, <1>9, WriterMoves

LEMMA WordPartStep ==
  ASSUME PipeInv, Conversation, ParserTypes, MemoryTypes, MemoryInv, WordPart, UNCHANGED <<toSend, got, step>>
  PROVE  PipeInv' /\ Conversation' /\ ParserTypes' /\ MemoryTypes' /\ MemoryInv'
<1>1. /\ cpu = "word" /\ cpu' = "word" /\ Writing /\ Writing' /\ at < WriteLen(size) /\ at' = at + 2
      /\ StoreWord(addr, at, page[at], HighByte(page, at, WriteLen(size)))
      /\ UNCHANGED <<cpu, ret, trnIrq, rxVars, txVars, eeprom, stkVars>>
  BY DEF WordPart, Writing
<1>2. PICK k : k = step
  OBVIOUS
<1>3. /\ k \in 1 .. Len(Script) /\ addr = Address(k) /\ addr \in Nat /\ Incoming = <<>>
      /\ size \in Nat \ {0} /\ size <= PageBuf /\ Programs(k, FlashMem) /\ ~Programs(k, EepromMem)
      /\ addr + NvmPage <= FlashEnd /\ size <= NvmPage
  BY <1>1, <1>2, WriterPlace
<1>4. NvmPage \in Nat \ {0} /\ FlashEnd \in Nat /\ NvmPage % 2 = 0 /\ PageBuf \in Nat
  BY NvmAssumption, StkAssumption
<1>5. /\ at \in Nat /\ at % 2 = 0
      /\ \A i \in 1 .. size : i <= at => flash[addr + i - 1] = page[i - 1]
      /\ \A i \in 1 .. NvmPage : i > at => flash[addr + i - 1] = Erased
  BY <1>1 DEF MemoryInv, WriterInv
<1>6. WriteLen(size) = size
  BY <1>3, <1>4 DEF WriteLen
<1>7. at < size /\ at + 1 < NvmPage
  <2>1. at < size
    BY <1>1, <1>6
  <2>2. at # NvmPage - 1
    BY <1>4, <1>5
  <2> QED BY <1>3, <1>4, <1>5, <2>1, <2>2
<1>8. PICK c : c = addr + at
  OBVIOUS
<1>place. /\ addr \in Nat /\ at \in Nat /\ size \in Nat /\ NvmPage \in Nat /\ FlashEnd \in Nat
      /\ addr + NvmPage <= FlashEnd /\ size <= NvmPage /\ at < size /\ at + 1 < NvmPage
  BY <1>3, <1>4, <1>5, <1>7
<1>9. c \in 0 .. FlashEnd - 1 /\ c + 1 \in 0 .. FlashEnd - 1 /\ c # c + 1 /\ c \in Nat
  BY <1>place, <1>8
<1>10. flash[c] = Erased /\ flash[c + 1] = Erased
  <2>1. at + 1 \in 1 .. NvmPage /\ at + 1 > at /\ at + 2 \in 1 .. NvmPage /\ at + 2 > at
    BY <1>place
  <2>2. addr + (at + 1) - 1 = c /\ addr + (at + 2) - 1 = c + 1
    BY <1>place, <1>8
  <2> QED BY <1>5, <2>1, <2>2
<1>11. PICK lo, hi : lo = page[at] /\ hi = HighByte(page, at, size)
  OBVIOUS
<1>12. lo \in Cell /\ hi \in Cell /\ (at + 1 < size => hi = page[at + 1])
  <2>1. page \in [0 .. PageBuf - 1 -> Cell]
    BY DEF ParserTypes
  <2>2. at \in 0 .. PageBuf - 1 /\ (at + 1 < size => at + 1 \in 0 .. PageBuf - 1)
    BY <1>3, <1>4, <1>5, <1>7
  <2>3. Erased \in Cell
    BY DEF Erased, Cell
  <2> QED BY <1>11, <2>1, <2>2, <2>3 DEF HighByte
<1>13. flash' = [[flash EXCEPT ![c] = lo] EXCEPT ![c + 1] = hi]
  <2>1. flash' = [[flash EXCEPT ![c] = Programmed(flash[c], lo)] EXCEPT ![c + 1] = Programmed(flash[c + 1], hi)]
    <3>1. Mapped(addr) = addr
      BY <1>place, MappedIs
    <3> QED BY <1>1, <1>6, <1>8, <1>9, <1>11, <3>1 DEF StoreWord
  <2>2. Programmed(flash[c], lo) = lo /\ Programmed(flash[c + 1], hi) = hi
    BY <1>10 DEF Programmed
  <2> QED BY <2>1, <2>2
<1>14. flash \in [0 .. FlashEnd - 1 -> Cell]
  BY DEF MemoryTypes
<1>15. /\ flash' \in [0 .. FlashEnd - 1 -> Cell] /\ flash'[c] = lo /\ flash'[c + 1] = hi
       /\ \A d \in 0 .. FlashEnd - 1 : d # c /\ d # c + 1 => flash'[d] = flash[d]
  <2>1. [flash EXCEPT ![c] = lo] \in [0 .. FlashEnd - 1 -> Cell]
    BY <1>12, <1>14
  <2> QED BY <1>9, <1>12, <1>13, <1>14, <2>1
<1>16. MemoryTypes'
  <2>1. at' \in 0 .. PageBuf + 1
    BY <1>1, <1>3, <1>4, <1>5, <1>7
  <2> QED BY <1>1, <1>15, <2>1 DEF MemoryTypes
<1>17. \A j \in 1 .. k - 1 : StoredAt(j)'
  <2>1. c + 1 < addr + NvmPage /\ c >= addr
    BY <1>3, <1>4, <1>5, <1>7, <1>8
  <2>2. \A d \in 0 .. FlashEnd - 1 : d < addr \/ d >= addr + NvmPage => d # c /\ d # c + 1
    BY <1>3, <1>4, <1>9, <2>1
  <2>3. \A d \in 0 .. FlashEnd - 1 : d < addr \/ d >= addr + NvmPage => flash'[d] = flash[d]
    BY <1>15, <2>2
  <2> QED BY <1>1, <1>2, <1>3, <2>3, FlashElsewhere
<1>18. UNCHANGED <<size, mem, page, addr>> /\ Incoming' = Incoming
  BY <1>1, WriterFrame DEF stkVars
<1>19. ASSUME NEW i \in 1 .. size, i <= at + 2
       PROVE  flash'[addr + i - 1] = page[i - 1]
  <2>1. PICK d : d = addr + i - 1
    OBVIOUS
  <2>5. i \in Nat /\ i \in 1 .. NvmPage /\ (i <= at \/ i = at + 1 \/ i = at + 2)
        /\ (i <= at => i # at + 1 /\ i # at + 2)
    BY <1>place, <1>19
  <2>6. d \in 0 .. FlashEnd - 1 /\ (d = c <=> i = at + 1) /\ (d = c + 1 <=> i = at + 2)
    BY <1>place, <1>8, <2>1, <2>5, InCells, OtherCell
  <2>2. CASE i <= at
    <3>1. d \in 0 .. FlashEnd - 1 /\ d # c /\ d # c + 1
      BY <2>2, <2>5, <2>6
    <3>2. flash'[d] = flash[d] /\ flash[d] = page[i - 1]
      BY <1>5, <1>15, <2>1, <2>2, <3>1
    <3> QED BY <2>1, <3>2
  <2>3. CASE i = at + 1
    <3>1. d = c /\ i - 1 = at
      BY <1>place, <2>3, <2>6
    <3> QED BY <1>11, <1>15, <2>1, <3>1
  <2>4. CASE i = at + 2
    <3>1. d = c + 1 /\ i - 1 = at + 1 /\ at + 1 < size
      BY <1>place, <2>4, <2>6
    <3> QED BY <1>12, <1>15, <2>1, <3>1
  <2> QED BY <2>2, <2>3, <2>4, <2>5
<1>20. ASSUME NEW i \in 1 .. NvmPage, i > at + 2
       PROVE  flash'[addr + i - 1] = Erased
  <2>1. PICK d : d = addr + i - 1
    OBVIOUS
  <2>2. d \in 0 .. FlashEnd - 1 /\ d # c /\ d # c + 1 /\ i > at
    <3>1. i \in Nat /\ i # at + 1 /\ i # at + 2 /\ i > at
      BY <1>place, <1>20
    <3> QED BY <1>place, <1>8, <2>1, <3>1, InCells, OtherCell
  <2>3. flash[d] = Erased
    BY <1>5, <2>1, <2>2
  <2> QED BY <1>15, <2>1, <2>2, <2>3
<1>21. WriterInv'
  <2>1. at + 2 \in 0 .. size + 1 /\ (at + 2) % 2 = 0
    BY <1>3, <1>5, <1>7
  <2> QED BY <1>1, <1>18, <1>19, <1>20, <2>1 DEF MemoryInv, WriterInv
<1> QED BY <1>1, <1>2, <1>16, <1>17, <1>21, WriterMoves

LEMMA EepromPartStep ==
  ASSUME PipeInv, Conversation, ParserTypes, MemoryTypes, MemoryInv, EepromPart, UNCHANGED <<toSend, got, step>>
  PROVE  PipeInv' /\ Conversation' /\ ParserTypes' /\ MemoryTypes' /\ MemoryInv'
<1>1. /\ cpu = "eeprom" /\ cpu' = "eeprom" /\ Writing /\ Writing' /\ at < EepromLen(addr, size) /\ at' = at + 1
      /\ eeprom' = [eeprom EXCEPT ![addr + at] = page[at]]
      /\ UNCHANGED <<cpu, ret, trnIrq, rxVars, txVars, flash, stkVars>>
  BY DEF EepromPart, Writing
<1>2. PICK k : k = step
  OBVIOUS
<1>3. /\ k \in 1 .. Len(Script) /\ addr = Address(k) /\ addr \in Nat /\ Incoming = <<>>
      /\ size \in Nat \ {0} /\ size <= PageBuf /\ size = Len(Script[k].data)
      /\ Programs(k, EepromMem) /\ addr + size <= EepromSize
  BY <1>1, <1>2, WriterPlace
<1>4. EepromSize \in Nat \ {0} /\ PageBuf \in Nat
  BY NvmAssumption, StkAssumption
<1>5. EepromLen(addr, size) = size
  <2>1. ~(addr >= EepromSize) /\ ~(addr + size > EepromSize)
    BY <1>3, <1>4
  <2> QED BY <2>1 DEF EepromLen
<1>6. at \in Nat /\ at < size /\ \A i \in 1 .. at : eeprom[addr + i - 1] = page[i - 1]
  BY <1>1, <1>5 DEF MemoryInv, WriterInv
<1>7. PICK c : c = addr + at
  OBVIOUS
<1>place. addr \in Nat /\ at \in Nat /\ size \in Nat /\ EepromSize \in Nat /\ addr + size <= EepromSize /\ at < size
  BY <1>3, <1>4, <1>6
<1>8. c \in 0 .. EepromSize - 1
  BY <1>place, <1>7
<1>9. page[at] \in Cell
  BY <1>3, <1>4, <1>6 DEF ParserTypes
<1>10. eeprom \in [0 .. EepromSize - 1 -> Cell]
  BY DEF MemoryTypes
<1>11. /\ eeprom' \in [0 .. EepromSize - 1 -> Cell] /\ eeprom'[c] = page[at]
       /\ \A d \in 0 .. EepromSize - 1 : d # c => eeprom'[d] = eeprom[d]
  BY <1>1, <1>7, <1>8, <1>9, <1>10
<1>12. MemoryTypes'
  <2>1. at' \in 0 .. PageBuf + 1
    BY <1>1, <1>3, <1>4, <1>6
  <2> QED BY <1>1, <1>11, <2>1 DEF MemoryTypes
<1>13. \A j \in 1 .. k - 1 : StoredAt(j)'
  <2>1. c < addr + size /\ c >= addr
    BY <1>3, <1>6, <1>7
  <2>2. \A d \in 0 .. EepromSize - 1 : d < addr \/ d >= addr + size => d # c
    BY <1>3, <1>4, <1>8, <2>1
  <2>3. \A d \in 0 .. EepromSize - 1 : d < addr \/ d >= addr + size => eeprom'[d] = eeprom[d]
    BY <1>11, <2>2
  <2> QED BY <1>1, <1>2, <1>3, <2>3, EepromElsewhere
<1>14. UNCHANGED <<size, mem, page, addr>> /\ Incoming' = Incoming
  BY <1>1, WriterFrame DEF stkVars
<1>15. ASSUME NEW i \in 1 .. at + 1
       PROVE  eeprom'[addr + i - 1] = page[i - 1]
  <2>1. PICK d : d = addr + i - 1
    OBVIOUS
  <2>2. CASE i <= at
    <3>1. i \in Nat /\ i \in 1 .. size /\ i # at + 1
      BY <1>place, <2>2
    <3>4. d \in 0 .. EepromSize - 1 /\ d # c
      BY <1>place, <1>7, <2>1, <3>1, InCells, OtherCell
    <3>2. eeprom[d] = page[i - 1]
      BY <1>6, <2>1, <2>2
    <3> QED BY <1>11, <2>1, <3>2, <3>4
  <2>3. CASE i = at + 1
    <3>1. d = c /\ i - 1 = at
      BY <1>place, <1>7, <2>1, <2>3
    <3> QED BY <1>11, <2>1, <3>1
  <2>4. i <= at \/ i = at + 1
    BY <1>place
  <2> QED BY <2>2, <2>3, <2>4
<1>16. WriterInv'
  <2>1. at + 1 \in 0 .. size + 1 /\ at + 1 <= size
    BY <1>3, <1>6
  <2> QED BY <1>1, <1>14, <1>15, <2>1 DEF MemoryInv, WriterInv
<1> QED BY <1>1, <1>2, <1>12, <1>13, <1>16, WriterMoves

LEMMA NvmEndStep ==
  ASSUME PipeInv, Conversation, ParserTypes, MemoryTypes, MemoryInv, NvmEnd, UNCHANGED <<toSend, got, step>>
  PROVE  PipeInv' /\ Conversation' /\ ParserTypes' /\ MemoryTypes' /\ MemoryInv'
<1>1. /\ Writing /\ ~Writing' /\ cpu' = "put"
      /\ UNCHANGED <<ret, trnIrq, rxVars, txVars, flash, eeprom, at, stkVars>>
      /\ \/ cpu = "word" /\ at >= WriteLen(size)
         \/ cpu = "eeprom" /\ at >= EepromLen(addr, size)
  BY DEF NvmEnd, Writing, nvmVars
<1>2. PICK k : k = step
  OBVIOUS
<1>3. /\ k \in 1 .. Len(Script) /\ addr = Address(k) /\ addr \in Nat
      /\ size \in Nat \ {0} /\ size = Len(Script[k].data)
      /\ \A i \in 1 .. size : page[i - 1] = Script[k].data[i]
      /\ cpu = "word" => ~Programs(k, EepromMem) /\ size <= NvmPage
      /\ cpu = "eeprom" => ~Programs(k, FlashMem) /\ addr + size <= EepromSize
  BY <1>1, <1>2, WriterPlace
<1>4. NvmPage \in Nat \ {0} /\ EepromSize \in Nat \ {0}
  BY NvmAssumption
<1>5. StoredAt(k)
  <2>1. CASE cpu = "word" /\ at >= WriteLen(size)
    <3>1. WriteLen(size) = size
      BY <1>3, <1>4, <2>1 DEF WriteLen
    <3>2. at \in Nat /\ \A i \in 1 .. size : i <= at => flash[addr + i - 1] = page[i - 1]
      BY <1>1, <2>1 DEF MemoryInv, WriterInv
    <3>3. \A i \in 1 .. size : flash[addr + i - 1] = page[i - 1]
      BY <1>3, <2>1, <3>1, <3>2
    <3> QED BY <1>3, <2>1, <3>3 DEF StoredAt
  <2>2. CASE cpu = "eeprom" /\ at >= EepromLen(addr, size)
    <3>1. ~(addr >= EepromSize) /\ ~(addr + size > EepromSize)
      BY <1>3, <1>4, <2>2
    <3>2. EepromLen(addr, size) = size
      BY <3>1 DEF EepromLen
    <3>3. at \in Nat /\ at <= size /\ \A i \in 1 .. at : eeprom[addr + i - 1] = page[i - 1]
      BY <1>1, <2>2 DEF MemoryInv, WriterInv
    <3>4. at = size
      BY <1>3, <2>2, <3>2, <3>3
    <3> QED BY <1>3, <2>2, <3>3, <3>4 DEF StoredAt
  <2> QED BY <1>1, <2>1, <2>2
<1>6. \A j : StoredAt(j)' <=> StoredAt(j)
  BY <1>1 DEF StoredAt, Programs, Address, Mem
<1>7. \A j \in 1 .. k - 1 : StoredAt(j)'
  BY <1>2, <1>6 DEF MemoryInv, StoredInv
<1>8. MemoryTypes' /\ WriterInv'
  BY <1>1 DEF MemoryTypes, WriterInv
<1>9. StoredAt(step)'
  <2>1. StoredAt(k)'
    BY <1>5, <1>6
  <2> QED BY <1>2, <2>1 DEF StoredAt
<1> QED BY <1>1, <1>2, <1>7, <1>8, <1>9, WriterMoves

-----------------------------------------------------------------------------
(* The pipe and the programmer.                                            *)

\* A step that moves no byte past another and leaves the parser alone.
LEMMA QuietConversation ==
  ASSUME Conversation, Incoming' = Incoming, Outgoing' = Outgoing, reply = <<>> => reply' = <<>>,
         UNCHANGED <<st, cmd, args, need, size, mem, page, fill, leaving, got, step>>
  PROVE  Conversation'
<1>1. Deaf => Deaf'
  BY DEF Deaf
<1>2. Answering => Answering'
  BY DEF Answering
<1>3. \A j \in Nat : Asking(j) => Asking(j)'
  BY DEF Asking, InStep
<1> QED BY <1>1, <1>2, <1>3 DEF Conversation

LEMMA QuietStep ==
  ASSUME PipeInv, Conversation, ParserTypes, MemoryTypes, MemoryInv,
         PipeStep \/ PutReply \/ StkIdle, UNCHANGED <<toSend, got, step>>
  PROVE  PipeInv' /\ Conversation' /\ ParserTypes' /\ MemoryTypes' /\ MemoryInv'
<1>1. UNCHANGED <<flash, eeprom, at, st, cmd, addr, args, need, size, mem, page, fill, leaving>>
  BY DEF PipeStep, PutReply, StkIdle, nvmVars, stkVars
<1>2. PipeInv' /\ Unread' = Unread /\ Outgoing' = Outgoing /\ ~Writing /\ ~Writing'
  <2>1. CASE PipeStep
    BY <2>1, PipeStepKeeps
  <2>2. CASE PutReply
    BY <2>2, PutKeeps
  <2>3. CASE StkIdle
    <3>1. /\ cpu = "stk" /\ cpu' = "usb"
          /\ UNCHANGED <<ret, trnIrq, rxBuf, outNak, outTrn, rxCnt, rxIdx, txBuf, txLen, inFlight, inCnt, inNak, inTrn, reply>>
      BY <2>3 DEF StkIdle, rxVars, txVars, stkVars
    <3>2. PipeShape' /\ RxInv' /\ TxInv'
      BY <1>1, <3>1 DEF PipeInv, PipeShape, RxInv, TxInv
    <3>3. CpuInv'
      BY <1>1, <3>1 DEF PipeInv, CpuInv, Writing
    <3>4. Unread' = Unread /\ Outgoing' = Outgoing
      BY <3>1 DEF Unread, Outgoing, Offered, InBytes, Staged
    <3> QED BY <3>1, <3>2, <3>3, <3>4 DEF PipeInv, Writing
  <2> QED BY <2>1, <2>2, <2>3
<1>3. Incoming' = Incoming
  BY <1>2 DEF Incoming
<1>4. reply = <<>> => reply' = <<>>
  <2>1. CASE PutReply
    BY <2>1 DEF PutReply, TxByte, PipeInv, CpuInv
  <2>2. CASE PipeStep \/ StkIdle
    BY <2>2 DEF PipeStep, StkIdle, stkVars
  <2> QED BY <2>1, <2>2
<1>5. Conversation'
  BY <1>1, <1>2, <1>3, <1>4, QuietConversation
<1>6. MemoryInv'
  BY <1>1, <1>2, <1>3, MemoryFrame
<1> QED BY <1>1, <1>2, <1>5, <1>6 DEF ParserTypes, MemoryTypes

\* The programmer starts on message k.
LEMMA MessageStarts ==
  ASSUME PipeInv, Incoming = <<>>, Outgoing = <<>>, NEW k \in 1 .. Len(Script), step' = k,
         toSend' = Send(Script[k]), got' = <<>>, UNCHANGED <<pipeVars, stkVars>>
  PROVE  /\ PipeInv' /\ Incoming' # <<>> /\ Outgoing' = <<>>
         /\ ~leaving /\ st = "idle" => Asking(0)'
<1> DEFINE s == Send(Script[k])
<1>1. UNCHANGED <<cpu, ret, trnIrq, rxBuf, outNak, outTrn, rxCnt, rxIdx, txBuf, txLen, inFlight, inCnt, inNak, inTrn>>
  BY DEF pipeVars, rxVars, txVars
<1>2. UNCHANGED <<st, cmd, addr, args, need, size, mem, page, fill, reply, leaving>>
  BY DEF stkVars
<1>3. Allowed(Script[k])
  BY ScriptMessage
<1>4. /\ s \in Seq(Cell) /\ Len(s) = Final(Script[k]) + 1 /\ Final(Script[k]) \in Nat \ {0}
      /\ Len(Script[k].args) \in Nat
  BY <1>3, MessageBytes, FinalNat
<1>5. PipeInv'
  <2>1. PipeShape'
    BY <1>1, <1>2, <1>4, NoCells DEF PipeInv, PipeShape
  <2>2. RxInv' /\ TxInv'
    BY <1>1, <1>2 DEF PipeInv, RxInv, TxInv
  <2>3. CpuInv'
    BY <1>1, <1>2 DEF PipeInv, CpuInv, Writing
  <2> QED BY <2>1, <2>2, <2>3 DEF PipeInv
<1>6. Outgoing' = <<>>
  BY <1>1, <1>2 DEF Outgoing, Offered, InBytes, Staged
<1>7. Unread' = <<>>
  <2>1. Unread \in Seq(Cell) /\ toSend \in Seq(Cell) /\ Unread \o toSend = <<>>
    BY PipeParts DEF PipeInv, PipeShape, Incoming
  <2>2. Unread = <<>>
    BY <2>1, JoinedEmpty
  <2> QED BY <1>1, <2>2 DEF Unread
<1>8. Incoming' = s
  <2>1. <<>> \o s = s
    BY <1>4, CellsJoin, NoCells
  <2> QED BY <1>7, <2>1 DEF Incoming
<1>9. Incoming' # <<>>
  BY <1>4, <1>8, CellsLength
<1>10. ASSUME ~leaving, st = "idle" PROVE Asking(0)'
  <2>1. SubSeq(s, 0 + 1, Final(Script[k]) + 1) = s
    BY <1>4, CellsPart
  <2>2. InStep(Script[k], 0)'
    BY <1>2, <1>4, <1>10 DEF InStep
  <2>3. k # 0
    OBVIOUS
  <2> QED BY <1>2, <1>4, <1>6, <1>8, <1>10, <2>1, <2>2, <2>3 DEF Asking
<1> QED BY <1>5, <1>6, <1>9, <1>10

LEMMA StartStep ==
  ASSUME PipeInv, Conversation, ParserTypes, MemoryTypes, MemoryInv, ~Abandon, StartSession
  PROVE  PipeInv' /\ Conversation' /\ ParserTypes' /\ MemoryTypes' /\ MemoryInv'
<1>1. /\ step = 0 /\ step' = 1 /\ toSend' = Send(Script[1]) /\ got' = <<>>
      /\ UNCHANGED <<pipeVars, nvmVars, stkVars>>
  BY DEF StartSession, device
<1>2. /\ Outgoing = <<>> /\ Incoming = <<>> /\ (leaving \/ st = "idle")
  BY <1>1 DEF Conversation, Deaf, Answering, Asking
<1>3. 1 \in 1 .. Len(Script)
  BY ScriptAssumption
<1>4. PipeInv' /\ Incoming' # <<>> /\ Outgoing' = <<>> /\ (~leaving /\ st = "idle" => Asking(0)')
  BY <1>1, <1>2, <1>3, MessageStarts
<1>5. reply = <<>>
  BY <1>2, NothingOut
<1>6. UNCHANGED <<leaving, reply, addr, flash, eeprom, at, cpu>>
  BY <1>1 DEF stkVars, nvmVars, pipeVars
<1>7. Conversation'
  <2>1. CASE leaving
    <3>1. Deaf'
      BY <1>1, <1>4, <1>5, <1>6, <2>1 DEF Deaf
    <3> QED BY <3>1 DEF Conversation
  <2>2. CASE ~leaving
    <3>1. Asking(0)'
      BY <1>2, <1>4, <2>2
    <3>2. \E j \in Nat : Asking(j)'
      BY <3>1
    <3> QED BY <3>2 DEF Conversation
  <2> QED BY <2>1, <2>2
<1>8. ParserTypes' /\ MemoryTypes'
  BY <1>1 DEF ParserTypes, MemoryTypes, stkVars, nvmVars
<1>9. MemoryInv'
  <2>1. AddrInv'
    <3>1. Loaded(0)'
      BY DEF Loaded
    <3> QED BY <1>1, <1>4, <3>1 DEF AddrInv, Loaded
  <2>2. ~Writing'
    BY <1>5, <1>6 DEF PipeInv, CpuInv, Writing
  <2>3. 1 .. 1 - 1 = {}
    OBVIOUS
  <2> QED BY <1>1, <1>4, <2>1, <2>2, <2>3 DEF MemoryInv, WriterInv, StoredInv
<1> QED BY <1>4, <1>7, <1>8, <1>9

LEMMA SendStep ==
  ASSUME PipeInv, Conversation, ParserTypes, MemoryTypes, MemoryInv, HostSend
  PROVE  PipeInv' /\ Conversation' /\ ParserTypes' /\ MemoryTypes' /\ MemoryInv'
<1>1. /\ UNCHANGED <<flash, eeprom, at, st, cmd, addr, args, need, size, mem, page, fill, reply, leaving, got, step>>
      /\ UNCHANGED <<cpu, txBuf, txLen>>
  BY DEF HostSend, OutPacket, device, nvmVars, stkVars, txVars
<1>2. PipeInv' /\ Incoming' = Incoming /\ Outgoing' = Outgoing
  BY <1>1, SendKeeps
<1>3. Conversation'
  BY <1>1, <1>2, QuietConversation
<1>4. MemoryInv'
  BY <1>1, <1>2, MemoryFrame
<1> QED BY <1>1, <1>2, <1>3, <1>4 DEF ParserTypes, MemoryTypes

LEMMA ReadStep ==
  ASSUME PipeInv, Conversation, ParserTypes, MemoryTypes, MemoryInv, HostRead
  PROVE  PipeInv' /\ Conversation' /\ ParserTypes' /\ MemoryTypes' /\ MemoryInv'
<1>1. /\ UNCHANGED <<flash, eeprom, at, st, cmd, addr, args, need, size, mem, page, fill, reply, leaving, step>>
      /\ UNCHANGED cpu /\ ~inNak
  BY DEF HostRead, InPacket, device, nvmVars, stkVars
<1>2. PipeInv' /\ Incoming' = Incoming /\ got' \o Outgoing' = got \o Outgoing
  BY <1>1, ReadKeeps
<1>3. Outgoing # <<>>
  BY <1>1, NothingOut
<1>4. Answering
  BY <1>3 DEF Conversation, Deaf, Asking
<1>5. Conversation'
  <2>1. Answering'
    BY <1>1, <1>2, <1>4 DEF Answering
  <2> QED BY <2>1 DEF Conversation
<1>6. MemoryInv'
  BY <1>1, <1>2, MemoryFrame
<1> QED BY <1>1, <1>2, <1>5, <1>6 DEF ParserTypes, MemoryTypes

LEMMA NextStep ==
  ASSUME PipeInv, Conversation, ParserTypes, MemoryTypes, MemoryInv, step \in 0 .. Len(Script), HostNext
  PROVE  PipeInv' /\ Conversation' /\ ParserTypes' /\ MemoryTypes' /\ MemoryInv'
<1>1. /\ step > 0 /\ toSend = <<>> /\ Len(got) >= Len(Script[step].expect) /\ got' = <<>>
      /\ IF step < Len(Script) THEN step' = step + 1 /\ toSend' = Send(Script[step + 1])
                               ELSE step' = 0 /\ toSend' = <<>>
      /\ UNCHANGED <<pipeVars, nvmVars, stkVars>>
  BY DEF HostNext, device
<1>2. PICK k : k = step
  OBVIOUS
<1>3. k \in 1 .. Len(Script) /\ Len(Script) \in Nat
  BY <1>1, <1>2, ScriptAssumption
<1>4. Script[k].expect \in Seq(Cell) /\ Script[k].expect # <<>>
  BY <1>3, ExpectCells
<1>5. got \in Seq(Cell) /\ Outgoing \in Seq(Cell)
  BY PipeParts DEF PipeInv, PipeShape
<1>6. Len(Script[k].expect) \in Nat \ {0} /\ Len(got) \in Nat /\ Len(got) # 0
  <2>1. Len(Script[k].expect) \in Nat /\ Len(Script[k].expect) # 0 /\ Len(got) \in Nat
    BY <1>4, <1>5, CellsLength
  <2> QED BY <1>1, <1>2, <2>1
<1>7. got # <<>>
  BY <1>5, <1>6, CellsLength
<1>8. Answering
  BY <1>1, <1>7 DEF Conversation, Deaf, Asking
<1>9. Outgoing = <<>>
  <2>1. Len(Script[k].expect) = Len(got) + Len(Outgoing)
    BY <1>2, <1>5, <1>8, CellsJoin DEF Answering
  <2>2. Len(Outgoing) \in Nat
    BY <1>5, CellsLength
  <2>3. Len(Outgoing) = 0
    BY <1>1, <1>2, <1>6, <2>1, <2>2
  <2> QED BY <1>5, <2>3, CellsLength
<1>10. Incoming = <<>> /\ st = "idle" /\ (leaving <=> k = Len(Script))
  BY <1>2, <1>8 DEF Answering
<1>11. UNCHANGED <<flash, eeprom, at, st, cmd, addr, args, need, size, mem, page, fill, reply, leaving>>
  BY <1>1 DEF nvmVars, stkVars
<1>12. ~Writing /\ ~Writing'
  <2>1. reply = <<>> /\ UNCHANGED cpu
    BY <1>1, <1>9, NothingOut DEF pipeVars
  <2> QED BY <2>1 DEF PipeInv, CpuInv, Writing
<1>13. \A j : StoredAt(j)' <=> StoredAt(j)
  BY <1>11 DEF StoredAt, Programs, Address, Mem
<1>14. \A j \in 1 .. k : StoredAt(j)
  BY <1>1, <1>2, <1>3, <1>10, <1>12 DEF MemoryInv, StoredInv
<1>15. CASE step < Len(Script)
  <2>1. k + 1 \in 1 .. Len(Script) /\ step' = k + 1 /\ toSend' = Send(Script[k + 1]) /\ ~leaving
    BY <1>1, <1>2, <1>3, <1>10, <1>15
  <2>2. PipeInv' /\ Incoming' # <<>> /\ Asking(0)'
    BY <1>1, <1>9, <1>10, <2>1, MessageStarts
  <2>3. Conversation'
    <3>1. \E j \in Nat : Asking(j)'
      BY <2>2
    <3> QED BY <3>1 DEF Conversation
  <2>4. AddrInv'
    <3>1. Loaded(k)
      BY <1>1, <1>2, <1>10 DEF MemoryInv, AddrInv, Loaded
    <3>2. k > 0 /\ Script[k].cmd = LoadAddress => addr' = Script[k].args[1] + 256 * Script[k].args[2]
      BY <1>11, <3>1 DEF Loaded
    <3>3. step' - 1 = k
      BY <1>3, <2>1
    <3>4. (Loaded(step - 1))'
      BY <3>2, <3>3 DEF Loaded
    <3> QED BY <2>2, <3>4 DEF AddrInv
  <2>5. StoredInv'
    <3>1. \A j \in 1 .. k : StoredAt(j)'
      BY <1>13, <1>14
    <3>2. 1 .. step' - 1 = 1 .. k
      BY <1>3, <2>1
    <3> QED BY <2>2, <3>1, <3>2 DEF StoredInv
  <2> QED BY <1>11, <1>12, <2>2, <2>3, <2>4, <2>5 DEF ParserTypes, MemoryTypes, MemoryInv, WriterInv
<1>16. CASE ~(step < Len(Script))
  <2>1. step' = 0 /\ toSend' = <<>> /\ leaving
    BY <1>1, <1>2, <1>3, <1>10, <1>16
  <2>2. PipeInv' /\ Incoming' = Incoming /\ Outgoing' = Outgoing
    <3>1. UNCHANGED <<cpu, ret, trnIrq, rxBuf, outNak, outTrn, rxCnt, rxIdx, txBuf, txLen, inFlight, inCnt, inNak, inTrn, toSend>>
      BY <1>1, <2>1 DEF pipeVars, rxVars, txVars
    <3>2. PipeShape' /\ RxInv' /\ TxInv'
      BY <1>1, <1>11, <3>1, NoCells DEF PipeInv, PipeShape, RxInv, TxInv
    <3>3. CpuInv'
      BY <1>11, <3>1 DEF PipeInv, CpuInv, Writing
    <3>4. Incoming' = Incoming /\ Outgoing' = Outgoing
      BY <1>11, <3>1 DEF Incoming, Unread, Outgoing, Offered, InBytes, Staged
    <3> QED BY <3>2, <3>3, <3>4 DEF PipeInv
  <2>3. Conversation'
    BY <1>1, <1>9, <1>10, <1>11, <2>1, <2>2 DEF Conversation
  <2>4. 1 .. 0 - 1 = {}
    OBVIOUS
  <2> QED BY <1>11, <1>12, <2>1, <2>2, <2>3, <2>4
          DEF ParserTypes, MemoryTypes, MemoryInv, AddrInv, WriterInv, StoredInv
<1> QED BY <1>15, <1>16

-----------------------------------------------------------------------------
(* The whole.                                                              *)

\* What a reset leaves of the bootloader and its programmer.
Fresh ==
  /\ PipeInit /\ StkInit /\ step = 0 /\ toSend = <<>> /\ got = <<>>

LEMMA FreshIsRight == Fresh => PipeInv /\ Conversation /\ ParserTypes /\ MemoryInv
<1> SUFFICES ASSUME Fresh PROVE PipeInv /\ Conversation /\ ParserTypes /\ MemoryInv
  OBVIOUS
<1>1. /\ cpu = "usb" /\ ret = "loop" /\ trnIrq = FALSE
      /\ rxBuf = <<>> /\ outNak = FALSE /\ outTrn = FALSE /\ rxCnt = 0 /\ rxIdx = 0
      /\ txBuf = [i \in 1 .. BlPacketSize |-> 0] /\ txLen = 0 /\ inFlight = FALSE
      /\ inCnt = 0 /\ inNak = TRUE /\ inTrn = FALSE
      /\ step = 0 /\ toSend = <<>> /\ got = <<>>
  BY DEF Fresh, PipeInit
<1>2. /\ st = "idle" /\ cmd = 0 /\ addr = 0 /\ args = <<>> /\ need = 0
      /\ size = 0 /\ mem = 0 /\ page = [i \in 0 .. PageBuf - 1 |-> 255] /\ fill = 0
      /\ reply = <<>> /\ leaving = FALSE
  BY DEF Fresh, StkInit
<1>3. 0 \in Cell /\ 255 \in Cell /\ BlPacketSize \in Nat \ {0} /\ PageBuf \in Nat \ {0}
  BY BlPipeAssumption, StkAssumption DEF Cell
<1>4. 0 \in Word
  <2>1. 0 <= LastWord
    BY DEF LastWord
  <2> QED BY <2>1, WordRange
<1>5. PipeInv
  <2>1. txBuf \in [1 .. BlPacketSize -> Cell]
    BY <1>1, <1>3
  <2>2. PipeShape
    BY <1>1, <1>2, <1>3, <2>1, NoCells DEF PipeShape
  <2>3. RxInv /\ TxInv /\ CpuInv
    BY <1>1, <1>2, NoCells DEF RxInv, TxInv, CpuInv, Writing
  <2> QED BY <2>2, <2>3 DEF PipeInv
<1>6. Outgoing = <<>> /\ Incoming = <<>>
  <2>1. Outgoing = <<>>
    BY <1>1, <1>2, <1>5, NothingOut
  <2>2. Unread = <<>>
    <3>1. SubSeq(<<>>, 1, 0) \in Seq(Cell) /\ Len(SubSeq(<<>>, 1, 0)) = 0
      BY NoCells, CellsPart
    <3> QED BY <1>1, <3>1, CellsLength DEF Unread
  <2>3. <<>> \o <<>> = <<>>
    BY NoCells, CellsJoin, CellsLength
  <2> QED BY <1>1, <2>1, <2>2, <2>3 DEF Incoming
<1>7. Conversation
  BY <1>1, <1>2, <1>6 DEF Conversation
<1>8. ParserTypes
  <2>1. page \in [0 .. PageBuf - 1 -> Cell]
    BY <1>2, <1>3
  <2> QED BY <1>2, <1>3, <1>4, <2>1, NoCells DEF ParserTypes
<1>9. MemoryInv
  <2>1. 1 .. 0 - 1 = {}
    OBVIOUS
  <2> QED BY <1>1, <2>1 DEF MemoryInv, AddrInv, WriterInv, StoredInv, Writing
<1> QED BY <1>5, <1>7, <1>8, <1>9

\* The counters of the programmer and of the bounds.
HostTypes ==
  step \in 0 .. Len(Script) /\ resets \in 0 .. MaxResets /\ sessions \in 0 .. MaxSessions

UploadInv ==
  /\ EntryTypes /\ HostTypes
  /\ PipeInv /\ Conversation /\ ParserTypes /\ MemoryTypes /\ MemoryInv

LEMMA EntryTypesStep == EntryTypes /\ [Next]_vars => EntryTypes'
<1> SUFFICES ASSUME EntryTypes, [Next]_vars PROVE EntryTypes'
  OBVIOUS
<1>1. CASE PowerOn \/ AppUsesRam
  <2>1. armed' \in BOOLEAN
    BY <1>1, EntryAssumption DEF PowerOn, AppUsesRam
  <2> QED BY <1>1, <2>1 DEF PowerOn, AppUsesRam, EntryTypes
<1>2. CASE Button
  BY <1>2 DEF Button, EntryTypes
<1>3. CASE Touch \/ Watchdog
  BY <1>3 DEF Touch, Watchdog, EntryTypes
<1>4. CASE Decide(Invalid)
  <2>1. CASE StayOnTouch \/ StayOnDoubleTap \/ OpenWindow
    BY <2>1 DEF StayOnTouch, StayOnDoubleTap, OpenWindow, EntryTypes
  <2>2. CASE WindowElapsed(Invalid) \/ PlainBoot(Invalid)
    BY <2>2 DEF WindowElapsed, PlainBoot, RunOrStay, EntryTypes
  <2> QED BY <1>4, <2>1, <2>2 DEF Decide
<1>5. CASE UNCHANGED entryVars
  BY <1>5 DEF entryVars, EntryTypes
<1> QED BY <1>1, <1>2, <1>3, <1>4, <1>5, EntryFrame DEF vars

LEMMA HostTypesStep == HostTypes /\ [Next]_vars => HostTypes'
<1> SUFFICES ASSUME HostTypes, [Next]_vars PROVE HostTypes'
  OBVIOUS
<1>1. MaxResets \in Nat /\ MaxSessions \in Nat /\ Len(Script) \in Nat \ {0}
  BY BootAssumption, ScriptAssumption
<1>2. CASE StartSession
  <2>1. sessions < MaxSessions /\ sessions' = sessions + 1 /\ step' = 1 /\ UNCHANGED resets
    BY <1>2 DEF StartSession
  <2> QED BY <1>1, <2>1 DEF HostTypes
<1>3. CASE HostNext
  <2>1. /\ step' = (IF step < Len(Script) THEN step + 1 ELSE 0)
        /\ UNCHANGED <<resets, sessions>>
    BY <1>3 DEF HostNext
  <2> QED BY <1>1, <2>1 DEF HostTypes
<1>4. CASE OutsideReset
  <2>1. resets < MaxResets /\ resets' = resets + 1 /\ step' = 0 /\ UNCHANGED sessions
    BY <1>4 DEF OutsideReset, AfterReset
  <2> QED BY <1>1, <2>1 DEF HostTypes
<1>5. CASE Exit
  <2>1. step' = 0 /\ UNCHANGED <<resets, sessions>>
    BY <1>5 DEF Exit, AfterReset
  <2> QED BY <1>1, <2>1 DEF HostTypes
<1>6. CASE HostSend \/ HostRead \/ Boot \/ Run \/ UNCHANGED vars
  <2>1. UNCHANGED <<step, resets, sessions>>
    BY <1>6 DEF HostSend, HostRead, Boot, Run, hostVars, vars
  <2> QED BY <2>1 DEF HostTypes
<1> QED BY <1>2, <1>3, <1>4, <1>5, <1>6 DEF Next, Host

LEMMA UploadStarts == Init => UploadInv
<1> SUFFICES ASSUME Init PROVE UploadInv
  OBVIOUS
<1>1. PipeInv /\ Conversation /\ ParserTypes /\ MemoryInv
  BY FreshIsRight DEF Init, Fresh
<1>2. EntryTypes
  <2>1. armed \in BOOLEAN
    BY EntryAssumption DEF Init, EntryInit
  <2> QED BY <2>1 DEF Init, EntryInit, EntryTypes
<1>3. HostTypes
  BY BootAssumption, ScriptAssumption DEF Init, HostTypes
<1>4. MemoryTypes
  <2>1. {Erased, 1, 2} \subseteq Cell
    BY DEF Erased, Cell
  <2>2. PICK old \in {Erased, 1} : flash = [a \in 0 .. FlashEnd - 1 |-> IF a < AppStart THEN 2 ELSE old]
    BY DEF Init
  <2>3. flash \in [0 .. FlashEnd - 1 -> Cell]
    BY <2>1, <2>2
  <2>4. eeprom \in [0 .. EepromSize - 1 -> Cell]
    BY <2>1 DEF Init
  <2>5. at \in 0 .. PageBuf + 1
    BY StkAssumption DEF Init
  <2> QED BY <2>3, <2>4, <2>5 DEF MemoryTypes
<1> QED BY <1>1, <1>2, <1>3, <1>4 DEF UploadInv

\* A turn of the bootloader's loop.
LEMMA LoopStep ==
  ASSUME PipeInv, Conversation, ParserTypes, MemoryTypes, MemoryInv, step \in 0 .. Len(Script),
         Loop, UNCHANGED <<toSend, got, step>>
  PROVE  PipeInv' /\ Conversation' /\ ParserTypes' /\ MemoryTypes' /\ MemoryInv'
<1>1. CASE PipeStep \/ PutReply \/ StkIdle
  BY <1>1, QuietStep
<1>2. CASE TakeCommand \/ TakeArg \/ TakeProgHeader \/ TakePayload \/ TakeReadHeader
  <2>1. PipeInv' /\ Conversation' /\ ParserTypes' /\ Incoming # <<>> /\ Incoming' # <<>>
    BY <1>2, CommandTaken, ArgTaken, ProgHeaderTaken, PayloadTaken, ReadHeaderTaken
  <2>2. cpu = "stk" /\ UNCHANGED <<cpu, flash, eeprom, at, addr>>
    BY <1>2 DEF TakeCommand, TakeArg, TakeProgHeader, TakePayload, TakeReadHeader, Pop, nvmVars
  <2>3. ~Writing /\ ~Writing'
    BY <2>2 DEF Writing
  <2>4. MemoryInv'
    BY <2>1, <2>2, <2>3, MemoryFrame
  <2> QED BY <2>1, <2>2, <2>4 DEF MemoryTypes
<1>3. CASE Refuse
  BY <1>3, RefuseStep
<1>4. CASE Acknowledge
  BY <1>4, AcknowledgeStep
<1>5. CASE SetAddress
  BY <1>5, SetAddressStep
<1>6. CASE Emit
  BY <1>6, EmitStep
<1>7. CASE Finalise
  BY <1>7, FinaliseStep
<1>8. CASE ErasePart
  BY <1>8, ErasePartStep
<1>9. CASE WordPart
  BY <1>9, WordPartStep
<1>10. CASE EepromPart
  BY <1>10, EepromPartStep
<1>11. CASE NvmEnd
  BY <1>11, NvmEndStep
<1> QED BY <1>1, <1>2, <1>3, <1>4, <1>5, <1>6, <1>7, <1>8, <1>9, <1>10, <1>11 DEF Loop, Parse, Write

LEMMA ResetStep ==
  ASSUME MemoryTypes, AfterReset
  PROVE  PipeInv' /\ Conversation' /\ ParserTypes' /\ MemoryTypes' /\ MemoryInv'
<1>1. Fresh'
  BY DEF AfterReset, PipeRestart, StkRestart, Fresh, PipeInit, StkInit
<1>2. PipeInv' /\ Conversation' /\ ParserTypes' /\ MemoryInv'
  BY <1>1, FreshIsRight, PTL
<1>3. MemoryTypes'
  <2>1. at' = 0 /\ UNCHANGED <<flash, eeprom>>
    BY DEF AfterReset
  <2> QED BY <2>1, StkAssumption DEF MemoryTypes
<1> QED BY <1>2, <1>3

\* The application and the decision at start-up touch neither pipe nor memory.
LEMMA OtherStep ==
  ASSUME PipeInv, Conversation, ParserTypes, MemoryTypes, MemoryInv,
         UNCHANGED <<pipeVars, nvmVars, stkVars, hostVars>>
  PROVE  PipeInv' /\ Conversation' /\ ParserTypes' /\ MemoryTypes' /\ MemoryInv'
<1>1. UNCHANGED <<cpu, ret, trnIrq, rxBuf, outNak, outTrn, rxCnt, rxIdx, txBuf, txLen, inFlight, inCnt, inNak, inTrn>>
  BY DEF pipeVars, rxVars, txVars
<1>2. UNCHANGED <<st, cmd, addr, args, need, size, mem, page, fill, reply, leaving>>
  BY DEF stkVars
<1>3. UNCHANGED <<flash, eeprom, at, step, toSend, got>>
  BY DEF nvmVars, hostVars
<1>4. PipeInv'
  <2>1. PipeShape' /\ RxInv' /\ TxInv'
    BY <1>1, <1>2, <1>3 DEF PipeInv, PipeShape, RxInv, TxInv
  <2>2. CpuInv'
    BY <1>1, <1>2 DEF PipeInv, CpuInv, Writing
  <2> QED BY <2>1, <2>2 DEF PipeInv
<1>5. Incoming' = Incoming /\ Outgoing' = Outgoing
  BY <1>1, <1>2, <1>3 DEF Incoming, Unread, Outgoing, Offered, InBytes, Staged
<1>6. Conversation'
  BY <1>2, <1>3, <1>5, QuietConversation
<1>7. MemoryInv'
  BY <1>1, <1>2, <1>3, <1>5, MemoryFrame
<1> QED BY <1>2, <1>3, <1>4, <1>6, <1>7 DEF ParserTypes, MemoryTypes

LEMMA UploadStep == ~Abandon /\ UploadInv /\ [Next]_vars => UploadInv'
<1> SUFFICES ASSUME ~Abandon, UploadInv, [Next]_vars PROVE UploadInv'
  OBVIOUS
<1>1. EntryTypes' /\ HostTypes'
  BY EntryTypesStep, HostTypesStep DEF UploadInv
<1>2. PipeInv /\ Conversation /\ ParserTypes /\ MemoryTypes /\ MemoryInv /\ step \in 0 .. Len(Script)
  BY DEF UploadInv, HostTypes
<1>3. PipeInv' /\ Conversation' /\ ParserTypes' /\ MemoryTypes' /\ MemoryInv'
  <2>1. CASE StartSession
    BY <1>2, <2>1, StartStep
  <2>2. CASE HostSend
    BY <1>2, <2>2, SendStep
  <2>3. CASE HostRead
    BY <1>2, <2>3, ReadStep
  <2>4. CASE HostNext
    BY <1>2, <2>4, NextStep
  <2>5. CASE OutsideReset \/ Exit
    <3>1. AfterReset
      BY <2>5 DEF OutsideReset, Exit
    <3> QED BY <1>2, <3>1, ResetStep
  <2>6. CASE Boot \/ UNCHANGED vars
    <3>1. UNCHANGED <<pipeVars, nvmVars, stkVars, hostVars>>
      BY <2>6 DEF Boot, vars
    <3> QED BY <1>2, <3>1, OtherStep
  <2>7. CASE Run
    <3>1. Loop /\ UNCHANGED <<toSend, got, step>>
      BY <2>7 DEF Run, hostVars
    <3> QED BY <1>2, <3>1, LoopStep
  <2> QED BY <2>1, <2>2, <2>3, <2>4, <2>5, <2>6, <2>7 DEF Next, Host
<1> QED BY <1>1, <1>3 DEF UploadInv

LEMMA UploadAlways == ~Abandon => (Spec => []UploadInv)
<1> SUFFICES ASSUME ~Abandon PROVE Spec => []UploadInv
  OBVIOUS
<1>1. UploadInv /\ [Next]_vars => UploadInv'
  BY UploadStep
<1> QED BY <1>1, UploadStarts, PTL DEF Spec

\* The variables of the bootloader and its programmer keep their types, and no
\* index of stk500.c, cdc_min.c or nvm.c leaves the array it is for.
THEOREM TypeCorrect == ~Abandon => (Spec => []TypeOK)
<1>1. UploadInv => TypeOK
  <2> SUFFICES ASSUME UploadInv PROVE TypeOK
    OBVIOUS
  <2>1. PipeTypes
    BY DEF UploadInv, PipeInv, PipeShape, PipeTypes, Cell
  <2>2. StkTypes
    <3>1. ParserTypes /\ reply \in Seq(Cell) /\ leaving \in BOOLEAN
      BY DEF UploadInv, PipeInv, PipeShape
    <3>2. /\ st \in {"idle", "args", "eop", "progHeader", "readHeader", "data"}
          /\ cmd \in Cell /\ addr \in Word /\ need \in 0 .. 20
          /\ args \in Seq(Cell) /\ size \in Word /\ mem \in Cell
          /\ page \in [0 .. PageBuf - 1 -> Cell] /\ fill \in 0 .. PageBuf
          /\ reply \in Seq(Cell) /\ leaving \in BOOLEAN
      BY <3>1 DEF ParserTypes
    <3>3. Cell = 0 .. 255
      BY DEF Cell
    <3> QED BY <3>2, <3>3 DEF StkTypes
  <2> QED BY <2>1, <2>2 DEF UploadInv, HostTypes, MemoryTypes, TypeOK, Cell
<1> QED BY <1>1, UploadAlways, PTL

\* What the programmer has read is a beginning of the answer it waits for, for
\* every script that STK500 allows: feed_byte() is in step with it, and
\* cdc_min_tx_byte() changes no byte of a packet in flight.
THEOREM AnswersCorrect == ~Abandon => (Spec => []AnswersRight)
<1>1. UploadInv => AnswersRight
  <2> SUFFICES ASSUME UploadInv, step > 0
               PROVE  /\ Len(got) <= Len(Script[step].expect)
                      /\ got = SubSeq(Script[step].expect, 1, Len(got))
    BY DEF AnswersRight
  <2>1. PICK e : e = Script[step].expect
    OBVIOUS
  <2>2. step \in 1 .. Len(Script)
    BY ScriptAssumption DEF UploadInv, HostTypes
  <2>3. e \in Seq(Cell) /\ got \in Seq(Cell) /\ Outgoing \in Seq(Cell)
    BY <2>1, <2>2, ExpectCells, PipeParts DEF UploadInv, PipeInv, PipeShape
  <2>4. got = <<>> \/ got \o Outgoing = e
    BY <2>1 DEF UploadInv, Conversation, Deaf, Asking, Answering
  <2>5. CASE got = <<>>
    <3>1. Len(got) = 0 /\ Len(e) \in Nat
      BY <2>3, <2>5, CellsLength
    <3>2. SubSeq(e, 1, 0) \in Seq(Cell) /\ Len(SubSeq(e, 1, 0)) = 0
      BY <2>3, <3>1, CellsPart
    <3>3. SubSeq(e, 1, 0) = <<>>
      BY <3>2, CellsLength
    <3> QED BY <2>1, <2>5, <3>1, <3>3
  <2>6. CASE got \o Outgoing = e
    <3>1. Len(e) = Len(got) + Len(Outgoing) /\ Len(got) \in Nat /\ Len(Outgoing) \in Nat
      BY <2>3, <2>6, CellsJoin, CellsLength
    <3>2. Len(got) \in 0 .. Len(e)
      BY <3>1
    <3>3. \A i \in 1 .. Len(got) : e[i] = got[i]
      BY <2>3, <2>6, CellsJoin
    <3>4. SubSeq(e, 1, Len(got)) \in Seq(Cell) /\ Len(SubSeq(e, 1, Len(got))) = Len(got)
          /\ \A i \in 1 .. Len(got) : SubSeq(e, 1, Len(got))[i] = e[i]
      <4>1. \A i \in 1 .. Len(got) : e[i] \in Cell
        BY <2>3, <3>3, ElementOfSeq
      <4> QED BY <3>1, <4>1, CellsOf
    <3>5. got = SubSeq(e, 1, Len(got))
      BY <2>3, <3>3, <3>4, SeqEqual
    <3> QED BY <2>1, <3>1, <3>5
  <2> QED BY <2>4, <2>5, <2>6
<1> QED BY <1>1, UploadAlways, PTL

\* What was programmed and answered with OK is in memory: nvm_write_page() and
\* nvm_write_eeprom() are done before the answer, on erased cells, and no later
\* page of the script undoes them.
THEOREM StoredCorrect == ~Abandon => (Spec => []AcknowledgedIsStored)
<1>1. UploadInv => AcknowledgedIsStored
  BY DEF UploadInv, MemoryInv, StoredInv, StoredAt, AcknowledgedIsStored
<1> QED BY <1>1, UploadAlways, PTL
=============================================================================
