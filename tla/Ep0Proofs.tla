----------------------------- MODULE Ep0Proofs ------------------------------
(***************************************************************************)
(* Ep0Control, for every packet size, answer length and bound: its types,  *)
(* and, when no SETUP overtakes the service of the last completion and the *)
(* host does not give up in an OUT data stage, that the address is applied *)
(* after its status stage, that every SETUP that is decoded is fresh and   *)
(* that a control read is complete; and that the touch reset waits for the *)
(* status stage.                                                           *)
(***************************************************************************)
EXTENDS Ep0Control, TLAPS

-----------------------------------------------------------------------------
(* The inductive invariant: how the stage of the host's transfer, the      *)
(* control state machine and the flags of endpoint 0 fit together.         *)

\* A SETUP waits for its handler: both directions are quiet, and the buffer
\* holds the host's request unless the host has given it up since.
SetupWaits ==
  setupIrq =>
    /\ inNak /\ outNak /\ ~inTrn /\ ~outTrn
    /\ outPtr = "setup" /\ addr = hostAddr
    /\ phase # "idle" => setupBuf = req /\ phase = FirstPhase(req)
    /\ phase = "idle" => setupBuf.kind \notin {"line", "report"}

\* The stages of the host's transfer belong to its request.
Stages ==
  /\ phase = "idle" => req = NoRequest
  /\ phase \in {"dataIn", "statusOut"} => req.kind = "get"
  /\ phase = "dataOut" => req.kind \in {"line", "report"}
  /\ phase = "dataMore" => req.kind = "report"

\* Once decoded, a SET_ADDRESS and nothing else leaves the state machine
\* waiting to apply an address.
Decoded ==
  /\ ~setupIrq /\ phase # "idle" =>
       IF req.kind = "address"
       THEN state = "pendingAddr" /\ pendingAddr = req.addr /\ ~inTrn
       ELSE state # "pendingAddr"
  /\ state = "pendingAddr" => ~outTrn
  /\ state = "pendingAddr" /\ inTrn => pendingAddr = hostAddr

\* EP[0].OUT.DATAPTR is away from the SETUP buffer only in an OUT data stage.
PointerAway ==
  outPtr # "setup" =>
    /\ state = "dataOut" /\ inNak /\ ~inTrn /\ ~stall
    /\ phase = "dataOut" \/ outTrn

PipeInv == SetupWaits /\ Stages /\ Decoded /\ PointerAway /\ AddressInStep

-----------------------------------------------------------------------------
(* Types.                                                                  *)

\* What the handlers read from a request has the type they store it with.
LEMMA RequestFields ==
  ASSUME NEW r \in Request \cup {NoRequest}
  PROVE  /\ r.kind = "get" => r.len \in Nat /\ r.want \in Nat
         /\ r.kind = "address" => r.addr \in 0 .. MaxAddr
         /\ r.kind = "config" => r.value \in 0 .. 2
         /\ r.kind = "state" => r.dtr \in BOOLEAN
         /\ r.kind = "line" => r.slow \in BOOLEAN
BY Ep0Assumption DEF Request, NoRequest, Get, Address, Config, Line, State, Report, Other

\* A packet never holds more than the endpoint takes or than is left.
LEMMA ChunkFits ==
  ASSUME NEW left \in Nat
  PROVE  /\ ChunkSize(left) \in 0 .. PacketSize
         /\ ChunkSize(left) <= left
BY Ep0Assumption DEF ChunkSize

\* The initial state is well typed.
LEMMA TypeInit == Init => TypeOK
<1> SUFFICES ASSUME Init PROVE TypeOK
  OBVIOUS
<1>1. DataTypes
  BY Ep0Assumption DEF Init, DataTypes
<1>2. FlagTypes
  BY DEF Init, FlagTypes
<1> QED BY <1>1, <1>2 DEF TypeOK

\* A SETUP handler keeps the types.
LEMMA TypeSetup == TypeOK /\ SetupPart => TypeOK'
<1> USE DEF TypeOK, Decode, ctrl, inEp, outEp, intr, device, cdc, touch, host
<1> SUFFICES ASSUME TypeOK, SetupPart PROVE TypeOK'
  OBVIOUS
<1>1. CASE SetupGet
  <2>1. setupBuf.len \in Nat /\ setupBuf.want \in Nat
    BY <1>1, RequestFields DEF SetupGet, DataTypes
  <2> DEFINE n == IF setupBuf.len > setupBuf.want THEN setupBuf.want ELSE setupBuf.len
  <2>2. n \in Nat
    BY <2>1
  <2>3. ChunkSize(n) \in 0 .. PacketSize /\ ChunkSize(n) <= n
    BY <2>2, ChunkFits
  <2>4. needZlp' = NeedZlp(n, setupBuf.want) /\ SendChunk(0, n, ChunkSize(n))
    BY <1>1 DEF SetupGet, StartDataIn
  <2>5. src' \in Nat /\ rem' \in Nat /\ inFrom' \in Nat /\ inCnt' \in 0 .. PacketSize
    <3> HIDE DEF n
    <3> QED BY <2>2, <2>3, <2>4, Ep0Assumption DEF SendChunk
  <2>6. DataTypes'
    BY <1>1, <2>5 DEF SetupGet, StartDataIn, DataTypes
  <2>7. needZlp' \in BOOLEAN
    BY <2>4 DEF NeedZlp
  <2>8. FlagTypes'
    BY <1>1, <2>7 DEF SetupGet, StartDataIn, SendChunk, FlagTypes
  <2> QED BY <2>6, <2>8
<1>2. CASE SetupAddress
  <2>1. DataTypes'
    BY <1>2, RequestFields, Ep0Assumption DEF DataTypes, SetupAddress
  <2>2. /\ stall' \in BOOLEAN /\ inNak' \in BOOLEAN /\ setupIrq' \in BOOLEAN
        /\ UNCHANGED <<needZlp, inTrn, outNak, outTrn, trnIrq, slow, dtr,
                       pendingSlc, reportPending, inOrder, touched, owed>>
    BY <1>2 DEF SetupAddress
  <2>3. FlagTypes'
    BY <2>2 DEF FlagTypes
  <2> QED BY <2>1, <2>3
<1>3. CASE SetupConfig
  <2>1. DataTypes'
    BY <1>3, Ep0Assumption DEF DataTypes, SetupConfig, SendZlp
  <2>2. /\ inNak' \in BOOLEAN /\ inTrn' \in BOOLEAN /\ stall' \in BOOLEAN /\ setupIrq' \in BOOLEAN
        /\ UNCHANGED <<needZlp, outNak, outTrn, trnIrq, slow, dtr,
                       pendingSlc, reportPending, inOrder, touched, owed>>
    BY <1>3 DEF SetupConfig, SendZlp
  <2>3. FlagTypes'
    BY <2>2 DEF FlagTypes
  <2> QED BY <2>1, <2>3
<1>4. CASE SetupLine
  <2>1. DataTypes'
    BY <1>4, Ep0Assumption DEF DataTypes, SetupLine, StartDataOut
  <2>2. FlagTypes'
    BY <1>4 DEF FlagTypes, SetupLine, StartDataOut
  <2> QED BY <2>1, <2>2
<1>5. CASE SetupState
  <2>1. DataTypes'
    BY <1>5, Ep0Assumption DEF DataTypes, SetupState, ArmTouch, SendZlp
  <2>2. dtr' \in BOOLEAN
    BY <1>5, RequestFields DEF SetupState, DataTypes
  <2>3. owed' \in BOOLEAN
    BY <1>5 DEF SetupState, ArmTouch, FlagTypes
  <2>4. FlagTypes'
    BY <1>5, <2>2, <2>3 DEF FlagTypes, SetupState, SendZlp
  <2> QED BY <2>1, <2>4
<1>6. CASE SetupReport
  <2>1. DataTypes'
    BY <1>6, Ep0Assumption DEF DataTypes, SetupReport, StartDataOut
  <2>2. /\ outNak' \in BOOLEAN /\ outTrn' \in BOOLEAN /\ stall' \in BOOLEAN /\ setupIrq' \in BOOLEAN /\ reportPending' \in BOOLEAN
        /\ UNCHANGED <<needZlp, inNak, inTrn, trnIrq, slow, dtr,
                       pendingSlc, inOrder, touched, owed>>
    BY <1>6 DEF SetupReport, StartDataOut
  <2>3. FlagTypes'
    BY <2>2 DEF FlagTypes
  <2> QED BY <2>1, <2>3
<1>7. CASE SetupPlain \/ SetupEmpty
  <2>1. DataTypes'
    BY <1>7, Ep0Assumption DEF DataTypes, SetupPlain, SetupEmpty, SendZlp
  <2>2. /\ inNak' \in BOOLEAN /\ inTrn' \in BOOLEAN /\ stall' \in BOOLEAN /\ setupIrq' \in BOOLEAN
        /\ UNCHANGED <<needZlp, outNak, outTrn, trnIrq, slow, dtr,
                       pendingSlc, reportPending, inOrder, touched, owed>>
    BY <1>7 DEF SetupPlain, SetupEmpty, SendZlp
  <2>3. FlagTypes'
    BY <2>2 DEF FlagTypes
  <2> QED BY <2>1, <2>3
<1>8. CASE SetupBad \/ SetupBadConfig
  <2>1. DataTypes'
    BY <1>8, Ep0Assumption DEF DataTypes, SetupBad, SetupBadConfig, Refuse
  <2>2. stall' \in BOOLEAN /\ setupIrq' \in BOOLEAN /\ UNCHANGED
                  <<needZlp, inNak, inTrn, outNak, outTrn, trnIrq, slow,
                    dtr, pendingSlc, reportPending, inOrder, touched,
                    owed>>
    BY <1>8 DEF FlagTypes, SetupBad, SetupBadConfig, Refuse
  <2>3. FlagTypes'
    BY <2>2 DEF FlagTypes
  <2> QED BY <2>1, <2>3
<1> QED BY <1>1, <1>2, <1>3, <1>4, <1>5, <1>6, <1>7, <1>8 DEF SetupPart

\* A completion handler keeps the types.
LEMMA TypeTrncompl == TypeOK /\ TrncomplPart => TypeOK'
<1> USE DEF TypeOK, InPart, ctrl, inEp, outEp, intr, device, cdc, touch, host
<1> SUFFICES ASSUME TypeOK, TrncomplPart PROVE TypeOK'
  OBVIOUS
<1>1. CASE EnterTrncompl \/ NoIn \/ NoOut \/ AckTrncompl
  <2>1. DataTypes'
    BY <1>1 DEF DataTypes, EnterTrncompl, NoIn, NoOut, AckTrncompl
  <2>2. trnIrq' \in BOOLEAN /\ UNCHANGED
                  <<needZlp, inNak, inTrn, outNak, outTrn, stall,
                    setupIrq, slow, dtr, pendingSlc, reportPending,
                    inOrder, touched, owed>>
    BY <1>1 DEF FlagTypes, EnterTrncompl, NoIn, NoOut, AckTrncompl
  <2>3. FlagTypes'
    BY <2>2 DEF FlagTypes
  <2> QED BY <2>1, <2>3
<1>2. CASE NextChunk
  <2>1. ChunkSize(rem) \in 0 .. PacketSize /\ ChunkSize(rem) <= rem
    BY ChunkFits DEF DataTypes
  <2>2. src' \in Nat /\ rem' \in Nat /\ inFrom' \in Nat /\ inCnt' \in 0 .. PacketSize
    BY <1>2, <2>1, Ep0Assumption DEF NextChunk, SendChunk, DataTypes
  <2>3. DataTypes'
    BY <1>2, <2>2 DEF DataTypes, NextChunk
  <2>4. /\ inTrn' \in BOOLEAN /\ inNak' \in BOOLEAN
        /\ UNCHANGED <<needZlp, outNak, outTrn, stall, setupIrq, trnIrq, slow,
                       dtr, pendingSlc, reportPending, inOrder, touched, owed>>
    BY <1>2 DEF NextChunk, SendChunk
  <2>5. FlagTypes'
    BY <2>4 DEF FlagTypes
  <2> QED BY <2>3, <2>5
<1>3. CASE LastZlp
  <2>1. src' = src + 0 /\ rem' = rem - 0 /\ inFrom' = src /\ inCnt' = 0
    BY <1>3 DEF LastZlp, SendChunk
  <2>2. src' \in Nat /\ rem' \in Nat /\ inFrom' \in Nat /\ inCnt' \in 0 .. PacketSize
    BY <2>1, Ep0Assumption DEF DataTypes
  <2>3. isr' = "out" /\ UNCHANGED <<state, setupBuf, outPtr, addr, pendingAddr, cfg,
                                   countdown, phase, req, hostAddr, rcvd, requests, resets>>
    BY <1>3 DEF LastZlp
  <2>4. DataTypes'
    BY <2>2, <2>3 DEF DataTypes
  <2>5. /\ needZlp' \in BOOLEAN /\ inTrn' \in BOOLEAN /\ inNak' \in BOOLEAN
        /\ UNCHANGED <<outNak, outTrn, stall, setupIrq, trnIrq, slow,
                       dtr, pendingSlc, reportPending, inOrder, touched, owed>>
    BY <1>3 DEF LastZlp, SendChunk
  <2>6. FlagTypes'
    BY <2>5 DEF FlagTypes
  <2> QED BY <2>4, <2>6
<1>4. CASE DataInDone \/ ApplyAddress \/ StatusInDone
  <2>1. DataTypes'
    BY <1>4, Ep0Assumption DEF DataTypes, DataInDone, ApplyAddress, StatusInDone
  <2>2. inTrn' \in BOOLEAN /\ UNCHANGED
                  <<needZlp, inNak, outNak, outTrn, stall, setupIrq,
                    trnIrq, slow, dtr, pendingSlc, reportPending, inOrder,
                    touched, owed>>
    BY <1>4 DEF FlagTypes, DataInDone, ApplyAddress, StatusInDone
  <2>3. FlagTypes'
    BY <2>2 DEF FlagTypes
  <2> QED BY <2>1, <2>3
<1>5. CASE DataOutDone
  <2>1. DataTypes'
    BY <1>5, Ep0Assumption
    DEF DataTypes, DataOutDone, DataOutConsumer, LineCodingDone, ArmTouch, SendZlp
  <2>2. pendingSlc' \in BOOLEAN /\ reportPending' \in BOOLEAN
    BY <1>5 DEF FlagTypes, DataOutDone, DataOutConsumer, LineCodingDone
  <2>3. owed' \in BOOLEAN
    BY <1>5 DEF FlagTypes, DataOutDone, DataOutConsumer, LineCodingDone, ArmTouch
  <2>4. FlagTypes'
    BY <1>5, <2>2, <2>3 DEF FlagTypes, DataOutDone, SendZlp
  <2> QED BY <2>1, <2>4
<1>6. CASE StatusOutDone
  <2>1. DataTypes'
    BY <1>6 DEF DataTypes, StatusOutDone
  <2>2. outTrn' \in BOOLEAN /\ UNCHANGED
                  <<needZlp, inNak, inTrn, outNak, stall, setupIrq,
                    trnIrq, slow, dtr, pendingSlc, reportPending, inOrder,
                    touched, owed>>
    BY <1>6 DEF FlagTypes, StatusOutDone
  <2>3. FlagTypes'
    BY <2>2 DEF FlagTypes
  <2> QED BY <2>1, <2>3
<1> QED BY <1>1, <1>2, <1>3, <1>4, <1>5, <1>6 DEF TrncomplPart

\* A step of the host keeps the types.
LEMMA TypeHost == TypeOK /\ Host => TypeOK'
<1> USE DEF TypeOK, InToken, OutToken, ctrl, inEp, outEp, intr, device, cdc, touch, host
<1> SUFFICES ASSUME TypeOK, Host PROVE TypeOK'
  OBVIOUS
<1>1. ASSUME NEW r \in Request, HostSetup(r) PROVE TypeOK'
  <2>1. phase' \in {"idle", "dataIn", "dataOut", "dataMore", "statusIn", "statusOut"}
    BY <1>1 DEF HostSetup, FirstPhase
  <2>2. DataTypes'
    BY <1>1, <2>1 DEF HostSetup, DataTypes
  <2>3. slow' \in BOOLEAN
    BY <1>1 DEF HostSetup, FlagTypes
  <2>4. FlagTypes'
    BY <1>1, <2>3 DEF HostSetup, FlagTypes
  <2> QED BY <2>2, <2>4
<1>2. CASE HostDataIn
  <2>1. DataTypes'
    BY <1>2, Ep0Assumption DEF HostDataIn, DataTypes
  <2>2. inOrder' \in BOOLEAN
    BY <1>2 DEF HostDataIn, FlagTypes
  <2>3. FlagTypes'
    BY <1>2, <2>2 DEF HostDataIn, FlagTypes
  <2> QED BY <2>1, <2>3
<1>3. CASE HostDataOut
  <2>1. DataTypes'
    BY <1>3 DEF HostDataOut, DataTypes
  <2>2. slow' \in BOOLEAN
    BY <1>3, RequestFields DEF HostDataOut, DataTypes, FlagTypes
  <2>3. FlagTypes'
    BY <1>3, <2>2 DEF HostDataOut, FlagTypes
  <2> QED BY <2>1, <2>3
<1>4. CASE HostStatusIn
  <2>1. hostAddr' \in 0 .. MaxAddr
    BY <1>4, RequestFields DEF HostStatusIn, DataTypes
  <2>2. DataTypes'
    BY <1>4, <2>1 DEF HostStatusIn, DataTypes
  <2>3. touched' \in BOOLEAN
    BY <1>4 DEF HostStatusIn, FlagTypes
  <2>4. FlagTypes'
    BY <1>4, <2>3 DEF HostStatusIn, FlagTypes
  <2> QED BY <2>2, <2>4
<1>5. CASE HostStatusOut
  <2>1. DataTypes'
    BY <1>5 DEF DataTypes, HostStatusOut
  <2>2. FlagTypes'
    BY <1>5 DEF FlagTypes, HostStatusOut
  <2> QED BY <2>1, <2>2
<1>6. CASE HostSeesStall \/ HostGivesUp
  <2>1. DataTypes'
    BY <1>6 DEF DataTypes, HostSeesStall, HostGivesUp
  <2>2. owed' \in BOOLEAN /\ UNCHANGED
                  <<needZlp, inNak, inTrn, outNak, outTrn, stall,
                    setupIrq, trnIrq, slow, dtr, pendingSlc,
                    reportPending, inOrder, touched>>
    BY <1>6 DEF FlagTypes, HostSeesStall, HostGivesUp
  <2>3. FlagTypes'
    BY <2>2 DEF FlagTypes
  <2> QED BY <2>1, <2>3
<1>7. CASE BusReset
  <2>1. DataTypes'
    BY <1>7, Ep0Assumption DEF DataTypes, BusReset
  <2>2. FlagTypes'
    BY <1>7 DEF FlagTypes, BusReset
  <2> QED BY <2>1, <2>2
<1> QED BY <1>1, <1>2, <1>3, <1>4, <1>5, <1>6, <1>7 DEF Host, Token

\* Every step keeps the types.
LEMMA TypeStep == TypeOK /\ [Next]_vars => TypeOK'
<1> USE DEF TypeOK, ctrl, inEp, outEp, intr, device, cdc, touch, host
<1> SUFFICES ASSUME TypeOK, [Next]_vars PROVE TypeOK'
  OBVIOUS
<1>1. CASE Isr
  BY <1>1, TypeSetup, TypeTrncompl DEF Isr
<1>2. CASE SofTouch
  <2>1. DataTypes'
    BY <1>2, Ep0Assumption DEF DataTypes, SofTouch
  <2>2. FlagTypes'
    BY <1>2 DEF FlagTypes, SofTouch
  <2> QED BY <2>1, <2>2
<1>3. CASE Host
  BY <1>3, TypeHost
<1>4. CASE OtherEndpoint
  <2>1. DataTypes'
    BY <1>4 DEF DataTypes, OtherEndpoint
  <2>2. FlagTypes'
    BY <1>4 DEF FlagTypes, OtherEndpoint
  <2> QED BY <2>1, <2>2
<1>5. CASE UNCHANGED vars
  <2>1. DataTypes'
    BY <1>5 DEF DataTypes, vars
  <2>2. FlagTypes'
    BY <1>5 DEF FlagTypes, vars
  <2> QED BY <2>1, <2>2
<1> QED BY <1>1, <1>2, <1>3, <1>4, <1>5 DEF Next

\* Type correctness of the control pipe: no length or cursor of a data stage
\* leaves its range, in particular g_ep0_in_rem never wraps below zero.
THEOREM TypeCorrect == Spec => []TypeOK
<1> QED BY TypeInit, TypeStep, PTL DEF Spec

-----------------------------------------------------------------------------
(* The control pipe invariant.                                             *)

\* It holds at power-up.
LEMMA PipeInit == Init => PipeInv
BY DEF Init, PipeInv, SetupWaits, Stages, Decoded, PointerAway, AddressInStep, NoRequest

\* A SETUP handler keeps it.
LEMMA PipeSetup ==
  ASSUME ~LateIsr, ~AbandonDataOut, PipeInv, SetupPart
  PROVE  PipeInv'
<1> USE DEF PipeInv, SetupWaits, Stages, Decoded, PointerAway, AddressInStep,
            Decode, FirstPhase, ctrl, inEp, outEp, intr, device, cdc, touch, host
<1>1. CASE SetupGet
  BY <1>1 DEF SetupGet, StartDataIn, SendChunk
<1>2. CASE SetupAddress
  BY <1>2 DEF SetupAddress
<1>3. CASE SetupConfig
  BY <1>3 DEF SetupConfig, SendZlp
<1>4. CASE SetupLine
  BY <1>4 DEF SetupLine, StartDataOut
<1>5. CASE SetupState
  BY <1>5 DEF SetupState, SendZlp
<1>6. CASE SetupReport
  BY <1>6 DEF SetupReport, StartDataOut
<1>7. CASE SetupPlain \/ SetupEmpty
  BY <1>7 DEF SetupPlain, SetupEmpty, SendZlp
<1>8. CASE SetupBad
  BY <1>8 DEF SetupBad, Refuse
<1>9. CASE SetupBadConfig
  BY <1>9 DEF SetupBadConfig, Refuse
<1> QED BY <1>1, <1>2, <1>3, <1>4, <1>5, <1>6, <1>7, <1>8, <1>9 DEF SetupPart

\* A completion handler keeps it.
LEMMA PipeTrncompl ==
  ASSUME ~LateIsr, ~AbandonDataOut, PipeInv, TrncomplPart
  PROVE  PipeInv'
<1> USE DEF PipeInv, SetupWaits, Stages, Decoded, PointerAway, AddressInStep,
            InPart, ctrl, inEp, outEp, intr, device, cdc, touch, host
<1>1. CASE EnterTrncompl \/ NoIn \/ NoOut \/ AckTrncompl
  BY <1>1 DEF EnterTrncompl, NoIn, NoOut, AckTrncompl
<1>2. CASE NextChunk
  BY <1>2 DEF NextChunk, SendChunk
<1>3. CASE LastZlp
  BY <1>3 DEF LastZlp, SendChunk
<1>4. CASE DataInDone
  BY <1>4 DEF DataInDone
<1>5. CASE ApplyAddress
  BY <1>5 DEF ApplyAddress
<1>6. CASE StatusInDone
  BY <1>6 DEF StatusInDone
<1>7. CASE DataOutDone
  BY <1>7 DEF DataOutDone, DataOutConsumer, SendZlp
<1>8. CASE StatusOutDone
  BY <1>8 DEF StatusOutDone
<1> QED BY <1>1, <1>2, <1>3, <1>4, <1>5, <1>6, <1>7, <1>8 DEF TrncomplPart

\* A step of the host keeps it.
LEMMA PipeHost ==
  ASSUME ~LateIsr, ~AbandonDataOut, PipeInv, Host
  PROVE  PipeInv'
<1> USE DEF PipeInv, SetupWaits, Stages, Decoded, PointerAway, AddressInStep,
            InToken, OutToken, FirstPhase, Serviced, NoRequest,
            ctrl, inEp, outEp, intr, device, cdc, touch, host
<1>1. ASSUME NEW r \in Request, HostSetup(r) PROVE PipeInv'
  BY <1>1 DEF HostSetup
<1>2. CASE HostDataIn
  BY <1>2 DEF HostDataIn
<1>3. CASE HostDataOut
  BY <1>3 DEF HostDataOut
<1>4. CASE HostStatusIn
  BY <1>4 DEF HostStatusIn
<1>5. CASE HostStatusOut
  BY <1>5 DEF HostStatusOut
<1>6. CASE HostSeesStall
  BY <1>6 DEF HostSeesStall
<1>7. CASE HostGivesUp
  BY <1>7 DEF HostGivesUp
<1>8. CASE BusReset
  BY <1>8 DEF BusReset
<1> QED BY <1>1, <1>2, <1>3, <1>4, <1>5, <1>6, <1>7, <1>8 DEF Host, Token

\* Every step keeps it.
LEMMA PipeStep ==
  ASSUME ~LateIsr, ~AbandonDataOut, PipeInv, [Next]_vars
  PROVE  PipeInv'
<1> USE DEF PipeInv, SetupWaits, Stages, Decoded, PointerAway, AddressInStep,
            ctrl, inEp, outEp, intr, device, cdc, touch, host
<1>1. CASE Isr
  BY <1>1, PipeSetup, PipeTrncompl DEF Isr
<1>2. CASE SofTouch
  BY <1>2 DEF SofTouch
<1>3. CASE Host
  BY <1>3, PipeHost
<1>4. CASE OtherEndpoint
  BY <1>4 DEF OtherEndpoint
<1>5. CASE UNCHANGED vars
  BY <1>5 DEF vars
<1> QED BY <1>1, <1>2, <1>3, <1>4, <1>5 DEF Next

\* SET_ADDRESS takes effect after its status stage and never gets lost, as long
\* as no SETUP overtakes the service of the previous completion and the host
\* does not give up in an OUT data stage.
THEOREM AddressCorrect ==
  ASSUME ~LateIsr, ~AbandonDataOut
  PROVE  Spec => []AddressInStep
<1>1. PipeInv /\ [Next]_vars => PipeInv'
  BY PipeStep
<1>2. PipeInv => AddressInStep
  BY DEF PipeInv
<1> QED BY PipeInit, <1>1, <1>2, PTL DEF Spec

\* Under the same assumptions handle_setup() decodes what the host sent.
THEOREM FreshCorrect ==
  ASSUME ~LateIsr, ~AbandonDataOut
  PROVE  Spec => []SetupFresh
<1>1. PipeInv /\ [Next]_vars => PipeInv'
  BY PipeStep
<1>2. PipeInv => SetupFresh
  BY DEF PipeInv, SetupWaits, SetupFresh
<1> QED BY PipeInit, <1>1, <1>2, PTL DEF Spec

-----------------------------------------------------------------------------
(* Data stages towards the host.                                           *)

\* Where a read stands: bytes handed over and bytes left add up to the answer,
\* the armed packet starts where the host stopped, and a packet that is not
\* full is the last one.  Of an answer without data only an empty packet is armed.
Reading ==
  phase = "dataIn" =>
    /\ ~outTrn
    /\ setupIrq => rcvd = 0
    /\ ~setupIrq /\ req.len = 0 =>
         /\ state \notin {"dataIn", "dataOut"} /\ rcvd = 0 /\ (~inNak => inCnt = 0)
    /\ ~setupIrq /\ req.len # 0 =>
         /\ state # "dataOut"
         /\ state = "dataIn" => src + rem = Answer(req)
         /\ inTrn => inNak /\ src = rcvd
         /\ ~inNak => /\ state = "dataIn"
                      /\ inFrom = rcvd /\ src = rcvd + inCnt
                      /\ inCnt < PacketSize => rem = 0

ReadInv == Reading /\ ReadComplete

\* The last packet is the one that is not full.
LEMMA ChunkLast ==
  ASSUME NEW left \in Nat, ChunkSize(left) < PacketSize
  PROVE  ChunkSize(left) = left
BY Ep0Assumption DEF ChunkSize

\* A read holds at power-up.
LEMMA ReadInit == Init => ReadInv
BY DEF Init, ReadInv, Reading, ReadComplete

\* A SETUP handler starts the read at its first byte.
LEMMA ReadSetup ==
  ASSUME TypeOK, PipeInv, ReadInv, SetupPart
  PROVE  ReadInv'
<1> USE DEF ReadInv, Reading, ReadComplete, Decode, PipeInv, SetupWaits, Stages,
            Answer, ctrl, inEp, outEp, intr, device, cdc, touch, host
<1>1. CASE SetupGet
  <2>1. setupBuf.len \in Nat /\ setupBuf.want \in Nat
    BY <1>1, RequestFields DEF SetupGet, TypeOK, DataTypes
  <2> DEFINE n == Answer(setupBuf)
  <2>2. n \in Nat
    BY <2>1
  <2>3. ChunkSize(n) \in 0 .. PacketSize /\ (ChunkSize(n) < PacketSize => ChunkSize(n) = n)
    BY <2>2, ChunkFits, ChunkLast
  <2>4. /\ src' = ChunkSize(n) /\ rem' = n - ChunkSize(n)
        /\ inFrom' = 0 /\ inCnt' = ChunkSize(n)
    BY <1>1, <2>3, Ep0Assumption DEF SetupGet, StartDataIn, SendChunk
  <2>5. /\ src' + rem' = n /\ src' = inCnt' /\ (inCnt' < PacketSize => rem' = 0)
    <3> HIDE DEF n
    <3> QED BY <2>2, <2>3, <2>4, Ep0Assumption
  <2>6. phase = "dataIn" => setupBuf = req /\ rcvd = 0
    BY <1>1 DEF SetupGet
  <2>7. /\ ~outTrn' /\ ~setupIrq' /\ state' = "dataIn" /\ ~inTrn' /\ ~inNak'
        /\ UNCHANGED <<phase, req, rcvd, inOrder>>
    BY <1>1 DEF SetupGet, StartDataIn, SendChunk
  <2>8. phase = "dataIn" => src' + rem' = Answer(req) /\ src' = rcvd + inCnt'
    BY <2>5, <2>6, <2>4, Ep0Assumption, <2>3
  <2>9. phase = "dataIn" => req.len # 0
    BY <1>1, <2>1, <2>6 DEF SetupGet
  <2> QED BY <2>4, <2>5, <2>6, <2>7, <2>8, <2>9
<1>2. CASE SetupEmpty
  BY <1>2 DEF SetupEmpty, SendZlp
<1>3. CASE SetupPart /\ ~SetupGet /\ ~SetupEmpty
  <2>1. phase # "dataIn" /\ UNCHANGED <<phase, req, rcvd, inOrder>>
    BY <1>3 DEF SetupPart, SetupAddress, SetupConfig, SetupLine, SetupState,
                SetupReport, SetupPlain, SetupBad, SetupBadConfig
  <2> QED BY <2>1
<1> QED BY <1>1, <1>2, <1>3

\* A completion handler continues the read where it stopped.
LEMMA ReadTrncompl ==
  ASSUME TypeOK, PipeInv, ReadInv, TrncomplPart
  PROVE  ReadInv'
<1> USE DEF ReadInv, Reading, ReadComplete, PipeInv, SetupWaits, Stages,
            InPart, ctrl, inEp, outEp, intr, device, cdc, touch, host
<1>0. UNCHANGED <<phase, req, rcvd, inOrder, setupIrq>>
  BY DEF TrncomplPart, EnterTrncompl, NextChunk, LastZlp, DataInDone, ApplyAddress,
         StatusInDone, NoIn, DataOutDone, StatusOutDone, NoOut, AckTrncompl
<1>1. CASE EnterTrncompl \/ NoIn \/ NoOut \/ AckTrncompl
  BY <1>0, <1>1 DEF EnterTrncompl, NoIn, NoOut, AckTrncompl, Answer
<1>2. CASE NextChunk
  <2>1. ChunkSize(rem) \in 0 .. PacketSize /\ (ChunkSize(rem) < PacketSize => ChunkSize(rem) = rem)
    BY ChunkFits, ChunkLast DEF TypeOK, DataTypes
  <2>2. src \in Nat /\ rem \in Nat /\ rcvd \in Nat
    BY DEF TypeOK, DataTypes
  <2>3. /\ src' = src + ChunkSize(rem) /\ rem' = rem - ChunkSize(rem)
        /\ inFrom' = src /\ inCnt' = ChunkSize(rem)
    BY <1>2 DEF NextChunk, SendChunk
  <2>4. src' + rem' = src + rem /\ (inCnt' < PacketSize => rem' = 0)
    BY <2>1, <2>2, <2>3, Ep0Assumption
  <2>5. inTrn /\ ~inTrn' /\ ~inNak' /\ state = "dataIn" /\ state' = "dataIn" /\ outTrn' = outTrn
    BY <1>2 DEF NextChunk, SendChunk
  <2>6. phase = "dataIn" => ~setupIrq /\ req.len # 0 /\ src = rcvd /\ src + rem = Answer(req) /\ ~outTrn
    BY <2>5
  <2> QED BY <1>0, <2>3, <2>4, <2>5, <2>6 DEF Answer
<1>3. CASE LastZlp
  <2>1. src \in Nat /\ rcvd \in Nat
    BY DEF TypeOK, DataTypes
  <2>2. src' = src /\ rem = 0 /\ rem' = 0 /\ inFrom' = src /\ inCnt' = 0
    BY <1>3, <2>1 DEF LastZlp, SendChunk
  <2>3. inTrn /\ ~inTrn' /\ ~inNak' /\ state = "dataIn" /\ state' = "dataIn" /\ outTrn' = outTrn
    BY <1>3 DEF LastZlp, SendChunk
  <2>4. phase = "dataIn" => ~setupIrq /\ req.len # 0 /\ src = rcvd /\ src + rem = Answer(req) /\ ~outTrn
    BY <2>3
  <2> QED BY <1>0, <2>1, <2>2, <2>3, <2>4 DEF Answer
<1>4. CASE DataInDone \/ ApplyAddress \/ StatusInDone
  BY <1>0, <1>4 DEF DataInDone, ApplyAddress, StatusInDone, Answer
<1>5. CASE DataOutDone \/ StatusOutDone
  <2>1. phase # "dataIn"
    BY <1>5 DEF DataOutDone, StatusOutDone
  <2> QED BY <1>0, <2>1 DEF Answer
<1> QED BY <1>1, <1>2, <1>3, <1>4, <1>5 DEF TrncomplPart

\* The host takes the packet it waits for, and stops at the end of the answer.
LEMMA ReadHost ==
  ASSUME ~LateIsr, TypeOK, PipeInv, ReadInv, Host
  PROVE  ReadInv'
<1> USE DEF ReadInv, Reading, ReadComplete, PipeInv, SetupWaits, Stages,
            InToken, OutToken, ctrl, inEp, outEp, intr, device, cdc, touch, host
<1>1. ASSUME NEW r \in Request, HostSetup(r) PROVE ReadInv'
  <2>1. inOrder' /\ phase' # "statusOut" /\ setupIrq' /\ rcvd' = 0 /\ ~outTrn'
    BY <1>1 DEF HostSetup, FirstPhase, Serviced
  <2> QED BY <2>1
<1>2. CASE HostDataIn
  <2>1. /\ src \in Nat /\ rem \in Nat /\ rcvd \in Nat /\ inCnt \in Nat
        /\ req.len \in Nat /\ req.want \in Nat
    BY <1>2, RequestFields, Ep0Assumption DEF HostDataIn, TypeOK, DataTypes
  <2>0. CASE req.len = 0
    <3>1. inCnt = 0 /\ rcvd = 0 /\ inCnt < PacketSize /\ phase' = "statusOut" /\ ~setupIrq
      BY <1>2, <2>0, <2>1, Ep0Assumption DEF HostDataIn
    <3>2. rcvd' = rcvd + inCnt /\ req' = req
      BY <1>2 DEF HostDataIn
    <3>4. inOrder => inOrder'
      <4>1. inOrder' = (inOrder /\ (inFrom = rcvd \/ inCnt = 0))
        BY <1>2 DEF HostDataIn
      <4> QED BY <3>1, <4>1
    <3>3. Answer(req) = 0
      BY <2>0, <2>1 DEF Answer
    <3> QED BY <3>1, <3>2, <3>3, <3>4 DEF Answer
  <2>a. CASE req.len # 0
    <3>2. /\ state = "dataIn" /\ ~setupIrq /\ src + rem = Answer(req) /\ inFrom = rcvd
          /\ src = rcvd + inCnt /\ (inCnt < PacketSize => rem = 0)
      BY <1>2, <2>a DEF HostDataIn
    <3>3. inCnt < PacketSize \/ rcvd + inCnt >= req.want => rcvd + inCnt = Answer(req)
      BY <2>1, <3>2, Ep0Assumption DEF Answer
    <3>4. /\ rcvd' = rcvd + inCnt /\ req' = req /\ (inOrder => inOrder') /\ inNak' /\ inTrn'
          /\ UNCHANGED <<state, src, rem, outTrn, setupIrq>>
          /\ phase' = (IF inCnt < PacketSize \/ rcvd + inCnt >= req.want
                       THEN "statusOut" ELSE "dataIn")
      BY <1>2, <3>2 DEF HostDataIn
    <3>5. ~outTrn
      BY <1>2 DEF HostDataIn
    <3> QED BY <2>a, <3>2, <3>3, <3>4, <3>5 DEF Answer
  <2> QED BY <2>0, <2>a
<1>3. CASE HostDataOut
  BY <1>3 DEF HostDataOut
<1>4. CASE HostStatusIn
  BY <1>4 DEF HostStatusIn
<1>5. CASE HostStatusOut
  BY <1>5 DEF HostStatusOut
<1>6. CASE HostSeesStall \/ HostGivesUp
  BY <1>6 DEF HostSeesStall, HostGivesUp
<1>7. CASE BusReset
  BY <1>7 DEF BusReset
<1> QED BY <1>1, <1>2, <1>3, <1>4, <1>5, <1>6, <1>7 DEF Host, Token

\* Every step keeps the reads whole.
LEMMA ReadStep ==
  ASSUME ~LateIsr, TypeOK, PipeInv, ReadInv, [Next]_vars
  PROVE  ReadInv'
<1> USE DEF ReadInv, Reading, ReadComplete, Answer, ctrl, inEp, outEp, intr,
            device, cdc, touch, host
<1>1. CASE Isr
  BY <1>1, ReadSetup, ReadTrncompl DEF Isr
<1>2. CASE SofTouch
  BY <1>2 DEF SofTouch
<1>3. CASE Host
  BY <1>3, ReadHost
<1>4. CASE OtherEndpoint
  BY <1>4 DEF OtherEndpoint
<1>5. CASE UNCHANGED vars
  BY <1>5 DEF vars
<1> QED BY <1>1, <1>2, <1>3, <1>4, <1>5 DEF Next

\* A read that reaches its status stage has handed over exactly the answer, cut
\* to wLength, whatever the answer's length and the size of the endpoint.
THEOREM ReadCorrect ==
  ASSUME ~LateIsr, ~AbandonDataOut
  PROVE  Spec => []ReadComplete
<1> DEFINE IInv == TypeOK /\ PipeInv /\ ReadInv
<1>1. Init => IInv
  BY TypeInit, PipeInit, ReadInit
<1>2. IInv /\ [Next]_vars => IInv'
  BY TypeStep, PipeStep, ReadStep
<1>3. IInv => ReadComplete
  BY DEF ReadInv
<1> HIDE DEF IInv
<1> QED BY <1>1, <1>2, <1>3, PTL DEF Spec

-----------------------------------------------------------------------------
(* The touch reset.                                                        *)

\* While the request that armed the touch is open, the state machine waits for
\* the end of its status stage, and no completion of an earlier stage is left
\* that could take it to idle before.  A long report cannot arm it.
TouchInv ==
  /\ setupIrq => inNak /\ outNak /\ ~inTrn /\ ~outTrn
  /\ setupIrq /\ phase # "idle" /\ setupBuf.kind = "state" => phase = "statusIn"
  /\ outPtr # "setup" => setupBuf.kind \in {"line", "report"}
  /\ state = "dataOut" => inNak /\ ~inTrn
  /\ state = "dataOut" /\ outTrn => phase \in {"statusIn", "dataMore", "idle"}
  /\ state = "dataOut" => reportPending \/ outPtr = "line"
  /\ state = "dataOut" /\ phase = "dataMore" => reportPending \/ ~slow
  /\ setupIrq => phase # "dataMore"
  /\ owed => phase = "statusIn" /\ state = "statusIn" /\ ~setupIrq /\ ~inTrn /\ ~outTrn

\* A SETUP handler keeps it.
LEMMA TouchSetup ==
  ASSUME ~LateIsr, TouchInv, SetupPart
  PROVE  TouchInv'
<1> USE DEF TouchInv, Decode, ctrl, inEp, outEp, intr, device, cdc, touch, host
<1>1. CASE SetupGet
  BY <1>1 DEF SetupGet, StartDataIn, SendChunk
<1>2. CASE SetupAddress
  BY <1>2 DEF SetupAddress
<1>3. CASE SetupConfig
  BY <1>3 DEF SetupConfig, SendZlp
<1>4. CASE SetupLine
  BY <1>4 DEF SetupLine, StartDataOut
<1>5. CASE SetupState
  BY <1>5 DEF SetupState, SendZlp, ArmTouch
<1>6. CASE SetupReport
  BY <1>6 DEF SetupReport, StartDataOut
<1>7. CASE SetupPlain \/ SetupEmpty
  BY <1>7 DEF SetupPlain, SetupEmpty, SendZlp
<1>8. CASE SetupBad \/ SetupBadConfig
  BY <1>8 DEF SetupBad, SetupBadConfig, Refuse
<1> QED BY <1>1, <1>2, <1>3, <1>4, <1>5, <1>6, <1>7, <1>8 DEF SetupPart

\* A completion handler keeps it.
LEMMA TouchTrncompl ==
  ASSUME ~LateIsr, TouchInv, TrncomplPart
  PROVE  TouchInv'
<1> USE DEF TouchInv, InPart, ctrl, inEp, outEp, intr, device, cdc, touch, host
<1>1. CASE EnterTrncompl \/ NoIn \/ NoOut \/ AckTrncompl
  BY <1>1 DEF EnterTrncompl, NoIn, NoOut, AckTrncompl
<1>2. CASE NextChunk \/ LastZlp
  BY <1>2 DEF NextChunk, LastZlp, SendChunk
<1>3. CASE DataInDone \/ ApplyAddress \/ StatusInDone
  BY <1>3 DEF DataInDone, ApplyAddress, StatusInDone
<1>4. CASE DataOutDone
  BY <1>4 DEF DataOutDone, DataOutConsumer, LineCodingDone, SendZlp, ArmTouch
<1>5. CASE StatusOutDone
  BY <1>5 DEF StatusOutDone
<1> QED BY <1>1, <1>2, <1>3, <1>4, <1>5 DEF TrncomplPart

\* A step of the host keeps it.
LEMMA TouchHost ==
  ASSUME ~LateIsr, TouchInv, Host
  PROVE  TouchInv'
<1> USE DEF TouchInv, InToken, OutToken, FirstPhase, Serviced, NoRequest,
            ctrl, inEp, outEp, intr, device, cdc, touch, host
<1>1. ASSUME NEW r \in Request, HostSetup(r) PROVE TouchInv'
  BY <1>1 DEF HostSetup
<1>2. CASE HostDataIn
  BY <1>2 DEF HostDataIn
<1>3. CASE HostDataOut
  BY <1>3 DEF HostDataOut
<1>4. CASE HostStatusIn
  BY <1>4 DEF HostStatusIn
<1>5. CASE HostStatusOut
  BY <1>5 DEF HostStatusOut
<1>6. CASE HostSeesStall \/ HostGivesUp
  BY <1>6 DEF HostSeesStall, HostGivesUp
<1>7. CASE BusReset
  BY <1>7 DEF BusReset
<1> QED BY <1>1, <1>2, <1>3, <1>4, <1>5, <1>6, <1>7 DEF Host, Token

\* Every step keeps it.
LEMMA TouchStep ==
  ASSUME ~LateIsr
  PROVE  TouchInv /\ [Next]_vars => TouchInv'
<1> SUFFICES ASSUME TouchInv, [Next]_vars PROVE TouchInv'
  OBVIOUS
<1> USE DEF TouchInv, ctrl, inEp, outEp, intr, device, cdc, touch, host
<1>1. CASE Isr
  BY <1>1, TouchSetup, TouchTrncompl DEF Isr
<1>2. CASE Host
  BY <1>2, TouchHost
<1>3. CASE SofTouch \/ OtherEndpoint \/ UNCHANGED vars
  BY <1>3 DEF SofTouch, OtherEndpoint, vars
<1> QED BY <1>1, <1>2, <1>3 DEF Next

\* Unless the fallback countdown runs out, the device detaches for the touch
\* reset only when the host has the status stage of the request that armed it,
\* has given that request up or has reset the bus: whatever the host does, also
\* in an OUT data stage, as long as no SETUP overtakes the service of the
\* previous completion.
THEOREM TouchCorrect ==
  ASSUME ~LateIsr
  PROVE  Spec => TouchAfterStatus
<1>1. Init => TouchInv
  BY DEF Init, TouchInv, NoRequest
<1>2. TouchInv /\ [Next]_vars => TouchInv'
  BY TouchStep
<1>3. TouchInv /\ [Next]_vars => [isr' = "boot" /\ isr # "boot" => ~owed \/ countdown = 1]_vars
  <2> SUFFICES ASSUME TouchInv, [Next]_vars, isr' = "boot", isr # "boot"
               PROVE  ~owed \/ countdown = 1
    OBVIOUS
  <2> USE DEF ctrl, inEp, outEp, intr, device, cdc, touch, host
  <2>1. CASE SofTouch
    BY <2>1 DEF SofTouch, TouchInv
  <2>2. CASE SetupPart
    BY <2>2 DEF SetupPart, Decode, SetupGet, SetupAddress, SetupConfig, SetupLine, SetupState,
       SetupEmpty, SetupReport, SetupPlain, SetupBad, SetupBadConfig
  <2>3. CASE TrncomplPart
    BY <2>3 DEF TrncomplPart, InPart, EnterTrncompl, NextChunk, LastZlp, DataInDone,
       ApplyAddress, StatusInDone, NoIn, DataOutDone, StatusOutDone, NoOut, AckTrncompl
  <2>4. CASE Host
    BY <2>4 DEF Host, Token, HostSetup, HostDataIn, HostDataOut, HostStatusIn, HostStatusOut,
       HostSeesStall, HostGivesUp, BusReset, InToken, OutToken
  <2>5. CASE OtherEndpoint \/ UNCHANGED vars
    BY <2>5 DEF OtherEndpoint, vars
  <2> QED BY <2>1, <2>2, <2>3, <2>4, <2>5 DEF Next, Isr
<1> QED BY <1>1, <1>2, <1>3, PTL DEF Spec, TouchAfterStatus
=============================================================================
