-------------------------- MODULE PluggableProofs --------------------------
(***************************************************************************)
(* Pluggable, for every buffer size, ring size, event length and bound.    *)
(* IN: what the endpoint sends is what was staged, in order, never stale   *)
(* unless SET_CONFIGURATION fell in a call, and a report said to be sent   *)
(* has been collected.  OUT: until a byte is dropped, the events of the    *)
(* host are read, kept or on their way, in order and without a gap.        *)
(***************************************************************************)
EXTENDS Pluggable, SequenceTheorems, TLAPS

-----------------------------------------------------------------------------
(* Types of the IN side.                                                   *)

Byte == Nat \X Nat

\* The value a call goes on with is that of s_dyn_ep_pos unless the interrupt
\* has cleared it; what is being staged fits behind either.
InShape ==
  /\ pos \in 0 .. DynBuf /\ reg \in 0 .. DynBuf /\ cnt \in 0 .. DynBuf
  /\ pos \in {0, reg}
  /\ pc \in {"copy", "advance"} => reg + Len(part) <= DynBuf
  /\ buf \in [1 .. DynBuf -> Byte]
  /\ todo \in Seq(Byte) /\ part \in Seq(Byte) /\ data \in Seq(Byte)
  /\ sent \in Seq(Byte) /\ wire \in Seq(Byte)
  /\ calls \in Nat

\* The steps in which a call uses s_dyn_ep_pos.
Using(o) == TakeRoom(o) \/ AppendFull(o) \/ Copy(o) \/ Advance(o) \/ Count(o)

\* The actions that change the IN side, and those that do not.
LEMMA InNext ==
  ASSUME [Next]_vars
  PROVE  \/ InReset \/ InConfigured \/ InDeconfigured \/ Collect
         \/ (\E o \in {reg, pos} : Using(o))
         \/ AppendDone \/ WaitIdle \/ IdleTimeout \/ Arm \/ WaitDone \/ DoneTimeout \/ Released
         \/ Flush \/ WriteEvent(EventLen) \/ (\E n \in Lens : SendReport(n))
         \/ UNCHANGED inVars
<1>1. CASE BusReset \/ SetConfiguration \/ ClearConfiguration
  BY <1>1 DEF BusReset, SetConfiguration, ClearConfiguration
<1>2. CASE Call
  BY <1>2 DEF Call
<1>3. CASE Send
  BY <1>3 DEF Send, Sending, Staging, Releasing, Using
<1>4. CASE HostIn
  BY <1>4 DEF HostIn
<1>5. CASE Read \/ HostOut \/ Handler \/ UNCHANGED vars
  BY <1>5 DEF Read, HostOut, Handler, EnterTrncompl, Service, Skip, Ack, Handle, vars
<1> QED BY <1>1, <1>2, <1>3, <1>4, <1>5 DEF Next

LEMMA DataType == \A c, n \in Nat : DataOf(c, n) \in Seq(Byte)
<1> SUFFICES ASSUME NEW c \in Nat, NEW n \in Nat PROVE DataOf(c, n) \in Seq(Byte)
  OBVIOUS
<1>1. \A k \in 1 .. n : <<c, k>> \in Byte
  BY DEF Byte
<1> QED BY <1>1, IsASeq DEF DataOf

\* What fits is taken for the room behind what is staged; the rest stays to do.
LEMMA PartProperties ==
  ASSUME InShape, NEW o \in {reg, pos}, TakeRoom(o)
  PROVE  part' \in Seq(Byte) /\ Len(part') \in 0 .. DynBuf - o /\ todo' \in Seq(Byte)
<1> DEFINE m == Fits(o)
<1>1. Room(o) \in Nat /\ Room(o) = DynBuf - o /\ Len(todo) \in Nat
  BY DynInAssumption DEF InShape, Room
<1>2. m \in 0 .. Room(o) /\ m <= Len(todo) /\ m \in Int
  BY <1>1 DEF Fits
<1>3. \A i \in 1 .. Len(todo) : todo[i] \in Byte
  BY ElementOfSeq DEF InShape
<1>4. part' = SubSeq(todo, 1, m) /\ todo' = SubSeq(todo, m + 1, Len(todo))
  BY DEF TakeRoom
<1> HIDE DEF m
<1>5. \A i \in 1 .. m : todo[i] \in Byte
  BY <1>1, <1>2, <1>3
<1>6. SubSeq(todo, 1, m) \in Seq(Byte) /\ Len(SubSeq(todo, 1, m)) = IF 1 <= m THEN m - 1 + 1 ELSE 0
  BY <1>2, <1>5, SubSeqProperties
<1>7. Len(part') = m
  BY <1>2, <1>4, <1>6
<1>8. \A i \in m + 1 .. Len(todo) : todo[i] \in Byte
  BY <1>1, <1>2, <1>3
<1>9. SubSeq(todo, m + 1, Len(todo)) \in Seq(Byte)
  BY <1>1, <1>2, <1>8, SubSeqProperties
<1> QED BY <1>1, <1>2, <1>4, <1>6, <1>7, <1>9

LEMMA CollectedType ==
  ASSUME InShape
  PROVE  SubSeq(buf, 1, cnt) \in Seq(Byte) /\ SubSeq(buf, 1, pos) \in Seq(Byte)
<1>1. cnt \in Int /\ pos \in Int /\ (\A i \in 1 .. cnt : buf[i] \in Byte) /\ \A i \in 1 .. pos : buf[i] \in Byte
  BY DynInAssumption DEF InShape
<1> QED BY <1>1, SubSeqProperties

LEMMA ShapeStep == InShape /\ [Next]_vars => InShape'
<1> SUFFICES ASSUME InShape, [Next]_vars PROVE InShape'
  OBVIOUS
<1>0. <<>> \in Seq(Byte) /\ 0 \in 0 .. DynBuf
  BY EmptySeq, DynInAssumption
<1>1. CASE InReset \/ InConfigured \/ InDeconfigured
  <2>1. CASE InReset
    BY <1>0, <2>1 DEF InReset, callVars, InShape
  <2>2. CASE InConfigured
    BY <1>0, <2>2 DEF InConfigured, Restage, callVars, InShape
  <2>3. CASE InDeconfigured
    BY <1>0, <2>3 DEF InDeconfigured, callVars, InShape
  <2> QED BY <1>1, <2>1, <2>2, <2>3
<1>2. CASE Collect
  <2>1. wire' \in Seq(Byte)
    BY <1>2, CollectedType, ConcatProperties DEF Collect, InShape
  <2> QED BY <1>2, <2>1 DEF Collect, callVars, InShape
<1>3. ASSUME NEW o \in {reg, pos}, Using(o) PROVE InShape'
  <2>0. o \in 0 .. DynBuf /\ o <= reg /\ pos \in {0, o} /\ DynBuf \in Nat /\ Len(part) \in Nat
    BY DynInAssumption, LenProperties DEF InShape
  <2>1. CASE TakeRoom(o)
    <3>1. reg' = o /\ pc' = "copy" /\ UNCHANGED <<buf, pos, cnt, data, calls, sent, wire>>
      BY <2>1 DEF TakeRoom, Use, epVars, history
    <3>2. part' \in Seq(Byte) /\ Len(part') \in 0 .. DynBuf - o /\ todo' \in Seq(Byte)
      BY <2>1, PartProperties
    <3> QED BY <2>0, <3>1, <3>2 DEF InShape
  <2>2. CASE AppendFull(o)
    BY <2>0, <2>2 DEF AppendFull, Use, epVars, history, InShape
  <2>3. CASE Copy(o)
    <3>1. /\ buf' = [i \in 1 .. DynBuf |-> IF i - o \in DOMAIN part THEN part[i - o] ELSE buf[i]]
          /\ sent' = sent \o part /\ reg' = o /\ pc = "copy"
          /\ UNCHANGED <<pos, cnt, todo, part, data, calls, wire>>
      BY <2>3 DEF Copy, Use, epVars
    <3>2. buf' \in [1 .. DynBuf -> Byte]
      <4>1. \A i \in 1 .. DynBuf : i - o \in DOMAIN part => part[i - o] \in Byte
        BY LenProperties, ElementOfSeq DEF InShape
      <4> QED BY <3>1, <4>1 DEF InShape
    <3>3. sent' \in Seq(Byte)
      BY <3>1, ConcatProperties DEF InShape
    <3> QED BY <2>0, <3>1, <3>2, <3>3 DEF InShape
  <2>4. CASE Advance(o)
    <3>1. /\ pc = "advance" /\ pos' = o + Len(part) /\ reg' = o + Len(part) /\ part' = <<>>
          /\ pc' = "append" /\ UNCHANGED <<buf, cnt, todo, data, calls, sent, wire>>
      BY <2>4 DEF Advance, epVars, history
    <3> QED BY <1>0, <2>0, <3>1 DEF InShape
  <2>5. CASE Count(o)
    BY <2>0, <2>5 DEF Count, Use, history, InShape
  <2> QED BY <1>3, <2>1, <2>2, <2>3, <2>4, <2>5 DEF Using
<1>4. CASE AppendDone
  BY <1>4, EmptySeq DEF AppendDone, epVars, history, InShape
<1>5. CASE WaitIdle \/ Arm \/ WaitDone \/ Released
  BY <1>5, DynInAssumption DEF WaitIdle, Arm, WaitDone, Released, epVars, history, InShape
<1>6. CASE IdleTimeout \/ DoneTimeout
  <2>1. CASE IdleTimeout
    BY <1>0, <2>1 DEF IdleTimeout, GiveUp, epVars, InShape
  <2>2. CASE DoneTimeout
    BY <1>0, <2>2 DEF DoneTimeout, GiveUp, epVars, InShape
  <2> QED BY <1>6, <2>1, <2>2
<1>7. CASE Flush
  BY <1>7, EmptySeq DEF Flush, Enter, epVars, history, InShape
<1>8. CASE WriteEvent(EventLen) \/ \E n \in Lens : SendReport(n)
  <2>1. \A n \in Lens : n \in Nat
    BY DynInAssumption
  <2>2. EventLen \in Nat
    BY DynOutAssumption
  <2>3. calls + 1 \in Nat /\ <<<<calls + 1, 0>>>> \in Seq(Byte)
    BY DEF InShape, Byte
  <2>4. todo' \in Seq(Byte) /\ data' \in Seq(Byte)
    BY <1>8, <2>1, <2>2, <2>3, DataType, EmptySeq DEF WriteEvent, SendReport
  <2> QED BY <1>8, <2>3, <2>4 DEF WriteEvent, SendReport, Enter, epVars, history, InShape
<1>9. CASE UNCHANGED inVars
  BY <1>9 DEF inVars, epVars, callVars, history, InShape
<1> QED BY <1>1, <1>2, <1>3, <1>4, <1>5, <1>6, <1>7, <1>8, <1>9, InNext

LEMMA ShapeStarts == Init => InShape
BY DynInAssumption, EmptySeq DEF Init, InInit, InShape, Byte

-----------------------------------------------------------------------------
(* Nothing stale.                                                          *)

\* Unless SET_CONFIGURATION fell in it, a call goes on with s_dyn_ep_pos itself.
TornInv ==
  /\ torn => broken
  /\ pc # "idle" /\ ~torn => reg = pos

\* A packet that is complete is not in flight any more.
GoneInv == en /\ (trn \/ pc = "clear") => nak

\* Then whatever is staged, or counted for the packet that is in flight or about
\* to be, was staged since SET_CONFIGURATION, which empties buffer and endpoint.
FreshInv ==
  ~torn =>
    /\ \A i \in 1 .. pos : buf[i] \in ToSet(sent)
    /\ pc = "advance" => \A i \in 1 .. pos + Len(part) : buf[i] \in ToSet(sent)
    /\ (en /\ ~nak) \/ pc = "arm" => \A i \in 1 .. cnt : buf[i] \in ToSet(sent)

LEMMA TornStep == TornInv /\ GoneInv /\ [Next]_vars => TornInv' /\ GoneInv'
<1> SUFFICES ASSUME TornInv, GoneInv, [Next]_vars PROVE TornInv' /\ GoneInv'
  OBVIOUS
<1>1. CASE InReset \/ InDeconfigured \/ Collect
  BY <1>1 DEF InReset, InDeconfigured, Collect, callVars, TornInv, GoneInv
<1>0. CASE InConfigured
  <2>1. nak' /\ pc' = pc /\ (torn' <=> pc # "idle") /\ (broken' <=> pc # "idle")
    BY <1>0, Zenon DEF InConfigured, callVars
  <2> QED BY <2>1 DEF TornInv, GoneInv
<1>2. ASSUME NEW o \in {reg, pos}, Using(o) PROVE TornInv' /\ GoneInv'
  <2>1. CASE TakeRoom(o) \/ AppendFull(o) \/ Copy(o)
    BY <2>1 DEF TakeRoom, AppendFull, Copy, Use, epVars, history, TornInv, GoneInv
  <2>2. CASE Advance(o) \/ Count(o)
    BY <2>2 DEF Advance, Count, Use, epVars, history, TornInv, GoneInv
  <2> QED BY <1>2, <2>1, <2>2 DEF Using
<1>3. CASE AppendDone \/ WaitIdle \/ Arm \/ Released
  BY <1>3 DEF AppendDone, WaitIdle, Arm, Released, epVars, history, TornInv, GoneInv
<1>4. CASE WaitDone
  BY <1>4 DEF WaitDone, Done, epVars, history, TornInv, GoneInv
<1>5. CASE IdleTimeout \/ DoneTimeout
  BY <1>5 DEF IdleTimeout, DoneTimeout, GiveUp, epVars, TornInv, GoneInv
<1>6. CASE Flush \/ WriteEvent(EventLen) \/ \E n \in Lens : SendReport(n)
  BY <1>6 DEF Flush, WriteEvent, SendReport, Enter, epVars, history, TornInv, GoneInv
<1>7. CASE UNCHANGED inVars
  BY <1>7 DEF inVars, epVars, callVars, history, TornInv, GoneInv
<1> QED BY <1>0, <1>1, <1>2, <1>3, <1>4, <1>5, <1>6, <1>7, InNext

LEMMA ToSetConcat ==
  ASSUME NEW s \in Seq(Byte), NEW t \in Seq(Byte)
  PROVE  \A b : b \in ToSet(s) \/ b \in ToSet(t) => b \in ToSet(s \o t)
<1>1. /\ s \o t \in Seq(Byte) /\ Len(s \o t) = Len(s) + Len(t)
      /\ \A i \in 1 .. Len(s) + Len(t) : (s \o t)[i] = IF i <= Len(s) THEN s[i] ELSE t[i - Len(s)]
      /\ Len(s) \in Nat /\ Len(t) \in Nat
  BY ConcatProperties
<1>2. DOMAIN s = 1 .. Len(s) /\ DOMAIN t = 1 .. Len(t) /\ DOMAIN (s \o t) = 1 .. Len(s) + Len(t)
  BY <1>1, LenProperties
<1>3. ASSUME NEW b, b \in ToSet(s) PROVE b \in ToSet(s \o t)
  <2>1. PICK i \in 1 .. Len(s) : b = s[i]
    BY <1>2, <1>3 DEF ToSet
  <2>2. i \in 1 .. Len(s) + Len(t) /\ (s \o t)[i] = b
    BY <1>1, <2>1
  <2> QED BY <1>2, <2>2 DEF ToSet
<1>4. ASSUME NEW b, b \in ToSet(t) PROVE b \in ToSet(s \o t)
  <2>1. PICK i \in 1 .. Len(t) : b = t[i]
    BY <1>2, <1>4 DEF ToSet
  <2>2. Len(s) + i \in 1 .. Len(s) + Len(t) /\ (s \o t)[Len(s) + i] = b
    BY <1>1, <2>1
  <2> QED BY <1>2, <2>2 DEF ToSet
<1> QED BY <1>3, <1>4

\* The copy puts the part behind what is staged, and leaves the rest.
LEMMA FreshCopy ==
  ASSUME InShape, TornInv, FreshInv, Copy(pos), pc = "copy", ~torn
  PROVE  FreshInv'
<1>1. /\ buf' = [i \in 1 .. DynBuf |-> IF i - pos \in DOMAIN part THEN part[i - pos] ELSE buf[i]]
      /\ sent' = sent \o part /\ pc' = "advance" /\ UNCHANGED <<pos, part, cnt, en, nak, torn>>
  BY DEF Copy, epVars
<1>2. /\ part \in Seq(Byte) /\ DOMAIN part = 1 .. Len(part) /\ sent \in Seq(Byte) /\ Len(part) \in Nat
      /\ pos \in 0 .. DynBuf /\ cnt \in 0 .. DynBuf /\ pos + Len(part) <= DynBuf /\ DynBuf \in Nat
  BY LenProperties, DynInAssumption DEF InShape, TornInv
<1>3. \A b : b \in ToSet(sent) \/ b \in ToSet(part) => b \in ToSet(sent')
  BY <1>1, <1>2, ToSetConcat
<1>4. \A k \in 1 .. Len(part) : part[k] \in ToSet(sent')
  BY <1>2, <1>3 DEF ToSet
<1>5. ASSUME NEW i \in 1 .. DynBuf, i <= pos + Len(part) \/ buf[i] \in ToSet(sent)
      PROVE  buf'[i] \in ToSet(sent')
  <2>1. CASE i - pos \in 1 .. Len(part)
    BY <1>1, <1>2, <1>4, <2>1
  <2>2. CASE i - pos \notin 1 .. Len(part)
    <3>1. buf'[i] = buf[i]
      BY <1>1, <1>2, <2>2
    <3>2. i \in 1 .. pos \/ buf[i] \in ToSet(sent)
      BY <1>2, <1>5, <2>2
    <3> QED BY <1>3, <3>1, <3>2 DEF FreshInv
  <2> QED BY <2>1, <2>2
<1>6. \A i \in 1 .. pos + Len(part) : i \in 1 .. DynBuf /\ i <= pos + Len(part)
  BY <1>2
<1>7. \A i \in 1 .. pos : i \in 1 .. DynBuf /\ i <= pos + Len(part)
  BY <1>2
<1>8. \A i \in 1 .. cnt : i \in 1 .. DynBuf
  BY <1>2
<1>9. en /\ ~nak => \A i \in 1 .. cnt : buf'[i] \in ToSet(sent')
  BY <1>5, <1>8 DEF FreshInv
<1> QED BY <1>1, <1>5, <1>6, <1>7, <1>9 DEF FreshInv

LEMMA FreshStep == InShape /\ TornInv /\ GoneInv /\ FreshInv /\ [Next]_vars => FreshInv'
<1> SUFFICES ASSUME InShape, TornInv, GoneInv, FreshInv, [Next]_vars PROVE FreshInv'
  OBVIOUS
<1>1. CASE InReset \/ InConfigured
  <2>1. CASE InReset
    BY <2>1 DEF InReset, callVars, FreshInv
  <2>2. CASE InConfigured
    <3>1. nak' /\ pc' = pc /\ (torn' <=> pc # "idle") /\ pos' = 0
      BY <2>2, Zenon DEF InConfigured, Restage, callVars
    <3> QED BY <3>1 DEF FreshInv
  <2> QED BY <1>1, <2>1, <2>2
<1>2. ASSUME NEW o \in {reg, pos}, Using(o) PROVE FreshInv'
  <2>0. ~torn /\ pc # "idle" => o = pos
    BY DEF TornInv
  <2>1. CASE TakeRoom(o) \/ AppendFull(o)
    <3>1. UNCHANGED <<buf, pos, cnt, en, nak, sent, torn>> /\ pc' \in {"copy", "waitIdle"}
      BY <2>1 DEF TakeRoom, AppendFull, epVars, history
    <3> QED BY <3>1 DEF FreshInv
  <2>2. CASE Copy(o)
    <3>1. pc = "copy" /\ torn' = torn
      BY <2>2 DEF Copy
    <3>2. CASE ~torn
      BY <2>0, <2>2, <3>1, <3>2, FreshCopy
    <3>3. CASE torn
      BY <3>1, <3>3 DEF FreshInv
    <3> QED BY <3>2, <3>3
  <2>3. CASE Advance(o)
    <3>1. /\ pc = "advance" /\ pos' = o + Len(part) /\ pc' = "append"
          /\ UNCHANGED <<buf, cnt, en, nak, sent, torn>>
      BY <2>3 DEF Advance, epVars, history
    <3> QED BY <2>0, <3>1 DEF FreshInv
  <2>4. CASE Count(o)
    <3>1. pc = "count" /\ cnt' = o /\ pc' = "arm" /\ UNCHANGED <<buf, pos, en, nak, sent, torn>>
      BY <2>4 DEF Count, history
    <3> QED BY <2>0, <3>1 DEF FreshInv
  <2> QED BY <1>2, <2>1, <2>2, <2>3, <2>4 DEF Using
<1>3. CASE Arm
  <2>1. pc = "arm" /\ pc' = "waitDone" /\ UNCHANGED <<buf, pos, cnt, sent, torn>>
    BY <1>3 DEF Arm, history
  <2> QED BY <2>1 DEF FreshInv
<1>4. CASE Released
  <2>1. /\ pc = "clear" /\ pc' \in {"idle", "append"} /\ pos' = 0
        /\ UNCHANGED <<buf, cnt, en, nak, sent>>
    BY <1>4 DEF Released
  <2> QED BY <2>1 DEF FreshInv, GoneInv
<1>5. CASE DoneTimeout
  <2>1. pos' = 0 /\ pc' = "idle" /\ UNCHANGED <<buf, cnt, en, nak, sent, torn>>
    BY <1>5 DEF DoneTimeout, GiveUp, epVars
  <2> QED BY <2>1 DEF FreshInv
<1>6. CASE AppendDone \/ WaitIdle \/ IdleTimeout \/ WaitDone
  <2>1. /\ UNCHANGED <<buf, pos, cnt, en, nak, sent, torn>>
        /\ pc' \in {"idle", "append", "waitIdle", "count", "clear"}
    BY <1>6 DEF AppendDone, WaitIdle, IdleTimeout, GiveUp, WaitDone, epVars, history
  <2> QED BY <2>1 DEF FreshInv
<1>7. CASE Flush \/ WriteEvent(EventLen) \/ \E n \in Lens : SendReport(n)
  <2>1. UNCHANGED <<buf, pos, cnt, en, nak, sent, torn>> /\ pc' \in {"append", "waitIdle"}
    BY <1>7 DEF Flush, WriteEvent, SendReport, Enter, epVars, history
  <2> QED BY <2>1 DEF FreshInv
<1>8. CASE InDeconfigured \/ Collect \/ UNCHANGED inVars
  <2>1. UNCHANGED <<buf, pos, cnt, sent, torn, pc, part>> /\ (en' /\ ~nak' => en /\ ~nak)
    BY <1>8 DEF InDeconfigured, Collect, inVars, callVars, epVars, history
  <2> QED BY <2>1 DEF FreshInv
<1> QED BY <1>1, <1>2, <1>3, <1>4, <1>5, <1>6, <1>7, <1>8, InNext

\* Nothing staged before SET_CONFIGURATION is offered to the host after it, unless
\* SET_CONFIGURATION fell in a call, which may then go on with the s_dyn_ep_pos it
\* had loaded, and no packet has gone out since.
THEOREM StaleCorrect == Spec => []NothingStale
<1>1. Init => InShape /\ TornInv /\ GoneInv /\ FreshInv
  BY ShapeStarts DEF Init, InInit, TornInv, GoneInv, FreshInv
<1>2. InShape /\ TornInv /\ GoneInv /\ FreshInv /\ [Next]_vars
        => (InShape /\ TornInv /\ GoneInv /\ FreshInv)'
  BY ShapeStep, TornStep, FreshStep
<1>3. FreshInv => NothingStale
  BY DEF FreshInv, NothingStale
<1> QED BY <1>1, <1>2, <1>3, PTL DEF Spec

-----------------------------------------------------------------------------
(* In order, and whole.                                                    *)

\* Where the staged bytes are at each point of USB_Send() and dyn_ep_release():
\* behind what the host has collected, or collected as well.
OrderInv ==
  /\ pc \in {"idle", "append", "copy", "advance", "waitIdle", "count", "arm", "waitDone", "clear"}
  /\ ~broken =>
       /\ pc \in {"idle", "append", "copy", "waitIdle", "count", "arm"}
            => nak /\ sent = wire \o SubSeq(buf, 1, pos)
       /\ pc = "advance" => nak /\ sent = wire \o SubSeq(buf, 1, pos + Len(part))
       /\ pc = "arm" => cnt = pos
       /\ pc = "waitDone" /\ ~nak => ~trn /\ cnt = pos /\ sent = wire \o SubSeq(buf, 1, pos)
       /\ (pc = "waitDone" /\ nak) \/ pc = "clear" => nak /\ sent = wire

LEMMA EmptyStage == InShape => wire \o SubSeq(buf, 1, 0) = wire /\ <<>> \o SubSeq(buf, 1, 0) = <<>>
<1> SUFFICES ASSUME InShape PROVE wire \o SubSeq(buf, 1, 0) = wire /\ <<>> \o SubSeq(buf, 1, 0) = <<>>
  OBVIOUS
<1>1. SubSeq(buf, 1, 0) = <<>>
  BY SubSeqEmpty
<1>2. <<>> \in Seq(Byte)
  BY EmptySeq
<1> QED BY <1>1, <1>2, ConcatEmptySeq DEF InShape

\* The first n values of a function, as a sequence.
LEMMA FirstOf ==
  ASSUME NEW f, NEW n \in Nat, \A i \in 1 .. n : f[i] \in Byte
  PROVE  /\ SubSeq(f, 1, n) \in Seq(Byte) /\ Len(SubSeq(f, 1, n)) = n
         /\ \A i \in 1 .. n : SubSeq(f, 1, n)[i] = f[i]
<1> DEFINE A == SubSeq(f, 1, n)
<1>1. /\ A \in Seq(Byte) /\ Len(A) = IF 1 <= n THEN n - 1 + 1 ELSE 0
      /\ \A i \in 1 .. n - 1 + 1 : A[i] = f[1 + i - 1]
  BY SubSeqProperties
<1> HIDE DEF A
<1>2. Len(A) = n /\ n - 1 + 1 = n
  BY <1>1
<1>3. ASSUME NEW i \in 1 .. n PROVE A[i] = f[i]
  <2>1. 1 + i - 1 = i /\ i \in 1 .. n - 1 + 1
    OBVIOUS
  <2> QED BY <1>1, <2>1
<1>4. A \in Seq(Byte) /\ Len(A) = n /\ \A i \in 1 .. n : A[i] = f[i]
  BY <1>1, <1>2, <1>3
<1> QED BY <1>4 DEF A

\* The copy leaves what is staged and puts the part behind it.
LEMMA StagePart ==
  ASSUME InShape, pc = "copy", reg = pos, Copy(pos)
  PROVE  SubSeq(buf', 1, pos + Len(part)) = SubSeq(buf, 1, pos) \o part
<1> DEFINE q == pos + Len(part)
<1>1. buf' = [i \in 1 .. DynBuf |-> IF i - pos \in DOMAIN part THEN part[i - pos] ELSE buf[i]]
  BY DEF Copy
<1>2. /\ part \in Seq(Byte) /\ Len(part) \in Nat /\ DOMAIN part = 1 .. Len(part)
      /\ pos \in Nat /\ q \in Nat /\ q <= DynBuf /\ DynBuf \in Nat /\ q = pos + Len(part)
  BY LenProperties, DynInAssumption DEF InShape
<1> HIDE DEF q
<1>3. \A i \in 1 .. q : buf'[i] \in Byte
  <2>1. \A i \in 1 .. DynBuf : i - pos \in DOMAIN part => part[i - pos] \in Byte
    BY <1>2, ElementOfSeq
  <2> QED BY <1>1, <1>2, <2>1 DEF InShape
<1> DEFINE A == SubSeq(buf', 1, q)
           B == SubSeq(buf, 1, pos)
<1>4. A \in Seq(Byte) /\ Len(A) = q /\ \A i \in 1 .. q : A[i] = buf'[i]
  BY <1>2, <1>3, FirstOf
<1>5. B \in Seq(Byte) /\ Len(B) = pos /\ \A i \in 1 .. pos : B[i] = buf[i]
  <2>1. \A i \in 1 .. pos : buf[i] \in Byte
    BY DynInAssumption DEF InShape
  <2> QED BY <1>2, <2>1, FirstOf
<1> HIDE DEF A, B
<1>6. /\ B \o part \in Seq(Byte) /\ Len(B \o part) = q
      /\ \A i \in 1 .. q : (B \o part)[i] = IF i <= pos THEN B[i] ELSE part[i - pos]
  <2>1. /\ B \o part \in Seq(Byte) /\ Len(B \o part) = Len(B) + Len(part)
        /\ \A i \in 1 .. Len(B) + Len(part) : (B \o part)[i] = IF i <= Len(B) THEN B[i] ELSE part[i - Len(B)]
    BY <1>2, <1>5, ConcatProperties
  <2> QED BY <1>2, <1>5, <2>1
<1>7. ASSUME NEW i \in 1 .. q PROVE A[i] = (B \o part)[i]
  <2>1. i \in 1 .. DynBuf /\ A[i] = buf'[i]
    BY <1>2, <1>4
  <2>2. CASE i <= pos
    BY <1>1, <1>2, <1>5, <1>6, <2>1, <2>2
  <2>3. CASE ~(i <= pos)
    <3>1. i - pos \in 1 .. Len(part)
      BY <1>2, <2>3
    <3>2. buf'[i] = part[i - pos]
      BY <1>1, <1>2, <2>1, <3>1
    <3> QED BY <1>6, <2>1, <2>3, <3>2
  <2> QED BY <2>2, <2>3
<1>8. A = B \o part
  BY <1>4, <1>6, <1>7, SeqEqual
<1> QED BY <1>8 DEF A, B, q

LEMMA OrderStep == InShape /\ TornInv /\ OrderInv /\ [Next]_vars => OrderInv'
<1> SUFFICES ASSUME InShape, TornInv, OrderInv, [Next]_vars PROVE OrderInv'
  OBVIOUS
<1>1. CASE InReset \/ InDeconfigured \/ IdleTimeout \/ DoneTimeout
  BY <1>1 DEF InReset, InDeconfigured, IdleTimeout, DoneTimeout, GiveUp, callVars, OrderInv
<1>2. CASE InConfigured
  <2>1. /\ nak' /\ pos' = 0 /\ sent' = <<>> /\ wire' = <<>> /\ pc' = pc /\ buf' = buf
        /\ (~broken' => pc = "idle")
    BY <1>2 DEF InConfigured, Restage, callVars
  <2> QED BY <2>1, EmptyStage DEF OrderInv
<1>3. CASE Collect
  <2>1. /\ ~nak /\ nak' /\ (~broken => wire' = wire \o SubSeq(buf, 1, cnt))
        /\ UNCHANGED <<pc, part, sent, broken>>
    BY <1>3 DEF Collect, callVars
  <2> QED BY <2>1 DEF OrderInv
<1>4. ASSUME NEW o \in {reg, pos}, Using(o) PROVE OrderInv'
  <2>0. ~broken /\ pc # "idle" => o = pos /\ reg = pos
    BY DEF TornInv
  <2>1. CASE TakeRoom(o) \/ AppendFull(o)
    <3>1. pc = "append" /\ pc' \in {"copy", "waitIdle"} /\ UNCHANGED <<buf, pos, nak, sent, wire, broken>>
      BY <2>1 DEF TakeRoom, AppendFull, epVars, history
    <3> QED BY <3>1 DEF OrderInv
  <2>2. CASE Copy(o)
    <3>1. /\ pc = "copy" /\ pc' = "advance" /\ sent' = sent \o part
          /\ UNCHANGED <<pos, part, nak, wire, broken>>
      BY <2>2 DEF Copy, epVars
    <3>2. ASSUME ~broken PROVE sent' = wire \o SubSeq(buf', 1, pos + Len(part))
      <4>1. part \in Seq(Byte) /\ SubSeq(buf, 1, pos) \in Seq(Byte) /\ wire \in Seq(Byte)
        BY CollectedType DEF InShape
      <4>2. \A q, r, t \in Seq(Byte) : (q \o r) \o t = q \o (r \o t)
        BY ConcatAssociative
      <4>3. (wire \o SubSeq(buf, 1, pos)) \o part = wire \o (SubSeq(buf, 1, pos) \o part)
        BY <4>1, <4>2, Zenon
      <4>4. Copy(pos) /\ reg = pos
        BY <2>0, <2>2, <3>1, <3>2
      <4>5. SubSeq(buf', 1, pos + Len(part)) = SubSeq(buf, 1, pos) \o part
        BY <3>1, <4>4, StagePart
      <4> QED BY <3>1, <3>2, <4>3, <4>5 DEF OrderInv
    <3> QED BY <3>1, <3>2 DEF OrderInv
  <2>3. CASE Advance(o)
    <3>1. /\ pc = "advance" /\ pc' = "append" /\ pos' = o + Len(part)
          /\ UNCHANGED <<buf, nak, sent, wire, broken>>
      BY <2>3 DEF Advance, epVars, history
    <3> QED BY <2>0, <3>1 DEF OrderInv
  <2>4. CASE Count(o)
    <3>1. pc = "count" /\ pc' = "arm" /\ cnt' = o /\ UNCHANGED <<buf, pos, nak, sent, wire, broken>>
      BY <2>4 DEF Count, history
    <3> QED BY <2>0, <3>1 DEF OrderInv
  <2> QED BY <1>4, <2>1, <2>2, <2>3, <2>4 DEF Using
<1>5. CASE AppendDone
  BY <1>5 DEF AppendDone, epVars, history, OrderInv
<1>6. CASE WaitIdle
  BY <1>6 DEF WaitIdle, epVars, history, OrderInv
<1>7. CASE Arm
  <2>1. pc = "arm" /\ pc' = "waitDone" /\ ~nak' /\ ~trn' /\ UNCHANGED <<cnt, pos, buf, sent, wire, broken>>
    BY <1>7 DEF Arm, history
  <2> QED BY <2>1 DEF OrderInv
<1>8. CASE WaitDone
  <2>1. pc = "waitDone" /\ pc' = "clear" /\ trn /\ UNCHANGED <<nak, sent, wire, broken>>
    BY <1>8 DEF WaitDone, Done, epVars, history
  <2> QED BY <2>1 DEF OrderInv
<1>9. CASE Released
  <2>1. /\ pc = "clear" /\ pc' \in {"idle", "append"} /\ pos' = 0
        /\ UNCHANGED <<nak, buf, sent, wire, broken>>
    BY <1>9 DEF Released
  <2> QED BY <2>1, EmptyStage DEF OrderInv
<1>10. CASE Flush \/ WriteEvent(EventLen) \/ \E n \in Lens : SendReport(n)
  <2>1. pc = "idle" /\ pc' \in {"append", "waitIdle"} /\ UNCHANGED <<nak, pos, buf, sent, wire, broken>>
    BY <1>10 DEF Flush, WriteEvent, SendReport, Enter, epVars, history
  <2> QED BY <2>1 DEF OrderInv
<1>11. CASE UNCHANGED inVars
  BY <1>11 DEF inVars, epVars, callVars, history, OrderInv
<1> QED BY <1>1, <1>2, <1>3, <1>4, <1>5, <1>6, <1>7, <1>8, <1>9, <1>10, <1>11, InNext

LEMMA OrderCorrect == Spec => [](InShape /\ OrderInv)
<1>1. Init => InShape /\ TornInv /\ GoneInv /\ OrderInv
  BY ShapeStarts DEF Init, InInit, TornInv, GoneInv, OrderInv
<1>2. InShape /\ TornInv /\ GoneInv /\ OrderInv /\ [Next]_vars
        => (InShape /\ TornInv /\ GoneInv /\ OrderInv)'
  BY ShapeStep, TornStep, OrderStep
<1> QED BY <1>1, <1>2, PTL DEF Spec

LEMMA ConcatPrefix ==
  ASSUME NEW s \in Seq(Byte), NEW t \in Seq(Byte)
  PROVE  IsPrefix(s, s \o t) /\ IsPrefix(s, s)
<1>1. Len(s \o t) = Len(s) + Len(t) /\ Len(s) \in Nat /\ Len(t) \in Nat
  BY ConcatProperties
<1>2. SubSeq(s, 1, Len(s)) = SubSeq(s \o t, 1, Len(s))
  <2>1. CASE Len(s) = 0
    BY <2>1, SubSeqEmpty
  <2>2. CASE Len(s) # 0
    <3>1. 1 \in 1 .. Len(s) /\ Len(s) \in 1 .. Len(s)
      BY <1>1, <2>2
    <3> QED BY <3>1, SubSeqOfConcat1
  <2> QED BY <2>1, <2>2
<1> QED BY <1>1, <1>2 DEF IsPrefix

\* The host collects the staged bytes in order and each once, as long as no
\* wait has timed out and no call was interrupted by a bus event.
THEOREM CollectedCorrect == Spec => []CollectedInOrder
<1>1. InShape /\ OrderInv => CollectedInOrder
  <2> SUFFICES ASSUME InShape, OrderInv, ~broken PROVE IsPrefix(wire, sent)
    BY DEF CollectedInOrder
  <2>1. wire \in Seq(Byte) /\ SubSeq(buf, 1, pos) \in Seq(Byte)
    BY CollectedType DEF InShape
  <2>2. CASE pc = "advance"
    <3>1. SubSeq(buf, 1, pos + Len(part)) \in Seq(Byte)
      <4>1. pos + Len(part) \in Int /\ pos + Len(part) <= DynBuf /\ DynBuf \in Nat
        BY <2>2, LenProperties, DynInAssumption DEF InShape
      <4>2. \A i \in 1 .. pos + Len(part) : buf[i] \in Byte
        BY <4>1 DEF InShape
      <4> QED BY <4>1, <4>2, SubSeqProperties
    <3> QED BY <2>1, <2>2, <3>1, ConcatPrefix DEF OrderInv
  <2>3. CASE pc # "advance"
    <3>1. sent = wire \/ sent = wire \o SubSeq(buf, 1, pos)
      BY <2>3 DEF OrderInv
    <3> QED BY <2>1, <3>1, ConcatPrefix
  <2> QED BY <2>2, <2>3
<1> QED BY <1>1, OrderCorrect, PTL

\* When SendReport() says the report was sent, the host has collected it whole,
\* under the same conditions.
THEOREM SuccessCorrect == Spec => SuccessMeansCollected
<1>1. InShape /\ OrderInv /\ [Next]_vars
        => [pc # "idle" /\ pc' = "idle" /\ release /\ ~broken' => wire = sent]_vars
  <2> SUFFICES ASSUME OrderInv, [Next]_vars, pc # "idle", pc' = "idle", release, ~broken'
               PROVE  wire = sent
    OBVIOUS
  <2>1. CASE InReset \/ InConfigured \/ InDeconfigured \/ Collect \/ UNCHANGED inVars
    BY <2>1 DEF InReset, InConfigured, InDeconfigured, Collect, inVars, callVars
  <2>2. CASE Released
    BY <2>2 DEF Released, OrderInv
  <2>3. CASE IdleTimeout \/ DoneTimeout
    BY <2>3 DEF IdleTimeout, DoneTimeout, GiveUp
  <2>4. CASE AppendDone
    BY <2>4 DEF AppendDone
  <2>5. ASSUME NEW o \in {reg, pos}, Using(o) PROVE FALSE
    BY <2>5 DEF Using, TakeRoom, AppendFull, Copy, Advance, Count
  <2>6. CASE WaitIdle \/ Arm \/ WaitDone
    BY <2>6 DEF WaitIdle, Arm, WaitDone
  <2>7. CASE Flush \/ WriteEvent(EventLen) \/ \E n \in Lens : SendReport(n)
    BY <2>7 DEF Flush, WriteEvent, SendReport, Enter
  <2> QED BY <2>1, <2>2, <2>3, <2>4, <2>5, <2>6, <2>7, InNext
<1> QED BY <1>1, OrderCorrect, PTL DEF Spec, SuccessMeansCollected

-----------------------------------------------------------------------------
(* Rings.                                                                  *)

LEMMA DistanceIs ==
  ASSUME NEW n \in Nat \ {0}, NEW t \in 0 .. n - 1, NEW h \in 0 .. n - 1
  PROVE  /\ Distance(t, h, n) = IF h >= t THEN h - t ELSE h - t + n
         /\ Distance(t, h, n) \in 0 .. n - 1
         /\ Distance(t, h, n) = 0 <=> t = h
<1>1. CASE h >= t
  <2>1. h - t \in 0 .. n - 1
    BY <1>1
  <2>2. (h - t) % n = h - t
    BY <2>1
  <2> QED BY <1>1, <2>1, <2>2 DEF Distance
<1>2. CASE ~(h >= t)
  <2>1. h - t + n \in 1 .. n - 1
    BY <1>2
  <2>2. (h - t) % n = h - t + n
    BY <2>1
  <2> QED BY <1>2, <2>1, <2>2 DEF Distance
<1> QED BY <1>1, <1>2

LEMMA SlotIs ==
  ASSUME NEW n \in Nat \ {0}, NEW t \in 0 .. n - 1, NEW k \in 0 .. n
  PROVE  /\ (t + k) % n = IF t + k < n THEN t + k ELSE t + k - n
         /\ (t + k) % n \in 0 .. n - 1
<1>1. CASE t + k < n
  BY <1>1
<1>2. CASE ~(t + k < n)
  <2>1. t + k - n \in 0 .. n - 1
    BY <1>2
  <2> QED BY <1>2, <2>1
<1> QED BY <1>1, <1>2

\* The writer's advance makes the reader's way longer by as much.
LEMMA DistanceAfterPut ==
  ASSUME NEW n \in Nat \ {0}, NEW t \in 0 .. n - 1, NEW h \in 0 .. n - 1, NEW k \in 0 .. n,
         Distance(t, h, n) + k < n
  PROVE  Distance(t, (h + k) % n, n) = Distance(t, h, n) + k /\ (h + k) % n \in 0 .. n - 1
<1>1. /\ (h + k) % n = IF h + k < n THEN h + k ELSE h + k - n
      /\ (h + k) % n \in 0 .. n - 1
  BY SlotIs
<1>2. Distance(t, h, n) = IF h >= t THEN h - t ELSE h - t + n
  BY DistanceIs
<1> DEFINE g == (h + k) % n
<1> HIDE DEF g
<1>3. g \in 0 .. n - 1 /\ g = IF h + k < n THEN h + k ELSE h + k - n
  BY <1>1 DEF g
<1>4. Distance(t, g, n) = IF g >= t THEN g - t ELSE g - t + n
  BY <1>3, DistanceIs
<1>5. Distance(t, g, n) = Distance(t, h, n) + k
  BY <1>2, <1>3, <1>4
<1> QED BY <1>1, <1>5 DEF g

\* The slot of the i-th value.
Nth(t, i, n) == (t + i - 1) % n

\* What a reader still finds in a ring of values in S.
RingedIs(r, t, h, n, S) ==
  /\ Ringed(r, t, h, n) \in Seq(S)
  /\ Len(Ringed(r, t, h, n)) = Distance(t, h, n)
  /\ \A i \in 1 .. Distance(t, h, n) :
       Nth(t, i, n) \in 0 .. n - 1 /\ Ringed(r, t, h, n)[i] = r[Nth(t, i, n)]

LEMMA RingedProperties ==
  ASSUME NEW S, NEW n \in Nat \ {0}
  PROVE  \A t, h \in 0 .. n - 1 : \A r \in [0 .. n - 1 -> S] : RingedIs(r, t, h, n, S)
<1> SUFFICES ASSUME NEW t \in 0 .. n - 1, NEW h \in 0 .. n - 1, NEW r \in [0 .. n - 1 -> S]
             PROVE  RingedIs(r, t, h, n, S)
  BY Zenon
<1> DEFINE d == Distance(t, h, n)
           A == Ringed(r, t, h, n)
<1>1. d \in 0 .. n - 1
  BY DistanceIs
<1>2. A = [i \in 1 .. d |-> r[Nth(t, i, n)]]
  BY DEF Ringed, Nth
<1> HIDE DEF d, A, RingedIs
<1>3. ASSUME NEW i \in 1 .. d PROVE Nth(t, i, n) \in 0 .. n - 1
  <2>1. i - 1 \in 0 .. n /\ t + i - 1 = t + (i - 1)
    BY <1>1
  <2>2. (t + (i - 1)) % n \in 0 .. n - 1
    BY <2>1, SlotIs
  <2> QED BY <2>1, <2>2 DEF Nth
<1>4. \A i \in 1 .. d : r[Nth(t, i, n)] \in S
  BY <1>3
<1>5. [i \in 1 .. d |-> r[Nth(t, i, n)]] \in Seq(S)
  BY <1>1, <1>4, IsASeq
<1>6. A \in Seq(S) /\ DOMAIN A = 1 .. d
  BY <1>2, <1>5
<1>7. Len(A) = d
  BY <1>1, <1>6, LenProperties
<1>8. \A i \in 1 .. d : A[i] = r[Nth(t, i, n)]
  BY <1>2
<1> QED BY <1>3, <1>6, <1>7, <1>8 DEF d, A, RingedIs

LEMMA PutAllType ==
  ASSUME NEW S, NEW n \in Nat \ {0}, NEW h \in 0 .. n - 1, NEW r \in [0 .. n - 1 -> S],
         NEW q \in Seq(S)
  PROVE  PutAll(r, h, n, q) \in [0 .. n - 1 -> S]
<1>1. \A s \in 0 .. n - 1 : Distance(h, s, n) \in 0 .. n - 1
  BY DistanceIs
<1>2. \A i \in 1 .. Len(q) : q[i] \in S
  BY ElementOfSeq
<1>3. Len(q) \in Nat
  BY LenProperties
<1>4. \A s \in 0 .. n - 1 : Distance(h, s, n) < Len(q) => Distance(h, s, n) + 1 \in 1 .. Len(q)
  <2>1. ASSUME NEW s \in 0 .. n - 1, Distance(h, s, n) < Len(q)
        PROVE  Distance(h, s, n) + 1 \in 1 .. Len(q)
    <3>1. Distance(h, s, n) \in 0 .. n - 1
      BY <1>1
    <3> QED BY <1>3, <2>1, <3>1
  <2> QED BY <2>1
<1> QED BY <1>2, <1>4 DEF PutAll

\* What is stored behind the values of a ring with room for it follows them.
PutFollows(r, t, h, n, q) ==
  Ringed(PutAll(r, h, n, q), t, (h + Len(q)) % n, n) = Ringed(r, t, h, n) \o q

LEMMA RingPut ==
  ASSUME NEW S, NEW n \in Nat \ {0}
  PROVE  \A t, h \in 0 .. n - 1 : \A r \in [0 .. n - 1 -> S] : \A q \in Seq(S) :
           Distance(t, h, n) + Len(q) < n => PutFollows(r, t, h, n, q)
<1> SUFFICES ASSUME NEW t \in 0 .. n - 1, NEW h \in 0 .. n - 1,
                    NEW r \in [0 .. n - 1 -> S], NEW q \in Seq(S), Distance(t, h, n) + Len(q) < n
             PROVE  PutFollows(r, t, h, n, q)
  BY Zenon
<1> DEFINE d == Distance(t, h, n)
           l == Len(q)
           g == (h + l) % n
           R == PutAll(r, h, n, q)
           A == Ringed(R, t, g, n)
           B == Ringed(r, t, h, n)
<1>1. l \in Nat /\ d \in 0 .. n - 1 /\ l \in 0 .. n /\ d + l < n
  <2>1. Len(q) \in Nat /\ Distance(t, h, n) \in 0 .. n - 1
    BY DistanceIs, LenProperties
  <2> QED BY <2>1
<1>2. g \in 0 .. n - 1 /\ Distance(t, g, n) = d + l
  BY <1>1, DistanceAfterPut
<1>3. R \in [0 .. n - 1 -> S]
  BY PutAllType
<1>4. /\ B \in Seq(S) /\ Len(B) = d
      /\ \A i \in 1 .. d : Nth(t, i, n) \in 0 .. n - 1 /\ B[i] = r[Nth(t, i, n)]
  <2>1. RingedIs(r, t, h, n, S)
    BY RingedProperties, Zenon
  <2> QED BY <2>1 DEF RingedIs
<1>5. \A s \in 0 .. n - 1 : R[s] = IF Distance(h, s, n) < l THEN q[Distance(h, s, n) + 1] ELSE r[s]
  BY DEF PutAll
<1>d. d = IF h >= t THEN h - t ELSE h - t + n
  BY DistanceIs
<1> HIDE DEF d, l, g, R, B
<1>6. /\ A \in Seq(S) /\ Len(A) = d + l
      /\ \A i \in 1 .. d + l : Nth(t, i, n) \in 0 .. n - 1 /\ A[i] = R[Nth(t, i, n)]
  <2>1. RingedIs(R, t, g, n, S)
    BY <1>2, <1>3, RingedProperties, Zenon
  <2> QED BY <1>2, <2>1 DEF RingedIs
<1> HIDE DEF A
<1>7. /\ B \o q \in Seq(S) /\ Len(B \o q) = d + l
      /\ \A i \in 1 .. d + l : (B \o q)[i] = IF i <= d THEN B[i] ELSE q[i - d]
  <2>1. /\ B \o q \in Seq(S) /\ Len(B \o q) = Len(B) + Len(q)
        /\ \A i \in 1 .. Len(B) + Len(q) : (B \o q)[i] = IF i <= Len(B) THEN B[i] ELSE q[i - Len(B)]
    BY <1>4, ConcatProperties
  <2> QED BY <1>4, <2>1 DEF l
<1>8. ASSUME NEW i \in 1 .. d + l PROVE A[i] = (B \o q)[i]
  <2> DEFINE s == Nth(t, i, n)
  <2>1. s \in 0 .. n - 1 /\ A[i] = R[s]
    BY <1>6
  <2>2. s = IF t + i - 1 < n THEN t + i - 1 ELSE t + i - 1 - n
    <3>1. i - 1 \in 0 .. n /\ t + i - 1 = t + (i - 1)
      BY <1>1
    <3>2. (t + (i - 1)) % n = IF t + (i - 1) < n THEN t + (i - 1) ELSE t + (i - 1) - n
      BY <3>1, SlotIs
    <3> QED BY <3>1, <3>2 DEF Nth
  <2>3. i <= d => B[i] = r[s]
    BY <1>4
  <2> HIDE DEF s
  <2>4. Distance(h, s, n) = IF s >= h THEN s - h ELSE s - h + n
    BY <2>1, DistanceIs
  <2>5. CASE i <= d
    <3>1. ~(Distance(h, s, n) < l)
      BY <1>1, <1>d, <2>1, <2>2, <2>4, <2>5
    <3>2. A[i] = r[s]
      BY <1>5, <2>1, <3>1
    <3> QED BY <1>7, <2>3, <2>5, <3>2
  <2>6. CASE ~(i <= d)
    <3>1. Distance(h, s, n) = i - d - 1
      BY <1>1, <1>d, <2>1, <2>2, <2>4, <2>6
    <3>2. Distance(h, s, n) < l /\ Distance(h, s, n) + 1 = i - d
      BY <1>1, <2>6, <3>1
    <3>3. A[i] = q[i - d]
      BY <1>5, <2>1, <3>2
    <3> QED BY <1>7, <2>6, <3>3
  <2> QED BY <2>5, <2>6
<1>9. A = B \o q
  BY <1>6, <1>7, <1>8, SeqEqual
<1> QED BY <1>9 DEF A, B, R, g, l, PutFollows

\* Taking the first value of a ring leaves the others.
TakeLeaves(r, t, h, n, S) ==
  /\ (t + 1) % n \in 0 .. n - 1 /\ r[t] \in S
  /\ Ringed(r, t, h, n) = <<r[t]>> \o Ringed(r, (t + 1) % n, h, n)

LEMMA RingTake ==
  ASSUME NEW S, NEW n \in Nat \ {0}
  PROVE  \A t, h \in 0 .. n - 1 : \A r \in [0 .. n - 1 -> S] :
           t # h => TakeLeaves(r, t, h, n, S)
<1> SUFFICES ASSUME NEW t \in 0 .. n - 1, NEW h \in 0 .. n - 1, NEW r \in [0 .. n - 1 -> S], t # h
             PROVE  TakeLeaves(r, t, h, n, S)
  BY Zenon
<1> DEFINE d == Distance(t, h, n)
           u == (t + 1) % n
           A == Ringed(r, t, h, n)
           B == Ringed(r, u, h, n)
<1>1. d \in 1 .. n - 1 /\ d = IF h >= t THEN h - t ELSE h - t + n
  <2>1. \A a, b \in 0 .. n - 1 : /\ Distance(a, b, n) = IF b >= a THEN b - a ELSE b - a + n
                                 /\ Distance(a, b, n) \in 0 .. n - 1
                                 /\ Distance(a, b, n) = 0 <=> a = b
    BY DistanceIs
  <2>2. Distance(t, h, n) \in 0 .. n - 1 /\ (Distance(t, h, n) = 0 <=> t = h)
    BY <2>1, Zenon
  <2>3. Distance(t, h, n) = IF h >= t THEN h - t ELSE h - t + n
    BY <2>1, Zenon
  <2> QED BY <2>2, <2>3
<1>2. u \in 0 .. n - 1 /\ u = IF t + 1 < n THEN t + 1 ELSE t + 1 - n
  <2>1. 1 \in 0 .. n
    OBVIOUS
  <2> QED BY <2>1, SlotIs
<1>3. /\ A \in Seq(S) /\ Len(A) = d
      /\ \A i \in 1 .. d : A[i] = r[Nth(t, i, n)]
  <2>1. RingedIs(r, t, h, n, S)
    BY RingedProperties, Zenon
  <2> QED BY <2>1 DEF RingedIs
<1> HIDE DEF d, u, A
<1>4. Distance(u, h, n) = d - 1
  <2>1. Distance(u, h, n) = IF h >= u THEN h - u ELSE h - u + n
    <3>1. \A a, b \in 0 .. n - 1 : Distance(a, b, n) = IF b >= a THEN b - a ELSE b - a + n
      BY DistanceIs
    <3> QED BY <1>2, <3>1
  <2> QED BY <1>1, <1>2, <2>1
<1>5. /\ B \in Seq(S) /\ Len(B) = d - 1
      /\ \A i \in 1 .. d - 1 : B[i] = r[Nth(u, i, n)]
  <2>1. RingedIs(r, u, h, n, S)
    BY <1>2, RingedProperties, Zenon
  <2> QED BY <1>4, <2>1 DEF RingedIs
<1> HIDE DEF B
<1>6. r[t] \in S /\ <<r[t]>> \in Seq(S) /\ Len(<<r[t]>>) = 1
  OBVIOUS
<1>7. /\ <<r[t]>> \o B \in Seq(S) /\ Len(<<r[t]>> \o B) = d
      /\ \A i \in 1 .. d : (<<r[t]>> \o B)[i] = IF i <= 1 THEN r[t] ELSE B[i - 1]
  <2>1. /\ <<r[t]>> \o B \in Seq(S) /\ Len(<<r[t]>> \o B) = 1 + (d - 1)
        /\ \A i \in 1 .. 1 + (d - 1) : (<<r[t]>> \o B)[i] = IF i <= 1 THEN <<r[t]>>[i] ELSE B[i - 1]
    BY <1>5, <1>6, ConcatProperties
  <2>2. 1 + (d - 1) = d /\ \A i \in 1 .. d : i <= 1 => i = 1
    BY <1>1
  <2> QED BY <2>1, <2>2
<1>8. ASSUME NEW i \in 1 .. d PROVE A[i] = (<<r[t]>> \o B)[i]
  <2>1. CASE i = 1
    <3>1. t + i - 1 = t /\ t % n = t
      BY <2>1
    <3>2. A[1] = r[t]
      BY <1>1, <1>3, <2>1, <3>1 DEF Nth
    <3> QED BY <1>7, <2>1, <3>2
  <2>2. CASE i # 1
    <3>1. i - 1 \in 1 .. d - 1 /\ ~(i <= 1)
      BY <1>1, <2>2
    <3>2. Nth(t, i, n) = Nth(u, i - 1, n)
      <4>1. CASE t + 1 < n
        <5>1. u + (i - 1) - 1 = t + i - 1
          BY <1>1, <1>2, <4>1
        <5> QED BY <5>1 DEF Nth
      <4>2. CASE ~(t + 1 < n)
        <5>1. t + i - 1 = (i - 2) + n /\ u + (i - 1) - 1 = i - 2 /\ i - 2 \in 0 .. n - 1
          BY <1>1, <1>2, <2>2, <4>2
        <5>2. \A x \in 0 .. n - 1 : (x + n) % n = x /\ x % n = x
          OBVIOUS
        <5> QED BY <5>1, <5>2 DEF Nth
      <4> QED BY <4>1, <4>2
    <3> QED BY <1>3, <1>5, <1>7, <3>1, <3>2
  <2> QED BY <2>1, <2>2
<1>9. A = <<r[t]>> \o B
  BY <1>3, <1>7, <1>8, SeqEqual
<1> QED BY <1>2, <1>6, <1>9 DEF A, B, u, TakeLeaves

-----------------------------------------------------------------------------
(* The stream of the host.                                                 *)

LEMMA Times == \A a \in Nat : a * EventLen \in Nat
<1> SUFFICES ASSUME NEW a \in Nat PROVE a * EventLen \in Nat
  OBVIOUS
<1>1. EventLen \in Nat
  BY DynOutAssumption
<1> QED BY <1>1

LEMMA FlatType ==
  ASSUME NEW a \in Nat, NEW b \in Nat, a <= b
  PROVE  /\ Flat(a, b) \in Seq(Nat) /\ Len(Flat(a, b)) = (b - a) * EventLen
         /\ \A k \in 1 .. (b - a) * EventLen : Flat(a, b)[k] = a * EventLen + k
<1> DEFINE m == (b - a) * EventLen
           F == Flat(a, b)
<1>1. m \in Nat /\ a * EventLen \in Nat
  <2>1. b - a \in Nat
    OBVIOUS
  <2> QED BY <2>1, Times
<1>2. F = [k \in 1 .. m |-> a * EventLen + k]
  BY DEF Flat
<1> HIDE DEF m, F
<1>3. \A k \in 1 .. m : a * EventLen + k \in Nat
  BY <1>1
<1>4. F \in Seq(Nat) /\ DOMAIN F = 1 .. m
  <2>1. [k \in 1 .. m |-> a * EventLen + k] \in Seq(Nat)
    BY <1>1, <1>3, IsASeq
  <2> QED BY <1>2, <2>1
<1>5. Len(F) = m
  BY <1>1, <1>4, LenProperties
<1>6. \A k \in 1 .. m : F[k] = a * EventLen + k
  BY <1>2
<1> QED BY <1>4, <1>5, <1>6 DEF m, F

\* The packet that the host sends goes on where the stream stands.
LEMMA FlatJoin ==
  ASSUME NEW a \in Nat, NEW b \in Nat, NEW c \in Nat, a <= b, b <= c
  PROVE  Flat(a, b) \o Flat(b, c) = Flat(a, c)
<1>1. a <= c
  OBVIOUS
<1>2. /\ (c - a) * EventLen = (b - a) * EventLen + (c - b) * EventLen
      /\ b * EventLen = a * EventLen + (b - a) * EventLen
  <2>1. EventLen \in Nat
    BY DynOutAssumption
  <2> QED BY <2>1
<1> DEFINE x == (b - a) * EventLen
           y == (c - b) * EventLen
           z == (c - a) * EventLen
           p == a * EventLen
           q == b * EventLen
           A == Flat(a, b)
           B == Flat(b, c)
           C == Flat(a, c)
<1>3. x \in Nat /\ y \in Nat /\ p \in Nat
  <2>1. b - a \in Nat /\ c - b \in Nat
    OBVIOUS
  <2> QED BY <2>1, Times
<1>4. A \in Seq(Nat) /\ Len(A) = x /\ \A k \in 1 .. x : A[k] = p + k
  BY FlatType
<1>5. B \in Seq(Nat) /\ Len(B) = y /\ \A k \in 1 .. y : B[k] = q + k
  BY FlatType
<1>6. C \in Seq(Nat) /\ Len(C) = z /\ \A k \in 1 .. z : C[k] = p + k
  BY <1>1, FlatType
<1>7. z = x + y /\ q = p + x
  BY <1>2
<1> HIDE DEF x, y, z, p, q, A, B, C
<1>8. /\ A \o B \in Seq(Nat) /\ Len(A \o B) = x + y
      /\ \A k \in 1 .. x + y : (A \o B)[k] = IF k <= x THEN A[k] ELSE B[k - x]
  <2>1. /\ A \o B \in Seq(Nat) /\ Len(A \o B) = Len(A) + Len(B)
        /\ \A k \in 1 .. Len(A) + Len(B) : (A \o B)[k] = IF k <= Len(A) THEN A[k] ELSE B[k - Len(A)]
    BY <1>4, <1>5, ConcatProperties
  <2> QED BY <1>4, <1>5, <2>1
<1>9. ASSUME NEW k \in 1 .. x + y PROVE (A \o B)[k] = C[k]
  <2>1. C[k] = p + k
    BY <1>6, <1>7
  <2>2. CASE k <= x
    BY <1>3, <1>4, <1>8, <2>1, <2>2
  <2>3. CASE ~(k <= x)
    <3>1. k - x \in 1 .. y
      BY <1>3, <2>3
    <3>2. B[k - x] = q + (k - x)
      BY <1>5, <3>1
    <3> QED BY <1>3, <1>7, <1>8, <2>1, <2>3, <3>2
  <2> QED BY <2>2, <2>3
<1>10. A \o B = C
  BY <1>6, <1>7, <1>8, <1>9, SeqEqual
<1> QED BY <1>10 DEF A, B, C

\* Whole events at the head of the stream are the next ones of the host.
SplitsAt(s, t, a, n, c) == a + n <= c /\ s = Flat(a, a + n) /\ t = Flat(a + n, c)

LEMMA FlatSplit ==
  ASSUME NEW a \in Nat, NEW c \in Nat, NEW n \in Nat, a <= c
  PROVE  \A s, t \in Seq(Nat) :
           s \o t = Flat(a, c) /\ Len(s) = n * EventLen => SplitsAt(s, t, a, n, c)
<1> SUFFICES ASSUME NEW s \in Seq(Nat), NEW t \in Seq(Nat), s \o t = Flat(a, c), Len(s) = n * EventLen
             PROVE  SplitsAt(s, t, a, n, c)
  BY Zenon
<1> DEFINE x == n * EventLen
           z == (c - a) * EventLen
<1>1. EventLen \in Nat /\ EventLen > 0
  BY DynOutAssumption
<1>2. x \in Nat /\ z \in Nat
  <2>1. c - a \in Nat
    OBVIOUS
  <2> QED BY <2>1, Times
<1>3. Len(Flat(a, c)) = z /\ Len(s) = x /\ Len(t) \in Nat
  BY FlatType
<1>4. Len(s \o t) = Len(s) + Len(t)
  BY ConcatProperties
<1>5. x + Len(t) = z
  BY <1>3, <1>4
<1>6. a + n <= c
  <2>1. x <= z
    BY <1>2, <1>3, <1>5
  <2>2. n * EventLen <= (c - a) * EventLen
    BY <2>1
  <2>3. n <= c - a
    BY <1>1, <2>2
  <2> QED BY <2>3
<1> DEFINE A == Flat(a, a + n)
           B == Flat(a + n, c)
<1>7. a + n \in Nat /\ a <= a + n /\ (a + n) - a = n
  OBVIOUS
<1>8. A \in Seq(Nat) /\ Len(A) = x
  BY <1>7, FlatType
<1>9. B \in Seq(Nat) /\ A \o B = s \o t
  BY <1>6, <1>7, FlatType, FlatJoin
<1>10. Len(A) = Len(s)
  BY <1>8
<1> HIDE DEF A, B, x, z
<1>11. s = A /\ t = B
  <2>1. /\ \A i \in 1 .. Len(s) : (s \o t)[i] = s[i]
        /\ \A i \in 1 .. Len(t) : (s \o t)[Len(s) + i] = t[i]
    <3>1. \A i \in 1 .. Len(s) + Len(t) : (s \o t)[i] = IF i <= Len(s) THEN s[i] ELSE t[i - Len(s)]
      BY ConcatProperties
    <3> QED BY <3>1, LenProperties
  <2>2. /\ \A i \in 1 .. Len(A) : (A \o B)[i] = A[i]
        /\ \A i \in 1 .. Len(B) : (A \o B)[Len(A) + i] = B[i]
    <3>1. \A i \in 1 .. Len(A) + Len(B) : (A \o B)[i] = IF i <= Len(A) THEN A[i] ELSE B[i - Len(A)]
      BY <1>8, <1>9, ConcatProperties
    <3>2. Len(A) \in Nat /\ Len(B) \in Nat
      BY <1>8, <1>9, LenProperties
    <3> QED BY <3>1, <3>2
  <2>3. s = A
    <3>1. \A i \in 1 .. Len(s) : s[i] = A[i]
      BY <1>9, <1>10, <2>1, <2>2
    <3> QED BY <1>8, <1>10, <3>1, SeqEqual
  <2>4. Len(t) = Len(B)
    <3>1. Len(A \o B) = Len(A) + Len(B) /\ Len(A) \in Nat /\ Len(B) \in Nat /\ Len(t) \in Nat
      BY <1>8, <1>9, ConcatProperties, LenProperties
    <3> QED BY <1>4, <1>9, <1>10, <3>1
  <2>5. t = B
    <3>1. \A i \in 1 .. Len(t) : t[i] = B[i]
      BY <1>9, <1>10, <2>1, <2>2, <2>4
    <3> QED BY <1>9, <2>4, <3>1, SeqEqual
  <2> QED BY <2>3, <2>5
<1> QED BY <1>6, <1>11 DEF A, B, SplitsAt

\* The e-th piece of EventLen bytes is the e-th event.
LEMMA EventOfFlat ==
  ASSUME NEW a \in Nat, NEW n \in Nat, NEW e \in 1 .. n
  PROVE  SubSeq(Flat(a, a + n), (e - 1) * EventLen + 1, e * EventLen) = EventBytes(a + e)
<1> DEFINE F == Flat(a, a + n)
           p == (e - 1) * EventLen
           q == e * EventLen
           m == n * EventLen
           b == a * EventLen
           c == (a + e - 1) * EventLen
<1>1. EventLen \in Nat /\ EventLen > 0
  BY DynOutAssumption
<1>2. /\ p \in Nat /\ q \in Nat /\ m \in Nat /\ b \in Nat
      /\ q = p + EventLen /\ q <= m /\ c = b + p
  <2>1. e \in Nat /\ e - 1 \in Nat /\ n - e \in Nat
    OBVIOUS
  <2>2. p \in Nat /\ q \in Nat /\ m \in Nat /\ b \in Nat /\ (n - e) * EventLen \in Nat
    BY <2>1, Times
  <2>3. q = p + EventLen /\ c = b + p /\ m = q + (n - e) * EventLen
    BY <1>1
  <2> QED BY <2>2, <2>3
<1>3. F \in Seq(Nat) /\ Len(F) = m /\ \A k \in 1 .. m : F[k] = b + k
  <2>1. a + n \in Nat /\ a <= a + n /\ (a + n) - a = n
    OBVIOUS
  <2> QED BY <2>1, FlatType
<1>4. EventBytes(a + e) = [k \in 1 .. EventLen |-> c + k]
  BY DEF EventBytes
<1> HIDE DEF F, p, q, m, b, c
<1> DEFINE P == SubSeq(F, p + 1, q)
           E == [k \in 1 .. EventLen |-> c + k]
<1>5. \A i \in p + 1 .. q : F[i] \in Nat
  BY <1>2, <1>3
<1>6. /\ P \in Seq(Nat) /\ Len(P) = EventLen
      /\ \A i \in 1 .. EventLen : P[i] = F[p + i]
  <2>1. /\ P \in Seq(Nat)
        /\ Len(P) = IF p + 1 <= q THEN q - (p + 1) + 1 ELSE 0
        /\ \A i \in 1 .. q - (p + 1) + 1 : P[i] = F[(p + 1) + i - 1]
    BY <1>2, <1>5, SubSeqProperties
  <2>2. p + 1 <= q /\ q - (p + 1) + 1 = EventLen /\ \A i \in Int : (p + 1) + i - 1 = p + i
    BY <1>1, <1>2
  <2> HIDE DEF P
  <2>3. ASSUME NEW i \in 1 .. EventLen PROVE P[i] = F[p + i]
    <3>1. P[i] = F[(p + 1) + i - 1]
      BY <2>1, <2>2
    <3> QED BY <2>2, <3>1
  <2> QED BY <2>1, <2>2, <2>3
<1> HIDE DEF P
<1>7. /\ E \in Seq(Nat) /\ Len(E) = EventLen /\ \A k \in 1 .. EventLen : E[k] = c + k
  <2>1. \A k \in 1 .. EventLen : c + k \in Nat
    BY <1>2
  <2>2. E \in Seq(Nat) /\ DOMAIN E = 1 .. EventLen
    BY <1>1, <2>1, IsASeq
  <2> QED BY <1>1, <2>2, LenProperties
<1> HIDE DEF E
<1>8. ASSUME NEW i \in 1 .. EventLen PROVE P[i] = E[i]
  <2>1. p + i \in 1 .. m
    BY <1>1, <1>2
  <2>2. F[p + i] = b + (p + i)
    BY <1>3, <2>1
  <2>3. b + (p + i) = c + i
    BY <1>1, <1>2
  <2> QED BY <1>6, <1>7, <2>2, <2>3
<1>9. P = E
  BY <1>6, <1>7, <1>8, SeqEqual
<1> QED BY <1>4, <1>9 DEF P, E, F, p, q

-----------------------------------------------------------------------------
(* Types of the OUT side.                                                  *)

OutShape ==
  /\ rring \in [0 .. RxRing - 1 -> Nat] /\ rhead \in 0 .. RxRing - 1 /\ rtail \in 0 .. RxRing - 1
  /\ mring \in [0 .. MidiRing - 1 -> Seq(Nat)]
  /\ mhead \in 0 .. MidiRing - 1 /\ mtail \in 0 .. MidiRing - 1
  /\ obuf \in Seq(Nat) /\ Len(obuf) <= OutBuf
  /\ got \in Seq(Nat) /\ Len(got) <= RecvMax
  /\ readout \in Seq(Seq(Nat)) /\ events \in 0 .. MaxEvents
  /\ apc \in {"idle", "loop", "recv", "ret"}
  /\ oen \in BOOLEAN /\ onak \in BOOLEAN /\ otrn \in BOOLEAN /\ lost \in BOOLEAN

LEMMA OutNext ==
  ASSUME [Next]_vars
  PROVE  \/ OutReset \/ OutConfigured \/ ServiceOut \/ Reading
         \/ \E n \in 1 .. OutBuf \div EventLen : HostPacket(n)
         \/ UNCHANGED outVars
<1>1. CASE BusReset \/ SetConfiguration \/ ClearConfiguration
  BY <1>1 DEF BusReset, SetConfiguration, ClearConfiguration
<1>2. CASE Call \/ Send \/ HostIn
  BY <1>2 DEF Call, Send, HostIn
<1>3. CASE Read \/ HostOut \/ Service
  BY <1>3 DEF Read, HostOut, Service
<1>4. CASE EnterTrncompl \/ Skip \/ Ack \/ UNCHANGED vars
  BY <1>4 DEF EnterTrncompl, Skip, Ack, vars
<1> QED BY <1>1, <1>2, <1>3, <1>4 DEF Next, Handler

\* What the interrupt copies: what fits, all of it when nothing is lost.
LEMMA Copied ==
  ASSUME OutShape, ServiceOut
  PROVE  \E q \in Seq(Nat) :
           /\ Distance(rtail, rhead, RxRing) + Len(q) < RxRing /\ Len(q) \in 0 .. RxRing
           /\ rring' = PutAll(rring, rhead, RxRing, q) /\ rhead' = (rhead + Len(q)) % RxRing
           /\ (~lost' => ~lost /\ q = obuf)
           /\ rhead' \in 0 .. RxRing - 1
<1> DEFINE d == Distance(rtail, rhead, RxRing)
           n == IF Len(obuf) > Free THEN Free ELSE Len(obuf)
           q == SubSeq(obuf, 1, n)
<1>0. RxRing \in Nat \ {0}
  BY DynOutAssumption
<1>1. d \in 0 .. RxRing - 1
  BY <1>0, DistanceIs DEF OutShape
<1>2. Len(obuf) \in Nat /\ Free = RxRing - 1 - d
  BY LenProperties DEF OutShape, Free, Used
<1>3. /\ rring' = PutAll(rring, rhead, RxRing, q) /\ rhead' = (rhead + n) % RxRing
      /\ lost' = (lost \/ n < Len(obuf))
  BY DEF ServiceOut
<1> HIDE DEF d
<1>4. n \in 0 .. RxRing - 1 /\ n <= Len(obuf) /\ d + n < RxRing /\ n \in Int
  BY <1>0, <1>1, <1>2
<1> HIDE DEF n
<1>5. \A i \in 1 .. n : obuf[i] \in Nat
  <2>1. \A i \in 1 .. Len(obuf) : obuf[i] \in Nat
    BY ElementOfSeq DEF OutShape
  <2> QED BY <1>2, <1>4, <2>1
<1>6. q \in Seq(Nat) /\ Len(q) = n
  <2>1. q \in Seq(Nat) /\ Len(q) = IF 1 <= n THEN n - 1 + 1 ELSE 0
    BY <1>4, <1>5, SubSeqProperties
  <2> HIDE DEF q
  <2> QED BY <1>4, <2>1
<1>7. n = Len(obuf) => q = obuf
  BY SubSeqFull DEF OutShape
<1> HIDE DEF q
<1>8. rhead' \in 0 .. RxRing - 1
  <2>1. n \in 0 .. RxRing
    BY <1>0, <1>4
  <2>2. (rhead + n) % RxRing \in 0 .. RxRing - 1
    BY <1>0, <2>1, SlotIs DEF OutShape
  <2> QED BY <1>3, <2>2
<1>9. ~lost' => ~lost /\ q = obuf
  <2>1. ~lost' => ~lost /\ ~(n < Len(obuf))
    BY <1>3, Zenon
  <2>2. ~(n < Len(obuf)) => n = Len(obuf)
    BY <1>2, <1>4
  <2> QED BY <1>7, <2>1, <2>2, Zenon
<1>10. d + Len(q) < RxRing /\ Len(q) \in 0 .. RxRing
  BY <1>0, <1>4, <1>6
<1> QED BY <1>3, <1>6, <1>8, <1>9, <1>10 DEF d

LEMMA KeptRange ==
  ASSUME OutShape
  PROVE  /\ Kept \in Nat /\ Kept * EventLen <= Len(got)
         /\ Distance(mtail, mhead, MidiRing) + Kept < MidiRing
         /\ Kept \in 0 .. MidiRing
         /\ Len(got) < EventLen => Kept = 0
         /\ Len(got) >= EventLen /\ NextMidi(mhead) # mtail => Kept > 0
<1> DEFINE d == Distance(mtail, mhead, MidiRing)
           g == NextMidi(mhead)
           m == Len(got) \div EventLen
<1>1. MidiRing \in Nat \ {0} /\ EventLen \in Nat /\ EventLen > 0 /\ Len(got) \in Nat
  BY DynOutAssumption, LenProperties DEF OutShape
<1>2. /\ m \in Nat /\ m * EventLen <= Len(got)
      /\ Len(got) < EventLen => m = 0
      /\ Len(got) >= EventLen => m > 0
  BY <1>1
<1>3. d \in 0 .. MidiRing - 1 /\ d = IF mhead >= mtail THEN mhead - mtail ELSE mhead - mtail + MidiRing
  BY <1>1, DistanceIs DEF OutShape
<1>4. g \in 0 .. MidiRing - 1 /\ g = IF mhead + 1 < MidiRing THEN mhead + 1 ELSE mhead + 1 - MidiRing
  <2>1. 1 \in 0 .. MidiRing
    BY <1>1
  <2> QED BY <1>1, <2>1, SlotIs DEF OutShape, NextMidi
<1>d. \A a, b \in 0 .. MidiRing - 1 : Distance(a, b, MidiRing) = IF b >= a THEN b - a ELSE b - a + MidiRing
  BY <1>1, DistanceIs
<1> HIDE DEF d, g
<1>5. Distance(g, mtail, MidiRing) = IF mtail >= g THEN mtail - g ELSE mtail - g + MidiRing
  BY <1>4, <1>d DEF OutShape
<1>6. MidiRoom = MidiRing - 1 - d /\ (g # mtail => MidiRoom > 0)
  <2>1. MidiRoom = Distance(g, mtail, MidiRing)
    BY DEF MidiRoom, g
  <2>2. mtail \in 0 .. MidiRing - 1 /\ mhead \in 0 .. MidiRing - 1
    BY DEF OutShape
  <2> QED BY <1>1, <1>3, <1>4, <1>5, <2>1, <2>2
<1>7. Kept = IF m > MidiRoom THEN MidiRoom ELSE m
  BY DEF Kept
<1> HIDE DEF m
<1>8. Kept \in Nat /\ Kept <= m /\ d + Kept < MidiRing /\ Kept \in 0 .. MidiRing
  BY <1>1, <1>2, <1>3, <1>6, <1>7
<1>9. Kept * EventLen <= Len(got)
  <2>1. Kept * EventLen <= m * EventLen
    BY <1>1, <1>2, <1>8
  <2>2. Kept * EventLen \in Nat /\ m * EventLen \in Nat
    BY <1>2, <1>8, Times
  <2> QED BY <1>1, <1>2, <2>1, <2>2
<1>10. Len(got) < EventLen => Kept = 0
  BY <1>2, <1>7, <1>8
<1>11. Len(got) >= EventLen /\ g # mtail => Kept > 0
  BY <1>2, <1>6, <1>7
<1> QED BY <1>8, <1>9, <1>10, <1>11 DEF d, g

LEMMA KeptEventsType ==
  ASSUME OutShape
  PROVE  KeptEvents \in Seq(Seq(Nat)) /\ Len(KeptEvents) = Kept
<1>1. Kept \in Nat /\ Kept * EventLen <= Len(got) /\ EventLen \in Nat
  BY KeptRange, DynOutAssumption
<1>2. ASSUME NEW e \in 1 .. Kept
      PROVE  SubSeq(got, (e - 1) * EventLen + 1, e * EventLen) \in Seq(Nat)
  <2> DEFINE a == (e - 1) * EventLen
             b == e * EventLen
             c == Kept * EventLen
  <2>1. a \in Nat /\ b \in Nat /\ c \in Nat /\ b <= c
    <3>1. e - 1 \in Nat /\ e \in Nat /\ Kept - e \in Nat
      BY <1>1
    <3>2. (Kept - e) * EventLen \in Nat
      BY <3>1, Times
    <3>3. c = b + (Kept - e) * EventLen
      BY <1>1, <3>1
    <3>4. a \in Nat /\ b \in Nat /\ c \in Nat
      BY <1>1, <3>1, Times
    <3> QED BY <3>2, <3>3, <3>4
  <2>2. c <= Len(got) /\ Len(got) \in Nat
    BY <1>1, LenProperties DEF OutShape
  <2>3. \A i \in 1 .. Len(got) : got[i] \in Nat
    BY ElementOfSeq DEF OutShape
  <2> HIDE DEF a, b, c
  <2>4. \A i \in a + 1 .. b : got[i] \in Nat
    BY <2>1, <2>2, <2>3
  <2>5. SubSeq(got, a + 1, b) \in Seq(Nat)
    BY <2>1, <2>4, SubSeqProperties
  <2> QED BY <2>5 DEF a, b
<1>3. KeptEvents \in Seq(Seq(Nat)) /\ DOMAIN KeptEvents = 1 .. Kept
  <2> DEFINE piece(e) == SubSeq(got, (e - 1) * EventLen + 1, e * EventLen)
  <2>1. \A e \in 1 .. Kept : piece(e) \in Seq(Nat)
    BY <1>2
  <2>2. KeptEvents = [e \in 1 .. Kept |-> piece(e)]
    BY DEF KeptEvents
  <2> HIDE DEF piece
  <2>3. [e \in 1 .. Kept |-> piece(e)] \in Seq(Seq(Nat))
    BY <1>1, <2>1, IsASeq
  <2> QED BY <2>2, <2>3
<1> QED BY <1>1, <1>3, LenProperties

\* read() and accept() keep every index and buffer in range.
LEMMA OutShapeStep == OutShape /\ [Next]_vars => OutShape'
<1> SUFFICES ASSUME OutShape, [Next]_vars PROVE OutShape'
  OBVIOUS
<1>0. RxRing \in Nat \ {0} /\ MidiRing \in Nat \ {0} /\ 1 \in 0 .. RxRing /\ 1 \in 0 .. MidiRing
      /\ <<>> \in Seq(Nat) /\ Len(<<>>) <= RecvMax
  BY DynOutAssumption, EmptySeq
<1>1. CASE OutReset \/ OutConfigured \/ UNCHANGED outVars
  <2>1. /\ UNCHANGED <<obuf, rring, rhead, rtail, apc, got, mring, mhead, mtail, events, readout>>
        /\ oen' \in BOOLEAN /\ onak' \in BOOLEAN /\ otrn' \in BOOLEAN /\ lost' \in BOOLEAN
    BY <1>1 DEF OutReset, OutConfigured, outVars, outEp, rxRing, midiRing, OutShape
  <2> QED BY <2>1 DEF OutShape
<1>2. CASE ServiceOut
  <2>1. PICK q \in Seq(Nat) : /\ rring' = PutAll(rring, rhead, RxRing, q)
                              /\ rhead' \in 0 .. RxRing - 1
    BY <1>2, Copied
  <2>2. rring' \in [0 .. RxRing - 1 -> Nat]
    BY <1>0, <2>1, PutAllType DEF OutShape
  <2>3. otrn' = FALSE /\ onak' = FALSE /\ lost' \in BOOLEAN
        /\ UNCHANGED <<oen, obuf, rtail, apc, got, mring, mhead, mtail, events, readout>>
    BY <1>2 DEF ServiceOut, midiRing, OutShape
  <2> QED BY <2>1, <2>2, <2>3 DEF OutShape
<1>3. CASE \E n \in 1 .. OutBuf \div EventLen : HostPacket(n)
  <2>1. PICK n \in 1 .. OutBuf \div EventLen : HostPacket(n)
    BY <1>3
  <2>2. n \in Nat /\ events \in Nat /\ events' = events + n /\ events' <= MaxEvents
        /\ n * EventLen <= OutBuf /\ MaxEvents \in Nat /\ obuf' = Flat(events, events')
        /\ onak' = TRUE /\ otrn' = TRUE
        /\ UNCHANGED <<oen, rring, rhead, rtail, apc, got, mring, mhead, mtail, readout, lost>>
    <3>1. OutBuf \in Nat /\ EventLen \in Nat /\ EventLen > 0 /\ MaxEvents \in Nat
      BY DynOutAssumption
    <3>2. n \in Nat
      BY <3>1
    <3> QED BY <2>1, <3>1, <3>2 DEF HostPacket, OutShape, rxRing, midiRing
  <2>3. events' - events = n /\ events' \in Nat /\ events <= events' /\ events' \in 0 .. MaxEvents
    BY <2>2
  <2>4. obuf' \in Seq(Nat) /\ Len(obuf') = n * EventLen
    BY <2>2, <2>3, FlatType
  <2> QED BY <2>2, <2>3, <2>4 DEF OutShape
<1>4. CASE ReadKept \/ ReadAccepted
  <2>1. \A i \in 0 .. MidiRing - 1 : NextMidi(i) \in 0 .. MidiRing - 1
    BY <1>0, SlotIs DEF NextMidi
  <2>2. mtail' \in 0 .. MidiRing - 1 /\ readout' = Append(readout, mring[mtail])
        /\ (got' = got \/ got' = <<>>) /\ apc' \in {"idle", "loop", "recv", "ret"}
        /\ UNCHANGED <<oen, obuf, onak, otrn, rring, rhead, rtail, mring, mhead, events, lost>>
    BY <1>4, <2>1 DEF ReadKept, ReadAccepted, OutShape, outEp, rxRing
  <2>3. mring[mtail] \in Seq(Nat)
    BY DEF OutShape
  <2>4. readout' \in Seq(Seq(Nat))
    BY <2>2, <2>3, AppendProperties DEF OutShape
  <2> QED BY <1>0, <2>2, <2>4 DEF OutShape
<1>5. CASE ReadAccept \/ AcceptLoop
  <2>1. /\ (got' = got \/ got' = <<>>) /\ apc' \in {"idle", "loop", "recv", "ret"}
        /\ UNCHANGED <<oen, obuf, onak, otrn, rring, rhead, rtail, mring, mhead, mtail, events, readout, lost>>
    BY <1>5 DEF ReadAccept, AcceptLoop, outEp, rxRing, midiRing
  <2> QED BY <1>0, <2>1 DEF OutShape
<1>6. CASE RecvByte
  <2>1. rtail' \in 0 .. RxRing - 1
    BY <1>0, <1>6, SlotIs DEF RecvByte, OutShape
  <2>2. rring[rtail] \in Nat
    BY DEF OutShape
  <2>3. got' \in Seq(Nat) /\ Len(got') = Len(got) + 1 /\ Len(got) < RecvMax /\ Len(got) \in Nat
    BY <1>6, <2>2, AppendProperties, LenProperties DEF RecvByte, OutShape
  <2>4. Len(got') <= RecvMax
    BY <2>3, DynOutAssumption
  <2> QED BY <1>6, <2>1, <2>3, <2>4 DEF RecvByte, OutShape, outEp, midiRing
<1>7. CASE StoreEvents
  <2>1. PutAll(mring, mhead, MidiRing, KeptEvents) \in [0 .. MidiRing - 1 -> Seq(Nat)]
    BY <1>0, KeptEventsType, PutAllType DEF OutShape
  <2>2. (mhead + Kept) % MidiRing \in 0 .. MidiRing - 1
    BY <1>0, KeptRange, SlotIs DEF OutShape
  <2>3. mring' \in [0 .. MidiRing - 1 -> Seq(Nat)] /\ mhead' \in 0 .. MidiRing - 1 /\ mtail' = mtail
        /\ apc' \in {"idle", "loop", "recv", "ret"}
    BY <1>7, <2>1, <2>2 DEF StoreEvents, OutShape, midiRing
  <2>4. lost' \in BOOLEAN /\ UNCHANGED <<oen, obuf, onak, otrn, rring, rhead, rtail, got, events, readout>>
    BY <1>7 DEF StoreEvents, OutShape, outEp, rxRing
  <2> QED BY <2>3, <2>4 DEF OutShape
<1> QED BY <1>1, <1>2, <1>3, <1>4, <1>5, <1>6, <1>7, OutNext DEF Reading

LEMMA OutShapeStarts == Init => OutShape
<1>1. /\ RxRing \in Nat \ {0} /\ MidiRing \in Nat \ {0} /\ OutBuf \in Nat /\ RecvMax \in Nat /\ MaxEvents \in Nat
      /\ <<>> \in Seq(Nat) /\ <<>> \in Seq(Seq(Nat)) /\ Len(<<>>) = 0
  BY DynOutAssumption, EmptySeq
<1> QED BY <1>1 DEF Init, OutInit, OutShape, NoEvent

\* The flags and the counters of the bounds.
FlagsInv ==
  /\ en \in BOOLEAN /\ nak \in BOOLEAN /\ trn \in BOOLEAN /\ release \in BOOLEAN
  /\ broken \in BOOLEAN /\ torn \in BOOLEAN
  /\ calls \in 0 .. MaxCalls /\ hid \in BOOLEAN /\ busEvents \in 0 .. MaxBusEvents
  /\ irq \in BOOLEAN /\ isr \in {"off", "check", "ack"}

LEMMA FlagsStep == FlagsInv /\ [Next]_vars => FlagsInv'
<1> SUFFICES ASSUME FlagsInv, [Next]_vars PROVE FlagsInv'
  OBVIOUS
<1>1. hid' \in BOOLEAN /\ busEvents' \in 0 .. MaxBusEvents /\ irq' \in BOOLEAN
      /\ isr' \in {"off", "check", "ack"}
  <2>1. CASE BusReset \/ SetConfiguration \/ ClearConfiguration
    <3>1. /\ hid' = hid /\ irq' = irq /\ busEvents' = busEvents + 1 /\ busEvents < MaxBusEvents
          /\ isr' \in {isr, "check", "off"}
      BY <2>1 DEF BusReset, SetConfiguration, ClearConfiguration, SetupPart
    <3> QED BY <3>1, PluggableAssumption DEF FlagsInv
  <2>2. CASE Call \/ Send \/ Read \/ UNCHANGED vars
    <3>1. UNCHANGED <<irq, isr, hid, busEvents>>
      BY <2>2 DEF Call, Send, Read, Main, vars
    <3> QED BY <3>1 DEF FlagsInv
  <2>3. CASE HostIn \/ HostOut
    <3>1. irq' = TRUE /\ UNCHANGED <<isr, hid, busEvents>>
      BY <2>3 DEF HostIn, HostOut
    <3> QED BY <3>1 DEF FlagsInv
  <2>4. CASE Handler
    <3>1. /\ irq' \in {irq, FALSE} /\ isr' \in {"off", "check", "ack"}
          /\ UNCHANGED <<hid, busEvents>>
      BY <2>4 DEF Handler, EnterTrncompl, Service, Skip, Ack, Handle
    <3> QED BY <3>1 DEF FlagsInv
  <2> QED BY <2>1, <2>2, <2>3, <2>4 DEF Next
<1>2. CASE InReset \/ InConfigured \/ InDeconfigured \/ Collect
  <2>1. calls' = calls /\ release' = release /\ en' \in BOOLEAN /\ nak' \in BOOLEAN /\ trn' \in BOOLEAN
        /\ broken' \in BOOLEAN /\ torn' \in BOOLEAN
    BY <1>2 DEF InReset, InConfigured, InDeconfigured, Collect, callVars, FlagsInv
  <2> QED BY <1>1, <2>1 DEF FlagsInv
<1>3. ASSUME NEW o \in {reg, pos}, Using(o) PROVE FlagsInv'
  <2>1. UNCHANGED <<calls, broken, torn, en, nak, trn, release>>
    BY <1>3 DEF Using, TakeRoom, AppendFull, Copy, Advance, Count, epVars, history
  <2> QED BY <1>1, <2>1 DEF FlagsInv
<1>4. CASE AppendDone
  <2>1. UNCHANGED <<calls, broken, torn, en, nak, trn>> /\ release' \in BOOLEAN
    BY <1>4 DEF AppendDone, epVars, history, FlagsInv
  <2> QED BY <1>1, <2>1 DEF FlagsInv
<1>5. CASE WaitIdle \/ IdleTimeout \/ Arm \/ WaitDone \/ DoneTimeout \/ Released
  <2>1. calls' = calls /\ en' = en /\ broken' \in BOOLEAN /\ nak' \in BOOLEAN /\ trn' \in BOOLEAN
        /\ release' \in BOOLEAN /\ torn' \in BOOLEAN
    BY <1>5 DEF WaitIdle, IdleTimeout, Arm, WaitDone, DoneTimeout, Released, GiveUp, epVars, history,
           FlagsInv
  <2> QED BY <1>1, <2>1 DEF FlagsInv
<1>6. CASE WriteEvent(EventLen) \/ \E n \in Lens : SendReport(n)
  <2>1. /\ calls < MaxCalls /\ calls' = calls + 1 /\ release' = FALSE
        /\ UNCHANGED <<en, nak, trn, broken, torn>>
    BY <1>6 DEF WriteEvent, SendReport, Enter, epVars, history
  <2>2. calls' \in 0 .. MaxCalls
    BY <2>1, DynInAssumption DEF FlagsInv
  <2>3. release' \in BOOLEAN
    BY <2>1
  <2> QED BY <1>1, <2>1, <2>2, <2>3 DEF FlagsInv
<1>7. CASE Flush
  <2>1. release' = TRUE /\ UNCHANGED <<en, nak, trn, broken, torn, calls>>
    BY <1>7 DEF Flush, Enter, epVars, history
  <2> QED BY <1>1, <2>1 DEF FlagsInv
<1>8. CASE UNCHANGED inVars
  BY <1>1, <1>8 DEF inVars, epVars, callVars, history, FlagsInv
<1> QED BY <1>2, <1>3, <1>4, <1>5, <1>6, <1>7, <1>8, InNext

\* Every variable of the two endpoints and of their callers keeps its range.
THEOREM TypeCorrect == Spec => []TypeOK
<1>1. Init => OutShape /\ FlagsInv
  <2>1. 0 \in 0 .. MaxCalls /\ 0 \in 0 .. MaxBusEvents
    BY DynInAssumption, PluggableAssumption
  <2> QED BY <2>1, OutShapeStarts DEF Init, InInit, FlagsInv
<1>2. OutShape /\ FlagsInv /\ [Next]_vars => (OutShape /\ FlagsInv)'
  BY OutShapeStep, FlagsStep
<1>3. InShape /\ OrderInv /\ OutShape /\ FlagsInv => TypeOK
  <2> SUFFICES ASSUME InShape, OrderInv, OutShape, FlagsInv PROVE TypeOK
    OBVIOUS
  <2>1. InTypes
    BY DEF InTypes, InShape, OrderInv, FlagsInv
  <2>2. OutTypes
    BY DEF OutTypes, OutShape
  <2> QED BY <2>1, <2>2 DEF TypeOK, FlagsInv
<1> QED BY <1>1, <1>2, <1>3, OrderCorrect, PTL DEF Spec

-----------------------------------------------------------------------------
(* No event missing.                                                       *)

\* What read() and accept() may rely on: there is something to take and room
\* for it, whatever has been lost; and, until something is, a read that went
\* to the endpoint finds an event.
ReaderInv ==
  /\ otrn => onak
  /\ apc = "loop" => mhead # mtail \/ rhead # rtail
  /\ apc = "recv" => NextMidi(mhead) # mtail
  /\ apc = "recv" /\ got = <<>> => rhead # rtail
  /\ ~lost /\ apc = "ret" => mhead # mtail

\* No more events are read or kept than were sent.
SentInv == ~lost => Len(readout) + Len(InMidiRing) <= events

LEMMA EmptyGot == ASSUME OutShape PROVE got = <<>> <=> Len(got) = 0
BY EmptySeq DEF OutShape

LEMMA ReaderStep == OutShape /\ ReaderInv /\ [Next]_vars => ReaderInv'
<1> SUFFICES ASSUME OutShape, ReaderInv, [Next]_vars PROVE ReaderInv'
  OBVIOUS
<1>0. RxRing \in Nat \ {0} /\ MidiRing \in Nat \ {0} /\ MidiRing > 1
  BY DynOutAssumption
<1>1. CASE OutReset \/ OutConfigured
  <2>1. ~otrn' /\ UNCHANGED <<rhead, rtail, apc, got, mhead, mtail>> /\ (~lost' => ~lost)
    BY <1>1 DEF OutReset, OutConfigured, rxRing, midiRing
  <2> QED BY <2>1 DEF ReaderInv, NextMidi
<1>2. CASE UNCHANGED outVars
  BY <1>2 DEF outVars, outEp, rxRing, midiRing, ReaderInv, NextMidi
<1>3. CASE \E n \in 1 .. OutBuf \div EventLen : HostPacket(n)
  BY <1>3 DEF HostPacket, rxRing, midiRing, ReaderInv, NextMidi
<1>4. CASE ServiceOut
  <2>1. PICK q \in Seq(Nat) :
          /\ Distance(rtail, rhead, RxRing) + Len(q) < RxRing /\ Len(q) \in 0 .. RxRing
          /\ rhead' = (rhead + Len(q)) % RxRing /\ rhead' \in 0 .. RxRing - 1
    BY <1>4, Copied
  <2>2. ~otrn' /\ UNCHANGED <<rtail, apc, got, mhead, mtail>> /\ (~lost' => ~lost)
    BY <1>4 DEF ServiceOut, midiRing
  <2>3. Distance(rtail, rhead', RxRing) = Distance(rtail, rhead, RxRing) + Len(q)
    BY <1>0, <2>1, DistanceAfterPut DEF OutShape
  <2>4. rhead # rtail => rhead' # rtail
    <3>0. \A a, b \in 0 .. RxRing - 1 : /\ Distance(a, b, RxRing) \in 0 .. RxRing - 1
                                        /\ Distance(a, b, RxRing) = 0 <=> a = b
      BY <1>0, DistanceIs
    <3>1. /\ Distance(rtail, rhead, RxRing) \in 0 .. RxRing - 1
          /\ Distance(rtail, rhead, RxRing) = 0 <=> rtail = rhead
      <4>1. rtail \in 0 .. RxRing - 1 /\ rhead \in 0 .. RxRing - 1
        BY DEF OutShape
      <4> QED BY <3>0, <4>1
    <3>2. Distance(rtail, rhead', RxRing) = 0 <=> rtail = rhead'
      <4>1. \A a, b \in 0 .. RxRing - 1 : Distance(a, b, RxRing) = 0 <=> a = b
        BY <3>0
      <4> QED BY <2>1, <4>1 DEF OutShape
    <3> QED BY <2>1, <2>3, <3>1, <3>2
  <2> QED BY <2>2, <2>4 DEF ReaderInv, NextMidi
<1>5. CASE ReadKept \/ ReadAccepted
  <2>1. apc' = "idle" /\ UNCHANGED <<otrn, onak>>
    BY <1>5 DEF ReadKept, ReadAccepted, outEp
  <2> QED BY <2>1 DEF ReaderInv
<1>6. CASE ReadAccept
  BY <1>6 DEF ReadAccept, outEp, rxRing, midiRing, ReaderInv
<1>7. CASE AcceptLoop
  <2>1. mhead \in 0 .. MidiRing - 1 /\ (NextMidi(mhead) = mtail => mhead # mtail)
    <3>1. mhead \in 0 .. MidiRing - 1 /\ 1 \in 0 .. MidiRing
      BY <1>0 DEF OutShape
    <3>2. NextMidi(mhead) = IF mhead + 1 < MidiRing THEN mhead + 1 ELSE mhead + 1 - MidiRing
      BY <1>0, <3>1, SlotIs DEF NextMidi
    <3> QED BY <1>0, <3>1, <3>2
  <2>2. apc = "loop" /\ UNCHANGED <<otrn, onak, rhead, rtail, mhead, mtail>>
        /\ \/ apc' = "recv" /\ NextMidi(mhead) # mtail /\ rhead # rtail
           \/ apc' = "ret" /\ (NextMidi(mhead) = mtail \/ rhead = rtail)
    BY <1>7 DEF AcceptLoop, outEp, rxRing, midiRing
  <2> QED BY <2>1, <2>2 DEF ReaderInv, NextMidi
<1>8. CASE RecvByte
  <2>1. apc = "recv" /\ apc' = "recv" /\ got' = Append(got, rring[rtail]) /\ UNCHANGED <<otrn, onak, mhead, mtail>>
    BY <1>8 DEF RecvByte, outEp, midiRing
  <2>2. got' # <<>>
    <3>1. rring[rtail] \in Nat
      BY DEF OutShape
    <3>2. Len(got') = Len(got) + 1 /\ Len(got) \in Nat
      BY <2>1, <3>1, AppendProperties, LenProperties DEF OutShape
    <3>3. Len(<<>>) = 0
      OBVIOUS
    <3> QED BY <3>2, <3>3
  <2> QED BY <2>1, <2>2 DEF ReaderInv, NextMidi
<1>9. CASE StoreEvents
  <2>1. /\ apc = "recv" /\ UNCHANGED <<otrn, onak, rhead, rtail, mtail>>
        /\ Len(got) = RecvMax \/ rhead = rtail
    BY <1>9 DEF StoreEvents, outEp, rxRing, midiRing
  <2>2. CASE Len(got) < EventLen
    <3>1. apc' = "ret" /\ Kept = 0 /\ (~lost' => Len(got) = Kept * EventLen)
      BY <1>9, <2>2, KeptRange DEF StoreEvents
    <3>2. lost'
      <4>1. EventLen \in Nat /\ RecvMax \in Nat /\ RecvMax > 0
        BY DynOutAssumption
      <4>2. ~lost' => Len(got) = 0
        BY <3>1, <4>1
      <4>3. Len(got) # 0
        BY <2>1, <4>1, EmptyGot DEF ReaderInv
      <4> QED BY <4>2, <4>3
    <3> QED BY <2>1, <3>1, <3>2 DEF ReaderInv
  <2>3. CASE ~(Len(got) < EventLen)
    <3>1. apc' = "loop" /\ mhead' = (mhead + Kept) % MidiRing
      BY <1>9, <2>3 DEF StoreEvents
    <3>2. Kept > 0 /\ Kept \in 0 .. MidiRing /\ Distance(mtail, mhead, MidiRing) + Kept < MidiRing
      <4>1. Len(got) \in Nat /\ EventLen \in Nat
        BY LenProperties, DynOutAssumption DEF OutShape
      <4>2. Len(got) >= EventLen /\ NextMidi(mhead) # mtail
        BY <2>1, <2>3, <4>1 DEF ReaderInv
      <4> QED BY <4>2, KeptRange
    <3>3. /\ Distance(mtail, mhead', MidiRing) = Distance(mtail, mhead, MidiRing) + Kept
          /\ mhead' \in 0 .. MidiRing - 1
      BY <1>0, <3>1, <3>2, DistanceAfterPut DEF OutShape
    <3>4. mhead' # mtail
      <4>1. Distance(mtail, mhead, MidiRing) \in 0 .. MidiRing - 1
        BY <1>0, DistanceIs DEF OutShape
      <4>2. Distance(mtail, mhead', MidiRing) = 0 <=> mtail = mhead'
        BY <1>0, <3>3, DistanceIs DEF OutShape
      <4> QED BY <3>2, <3>3, <4>1, <4>2
    <3> QED BY <2>1, <3>1, <3>4 DEF ReaderInv
  <2> QED BY <2>2, <2>3
<1> QED BY <1>1, <1>2, <1>3, <1>4, <1>5, <1>6, <1>7, <1>8, <1>9, OutNext DEF Reading

LEMMA ConcatTriple ==
  ASSUME NEW x \in Seq(Nat), NEW y \in Seq(Nat), NEW z \in Seq(Nat)
  PROVE  (x \o y) \o z = x \o (y \o z)
BY ConcatAssociative, SMTT(30)

LEMMA ConcatType == ASSUME NEW x \in Seq(Nat), NEW y \in Seq(Nat) PROVE x \o y \in Seq(Nat)
BY ConcatProperties

LEMMA ConcatEmpty ==
  ASSUME NEW x \in Seq(Nat)
  PROVE  x \o <<>> = x /\ <<>> \o x = x /\ <<>> \in Seq(Nat)
BY ConcatEmptySeq, EmptySeq

\* What is on its way, piece by piece.
LEMMA Pieces ==
  ASSUME OutShape
  PROVE  /\ InRecv \in Seq(Nat) /\ InRxRing \in Seq(Nat) /\ InPacket \in Seq(Nat)
         /\ InMidiRing \in Seq(Seq(Nat)) /\ Len(InMidiRing) = Distance(mtail, mhead, MidiRing)
         /\ Len(InMidiRing) \in Nat /\ Len(readout) \in Nat /\ events \in Nat
<1>1. RxRing \in Nat \ {0} /\ MidiRing \in Nat \ {0} /\ MaxEvents \in Nat
  BY DynOutAssumption
<1>2. RingedIs(rring, rtail, rhead, RxRing, Nat)
  BY <1>1, RingedProperties DEF OutShape
<1>3. RingedIs(mring, mtail, mhead, MidiRing, Seq(Nat))
  BY <1>1, RingedProperties DEF OutShape
<1>4. InRxRing \in Seq(Nat)
  BY <1>2 DEF RingedIs, InRxRing
<1>5. InMidiRing \in Seq(Seq(Nat)) /\ Len(InMidiRing) = Distance(mtail, mhead, MidiRing)
  BY <1>3 DEF RingedIs, InMidiRing
<1>6. InRecv \in Seq(Nat) /\ InPacket \in Seq(Nat)
  BY EmptySeq DEF InRecv, InPacket, OutShape
<1>7. Len(InMidiRing) \in Nat /\ Len(readout) \in Nat /\ events \in Nat
  BY <1>1, <1>5, LenProperties DEF OutShape
<1> QED BY <1>4, <1>5, <1>6, <1>7

\* The stream from a given event on is held by the packet, the ring and the
\* bytes received so far.
Rest(a) == InRecv \o InRxRing \o InPacket = Flat(a, events)

LEMMA HostPacketJoins ==
  ASSUME OutShape, ReaderInv, NEW n \in 1 .. OutBuf \div EventLen, HostPacket(n),
         NEW a \in Nat, a <= events, Rest(a)
  PROVE  a <= events' /\ Rest(a)'
<1>1. n \in Nat /\ events \in Nat /\ events' = events + n
  <2>1. OutBuf \in Nat /\ EventLen \in Nat /\ EventLen > 0 /\ MaxEvents \in Nat
    BY DynOutAssumption
  <2> QED BY <2>1 DEF HostPacket, OutShape
<1>2. /\ InPacket = <<>> /\ InPacket' = Flat(events, events')
      /\ InRecv' = InRecv /\ InRxRing' = InRxRing
  BY DEF HostPacket, ReaderInv, InPacket, InRecv, InRxRing, rxRing
<1>3. a <= events' /\ events <= events' /\ events' \in Nat
  BY <1>1
<1>4. Flat(a, events) \o Flat(events, events') = Flat(a, events')
  BY <1>1, <1>3, FlatJoin
<1>5. InRecv \o InRxRing \in Seq(Nat)
  BY Pieces, ConcatType
<1>6. InRecv \o InRxRing = Flat(a, events)
  BY <1>2, <1>5, ConcatEmpty DEF Rest
<1> QED BY <1>2, <1>3, <1>4, <1>6 DEF Rest

LEMMA ServiceCopies ==
  ASSUME OutShape, ServiceOut, ~lost', NEW a \in Nat, Rest(a)
  PROVE  Rest(a)'
<1>0. RxRing \in Nat \ {0}
  BY DynOutAssumption
<1>1. PICK q \in Seq(Nat) :
        /\ Distance(rtail, rhead, RxRing) + Len(q) < RxRing
        /\ rring' = PutAll(rring, rhead, RxRing, q) /\ rhead' = (rhead + Len(q)) % RxRing
        /\ q = obuf
  BY Copied
<1>2. Ringed(PutAll(rring, rhead, RxRing, q), rtail, (rhead + Len(q)) % RxRing, RxRing)
        = Ringed(rring, rtail, rhead, RxRing) \o q
  <2>1. rring \in [0 .. RxRing - 1 -> Nat] /\ rhead \in 0 .. RxRing - 1 /\ rtail \in 0 .. RxRing - 1
    BY DEF OutShape
  <2>2. PutFollows(rring, rtail, rhead, RxRing, q)
    BY <1>0, <1>1, <2>1, RingPut, Zenon
  <2> QED BY <2>2 DEF PutFollows
<1>3. /\ InPacket = obuf /\ InPacket' = <<>> /\ rtail' = rtail /\ InRecv' = InRecv /\ events' = events
  BY DEF ServiceOut, InPacket, InRecv
<1>4. InRxRing' = InRxRing \o obuf
  BY <1>1, <1>2, <1>3 DEF InRxRing
<1>5. InRecv \in Seq(Nat) /\ InRxRing \in Seq(Nat) /\ obuf \in Seq(Nat)
  BY Pieces DEF OutShape
<1>6. InRecv \o (InRxRing \o obuf) = (InRecv \o InRxRing) \o obuf /\ (InRecv \o InRxRing) \o obuf \in Seq(Nat)
  <2>1. InRecv \o InRxRing \in Seq(Nat)
    BY <1>5, ConcatType
  <2>2. (InRecv \o InRxRing) \o obuf = InRecv \o (InRxRing \o obuf)
    BY <1>5, ConcatTriple
  <2>3. (InRecv \o InRxRing) \o obuf \in Seq(Nat)
    BY <1>5, <2>1, ConcatType
  <2> QED BY <2>2, <2>3
<1>7. ((InRecv \o InRxRing) \o obuf) \o <<>> = (InRecv \o InRxRing) \o obuf
  BY <1>6, ConcatEmpty
<1> QED BY <1>3, <1>4, <1>6, <1>7 DEF Rest

LEMMA RecvByteMoves ==
  ASSUME OutShape, RecvByte, NEW a \in Nat, Rest(a)
  PROVE  Rest(a)'
<1>0. RxRing \in Nat \ {0}
  BY DynOutAssumption
<1> DEFINE b == rring[rtail]
           R == Ringed(rring, (rtail + 1) % RxRing, rhead, RxRing)
<1>1. /\ (rtail + 1) % RxRing \in 0 .. RxRing - 1 /\ b \in Nat
      /\ Ringed(rring, rtail, rhead, RxRing) = <<b>> \o R
  <2>1. rring \in [0 .. RxRing - 1 -> Nat] /\ rhead \in 0 .. RxRing - 1 /\ rtail \in 0 .. RxRing - 1
    BY DEF OutShape
  <2>2. rtail # rhead
    BY DEF RecvByte
  <2>3. TakeLeaves(rring, rtail, rhead, RxRing, Nat)
    BY <1>0, <2>1, <2>2, RingTake, Zenon
  <2> QED BY <2>3 DEF TakeLeaves
<1>2. RingedIs(rring, (rtail + 1) % RxRing, rhead, RxRing, Nat)
  BY <1>0, <1>1, RingedProperties DEF OutShape
<1>3. R \in Seq(Nat)
  BY <1>2 DEF RingedIs
<1>4. InRecv = got /\ InRxRing = <<b>> \o R
  BY <1>1 DEF RecvByte, InRecv, InRxRing
<1>5. /\ InRecv' = Append(got, b) /\ InRxRing' = R /\ InPacket' = InPacket /\ events' = events
  BY DEF RecvByte, InRecv, InRxRing, InPacket, outEp
<1> HIDE DEF R, b
<1>6. Append(got, b) = got \o <<b>> /\ <<b>> \in Seq(Nat) /\ got \in Seq(Nat)
  BY <1>1, AppendIsConcat, SMTT(30) DEF OutShape
<1>7. (got \o <<b>>) \o R = got \o (<<b>> \o R)
  BY <1>3, <1>6, ConcatTriple
<1> QED BY <1>4, <1>5, <1>6, <1>7 DEF Rest

\* The events stored are the next ones, and follow those that are kept.
LEMMA StoreMoves ==
  ASSUME OutShape, ReaderInv, StoreEvents, ~lost', NEW a \in Nat, a <= events, Rest(a),
         NEW k \in Nat, k = Kept
  PROVE  /\ a + k <= events' /\ Rest(a + k)' /\ ~lost
         /\ InMidiRing' = InMidiRing \o KeptEvents
         /\ \A e \in 1 .. k : KeptEvents[e] = EventBytes(a + e)
<1>0. MidiRing \in Nat \ {0} /\ EventLen \in Nat /\ EventLen > 0
  BY DynOutAssumption
<1>1. /\ ~lost /\ Len(got) = Kept * EventLen /\ apc = "recv"
      /\ events' = events /\ InPacket' = InPacket /\ InRxRing' = InRxRing
      /\ apc' # "recv"
  BY DEF StoreEvents, InPacket, InRxRing, outEp, rxRing
<1>2. /\ Kept \in Nat /\ Distance(mtail, mhead, MidiRing) + Kept < MidiRing
      /\ Len(got) < EventLen => Kept = 0
  BY KeptRange
<1>3. KeptEvents \in Seq(Seq(Nat)) /\ Len(KeptEvents) = Kept
  BY KeptEventsType
<1>4. InRecv = got /\ InRecv' = <<>>
  BY <1>1 DEF InRecv
<1>5. got \in Seq(Nat) /\ InRxRing \in Seq(Nat) /\ InPacket \in Seq(Nat) /\ events \in Nat
  BY Pieces DEF OutShape
<1>6. got \o (InRxRing \o InPacket) = Flat(a, events) /\ InRxRing \o InPacket \in Seq(Nat)
  <2>1. (got \o InRxRing) \o InPacket = got \o (InRxRing \o InPacket)
    BY <1>5, ConcatTriple, Zenon
  <2>2. InRxRing \o InPacket \in Seq(Nat)
    BY <1>5, ConcatType, Zenon
  <2> QED BY <1>4, <2>1, <2>2 DEF Rest
<1>7. /\ a + k <= events /\ got = Flat(a, a + k)
      /\ InRxRing \o InPacket = Flat(a + k, events)
  <2>1. Len(got) = k * EventLen
    BY <1>1
  <2>2. SplitsAt(got, InRxRing \o InPacket, a, k, events)
    BY <1>5, <1>6, <2>1, FlatSplit, Zenon
  <2> QED BY <2>2 DEF SplitsAt
<1>8. Rest(a + k)'
  <2>1. <<>> \o InRxRing = InRxRing
    BY <1>5, ConcatEmpty
  <2> QED BY <1>1, <1>4, <1>7, <2>1 DEF Rest
<1>9. ASSUME NEW e \in 1 .. k PROVE KeptEvents[e] = EventBytes(a + e)
  BY <1>2, <1>7, EventOfFlat DEF KeptEvents
<1>10. InMidiRing' = InMidiRing \o KeptEvents
  <2>1. Ringed(PutAll(mring, mhead, MidiRing, KeptEvents), mtail, (mhead + Len(KeptEvents)) % MidiRing, MidiRing)
          = Ringed(mring, mtail, mhead, MidiRing) \o KeptEvents
    <3>1. /\ mring \in [0 .. MidiRing - 1 -> Seq(Nat)]
          /\ mhead \in 0 .. MidiRing - 1 /\ mtail \in 0 .. MidiRing - 1
      BY DEF OutShape
    <3>2. Distance(mtail, mhead, MidiRing) + Len(KeptEvents) < MidiRing
      BY <1>2, <1>3
    <3>3. PutFollows(mring, mtail, mhead, MidiRing, KeptEvents)
      BY <1>0, <1>3, <3>1, <3>2, RingPut, Zenon
    <3> QED BY <3>3 DEF PutFollows
  <2>2. CASE Len(got) < EventLen
    <3>1. Kept = 0 /\ UNCHANGED <<mring, mhead, mtail>>
      BY <1>2, <2>2 DEF StoreEvents, midiRing
    <3>2. KeptEvents = <<>>
      BY <1>3, <3>1, EmptySeq
    <3>3. InMidiRing \o <<>> = InMidiRing
      BY Pieces, ConcatEmptySeq
    <3>4. InMidiRing' = InMidiRing
      BY <3>1 DEF InMidiRing
    <3> QED BY <3>2, <3>3, <3>4
  <2>3. CASE ~(Len(got) < EventLen)
    <3>1. mring' = PutAll(mring, mhead, MidiRing, KeptEvents) /\ mhead' = (mhead + Kept) % MidiRing
          /\ mtail' = mtail
      BY <2>3 DEF StoreEvents
    <3> QED BY <1>3, <2>1, <3>1 DEF InMidiRing
  <2> QED BY <2>2, <2>3
<1> QED BY <1>1, <1>2, <1>7, <1>8, <1>9, <1>10

\* A read takes the oldest event that is kept.
LEMMA ReadTakes ==
  ASSUME OutShape, mhead # mtail, readout' = Append(readout, mring[mtail]), mtail' = NextMidi(mtail),
         UNCHANGED <<mring, mhead>>
  PROVE  /\ mring[mtail] \in Seq(Nat) /\ InMidiRing = <<mring[mtail]>> \o InMidiRing'
         /\ InMidiRing' \in Seq(Seq(Nat))
<1>0. MidiRing \in Nat \ {0}
  BY DynOutAssumption
<1>1. /\ (mtail + 1) % MidiRing \in 0 .. MidiRing - 1 /\ mring[mtail] \in Seq(Nat)
      /\ Ringed(mring, mtail, mhead, MidiRing)
           = <<mring[mtail]>> \o Ringed(mring, (mtail + 1) % MidiRing, mhead, MidiRing)
  <2>1. /\ mring \in [0 .. MidiRing - 1 -> Seq(Nat)]
        /\ mhead \in 0 .. MidiRing - 1 /\ mtail \in 0 .. MidiRing - 1
    BY DEF OutShape
  <2>2. mtail # mhead
    OBVIOUS
  <2>3. TakeLeaves(mring, mtail, mhead, MidiRing, Seq(Nat))
    BY <1>0, <2>1, <2>2, RingTake, Zenon
  <2> QED BY <2>3 DEF TakeLeaves
<1>2. RingedIs(mring, (mtail + 1) % MidiRing, mhead, MidiRing, Seq(Nat))
  BY <1>0, <1>1, RingedProperties DEF OutShape
<1>3. InMidiRing' = Ringed(mring, (mtail + 1) % MidiRing, mhead, MidiRing)
  BY DEF InMidiRing, NextMidi
<1> QED BY <1>1, <1>2, <1>3 DEF RingedIs, InMidiRing

\* NoEventMissing for given contents: r has been read, m is kept.
AllIn(r, m) ==
  /\ \A e \in DOMAIN r : r[e] = EventBytes(e)
  /\ \A e \in DOMAIN m : m[e] = EventBytes(Len(r) + e)

\* More events are kept.
LEMMA KeepMore ==
  ASSUME NEW r \in Seq(Seq(Nat)), NEW m \in Seq(Seq(Nat)), NEW q \in Seq(Seq(Nat)), AllIn(r, m),
         \A e \in 1 .. Len(q) : q[e] = EventBytes(Len(r) + Len(m) + e)
  PROVE  AllIn(r, m \o q) /\ Len(m \o q) = Len(m) + Len(q)
<1>1. Len(r) \in Nat /\ Len(m) \in Nat /\ Len(q) \in Nat /\ DOMAIN m = 1 .. Len(m)
  BY LenProperties
<1>2. /\ Len(m \o q) = Len(m) + Len(q) /\ DOMAIN (m \o q) = 1 .. Len(m) + Len(q)
      /\ \A e \in 1 .. Len(m) + Len(q) : (m \o q)[e] = IF e <= Len(m) THEN m[e] ELSE q[e - Len(m)]
  BY ConcatProperties, LenProperties
<1>3. ASSUME NEW e \in 1 .. Len(m) + Len(q) PROVE (m \o q)[e] = EventBytes(Len(r) + e)
  <2>1. CASE e <= Len(m)
    <3>1. e \in DOMAIN m
      BY <1>1, <2>1
    <3> QED BY <1>2, <2>1, <3>1 DEF AllIn
  <2>2. CASE ~(e <= Len(m))
    <3>1. e - Len(m) \in 1 .. Len(q) /\ Len(r) + Len(m) + (e - Len(m)) = Len(r) + e
      BY <1>1, <2>2
    <3>2. q[e - Len(m)] = EventBytes(Len(r) + Len(m) + (e - Len(m)))
      BY <3>1
    <3> QED BY <1>2, <2>2, <3>1, <3>2
  <2> QED BY <2>1, <2>2
<1> QED BY <1>2, <1>3 DEF AllIn

\* The oldest event that is kept is read.
LEMMA ReadOne ==
  ASSUME NEW r \in Seq(Seq(Nat)), NEW v \in Seq(Nat), NEW m \in Seq(Seq(Nat)), AllIn(r, <<v>> \o m)
  PROVE  AllIn(Append(r, v), m) /\ Len(Append(r, v)) + Len(m) = Len(r) + Len(<<v>> \o m)
<1> DEFINE w == <<v>> \o m
           a == Append(r, v)
<1>1. Len(r) \in Nat /\ Len(m) \in Nat /\ DOMAIN m = 1 .. Len(m) /\ DOMAIN r = 1 .. Len(r)
  BY LenProperties
<1>2. <<v>> \in Seq(Seq(Nat)) /\ Len(<<v>>) = 1 /\ <<v>>[1] = v
  OBVIOUS
<1>3. /\ Len(w) = 1 + Len(m) /\ DOMAIN w = 1 .. 1 + Len(m)
      /\ \A e \in 1 .. 1 + Len(m) : w[e] = IF e <= 1 THEN <<v>>[e] ELSE m[e - 1]
  BY <1>2, ConcatProperties, LenProperties
<1>4. /\ a \in Seq(Seq(Nat)) /\ Len(a) = Len(r) + 1 /\ DOMAIN a = 1 .. Len(r) + 1
      /\ \A e \in 1 .. Len(r) : a[e] = r[e]
      /\ a[Len(r) + 1] = v
  BY AppendProperties, LenProperties
<1> HIDE DEF w, a
<1>5. \A e \in 1 .. 1 + Len(m) : w[e] = EventBytes(Len(r) + e)
  BY <1>3 DEF AllIn, w
<1>6. v = EventBytes(Len(r) + 1)
  <2>1. 1 \in 1 .. 1 + Len(m) /\ w[1] = v
    BY <1>1, <1>2, <1>3
  <2> QED BY <1>5, <2>1
<1>7. ASSUME NEW e \in DOMAIN a PROVE a[e] = EventBytes(e)
  <2>1. e \in 1 .. Len(r) \/ e = Len(r) + 1
    BY <1>1, <1>4
  <2> QED BY <1>1, <1>4, <1>6, <2>1 DEF AllIn
<1>8. ASSUME NEW e \in DOMAIN m PROVE m[e] = EventBytes(Len(a) + e)
  <2>1. e + 1 \in 1 .. 1 + Len(m) /\ ~(e + 1 <= 1) /\ (e + 1) - 1 = e
    BY <1>1
  <2>2. w[e + 1] = m[e]
    BY <1>3, <2>1
  <2>3. Len(r) + (e + 1) = Len(a) + e
    BY <1>1, <1>4
  <2> QED BY <1>5, <2>1, <2>2, <2>3
<1> QED BY <1>1, <1>3, <1>4, <1>7, <1>8 DEF AllIn, a, w

\* The whole of it, with the place the stream has reached.
Whole(a) == AllIn(readout, InMidiRing) /\ a = Len(readout) + Len(InMidiRing) /\ a <= events /\ Rest(a)

LEMMA WholeIs == OutShape => (SentInv /\ NoEventMissing <=> (~lost => \E a \in Nat : Whole(a)))
<1> SUFFICES ASSUME OutShape PROVE SentInv /\ NoEventMissing <=> (~lost => \E a \in Nat : Whole(a))
  OBVIOUS
<1>1. Len(readout) + Len(InMidiRing) \in Nat
  BY Pieces
<1> QED BY <1>1 DEF SentInv, NoEventMissing, Whole, AllIn, Rest

LEMMA WholeStep ==
  ASSUME OutShape, ReaderInv, [Next]_vars, ~lost', NEW a \in Nat, Whole(a)
  PROVE  \E b \in Nat : Whole(b)'
<1>1. CASE OutReset \/ OutConfigured \/ UNCHANGED outVars
  <2>1. /\ UNCHANGED <<obuf, rring, rhead, rtail, apc, got, mring, mhead, mtail, events, readout>>
    BY <1>1 DEF OutReset, OutConfigured, outVars, outEp, rxRing, midiRing
  <2>2. otrn' <=> otrn
    <3>1. CASE OutReset \/ OutConfigured
      <4>1. ~otrn' /\ ~otrn
        BY <3>1, Zenon DEF OutReset, OutConfigured
      <4> QED BY <4>1
    <3>2. CASE UNCHANGED outVars
      BY <3>2 DEF outVars, outEp
    <3> QED BY <1>1, <3>1, <3>2
  <2>3. InPacket' = InPacket /\ InRecv' = InRecv /\ InRxRing' = InRxRing /\ InMidiRing' = InMidiRing
    BY <2>1, <2>2 DEF InPacket, InRecv, InRxRing, InMidiRing
  <2> QED BY <2>1, <2>3 DEF Whole, Rest
<1>2. CASE ServiceOut
  <2>1. UNCHANGED <<events, readout>> /\ InMidiRing' = InMidiRing
    BY <1>2 DEF ServiceOut, midiRing, InMidiRing
  <2>2. Rest(a)'
    BY <1>2, ServiceCopies DEF Whole
  <2> QED BY <2>1, <2>2 DEF Whole
<1>3. CASE \E n \in 1 .. OutBuf \div EventLen : HostPacket(n)
  <2>1. PICK n \in 1 .. OutBuf \div EventLen : HostPacket(n)
    BY <1>3
  <2>2. readout' = readout /\ InMidiRing' = InMidiRing
    BY <2>1 DEF HostPacket, midiRing, InMidiRing
  <2>3. a <= events' /\ Rest(a)'
    BY <2>1, HostPacketJoins DEF Whole
  <2> QED BY <2>2, <2>3 DEF Whole
<1>4. CASE ReadKept \/ ReadAccepted
  <2>1. ~lost /\ mhead # mtail
    BY <1>4 DEF ReadKept, ReadAccepted, ReaderInv
  <2>2. readout' = Append(readout, mring[mtail]) /\ mtail' = NextMidi(mtail) /\ UNCHANGED <<mring, mhead>>
    BY <1>4, <2>1 DEF ReadKept, ReadAccepted
  <2>3. /\ mring[mtail] \in Seq(Nat) /\ InMidiRing = <<mring[mtail]>> \o InMidiRing'
        /\ InMidiRing' \in Seq(Seq(Nat))
    BY <2>1, <2>2, ReadTakes
  <2>4. UNCHANGED <<obuf, otrn, rring, rhead, rtail, events>> /\ apc # "recv" /\ apc' # "recv"
    BY <1>4 DEF ReadKept, ReadAccepted, outEp, rxRing
  <2>5. Rest(a)'
    BY <2>4 DEF Whole, Rest, InRecv, InRxRing, InPacket
  <2>6. /\ AllIn(readout', InMidiRing')
        /\ Len(readout') + Len(InMidiRing') = Len(readout) + Len(InMidiRing)
    <3>1. readout \in Seq(Seq(Nat)) /\ AllIn(readout, <<mring[mtail]>> \o InMidiRing')
      BY <2>3 DEF OutShape, Whole
    <3> QED BY <2>2, <2>3, <3>1, ReadOne
  <2> QED BY <2>4, <2>5, <2>6 DEF Whole
<1>5. CASE ReadAccept \/ AcceptLoop
  <2>1. /\ UNCHANGED <<obuf, otrn, rring, rhead, rtail, mring, mhead, mtail, events, readout>>
        /\ apc # "recv" /\ (apc' = "recv" => got' = <<>>)
    BY <1>5 DEF ReadAccept, AcceptLoop, outEp, rxRing, midiRing
  <2>2. InRecv' = InRecv /\ InRxRing' = InRxRing /\ InPacket' = InPacket /\ InMidiRing' = InMidiRing
    BY <2>1 DEF InRecv, InRxRing, InPacket, InMidiRing
  <2> QED BY <2>1, <2>2 DEF Whole, Rest
<1>6. CASE RecvByte
  <2>1. UNCHANGED <<events, readout>> /\ InMidiRing' = InMidiRing
    BY <1>6 DEF RecvByte, midiRing, InMidiRing
  <2>2. Rest(a)'
    BY <1>6, RecvByteMoves DEF Whole
  <2> QED BY <2>1, <2>2 DEF Whole
<1>7. CASE StoreEvents
  <2>1. PICK k \in Nat : k = Kept
    BY KeptRange
  <2>2. /\ a + k <= events' /\ Rest(a + k)'
        /\ InMidiRing' = InMidiRing \o KeptEvents
        /\ \A e \in 1 .. k : KeptEvents[e] = EventBytes(a + e)
    BY <1>7, <2>1, StoreMoves DEF Whole
  <2>3. readout' = readout
    BY <1>7 DEF StoreEvents
  <2>4. KeptEvents \in Seq(Seq(Nat)) /\ Len(KeptEvents) = k
    BY <2>1, KeptEventsType
  <2>5. InMidiRing \in Seq(Seq(Nat)) /\ readout \in Seq(Seq(Nat)) /\ Len(InMidiRing) \in Nat /\ Len(readout) \in Nat
    BY Pieces DEF OutShape
  <2>6. AllIn(readout, InMidiRing \o KeptEvents) /\ Len(InMidiRing \o KeptEvents) = Len(InMidiRing) + k
    <3>1. \A e \in 1 .. Len(KeptEvents) : KeptEvents[e] = EventBytes(Len(readout) + Len(InMidiRing) + e)
      BY <2>2, <2>4 DEF Whole
    <3> QED BY <2>4, <2>5, <3>1, KeepMore DEF Whole
  <2>7. a + k = Len(readout') + Len(InMidiRing')
    BY <2>2, <2>3, <2>5, <2>6 DEF Whole
  <2>8. Whole(a + k)'
    BY <2>2, <2>3, <2>6, <2>7 DEF Whole
  <2>9. a + k \in Nat
    OBVIOUS
  <2> QED BY <2>8, <2>9
<1> QED BY <1>1, <1>2, <1>3, <1>4, <1>5, <1>6, <1>7, OutNext DEF Reading

\* lost stays.
LEMMA LostStays == [Next]_vars /\ lost => lost'
<1> SUFFICES ASSUME [Next]_vars, lost PROVE lost'
  OBVIOUS
<1>1. CASE OutReset \/ OutConfigured \/ ServiceOut
  BY <1>1 DEF OutReset, OutConfigured, ServiceOut
<1>2. CASE StoreEvents
  BY <1>2 DEF StoreEvents
<1>3. CASE UNCHANGED lost
  BY <1>3
<1>4. CASE \/ ReadKept \/ ReadAccept \/ AcceptLoop \/ RecvByte \/ ReadAccepted
           \/ (\E n \in 1 .. OutBuf \div EventLen : HostPacket(n)) \/ UNCHANGED outVars
  BY <1>4 DEF ReadKept, ReadAccept, AcceptLoop, RecvByte, ReadAccepted, HostPacket, outVars
<1> QED BY <1>1, <1>2, <1>4, OutNext DEF Reading

\* Until a byte is dropped, every event the host sent has been read, is kept
\* or is on its way in the two rings and the packet, in order and without a gap.
THEOREM EventsCorrect == Spec => []NoEventMissing
<1>1. Init => OutShape /\ ReaderInv /\ SentInv /\ NoEventMissing
  <2> SUFFICES ASSUME Init PROVE OutShape /\ ReaderInv /\ SentInv /\ NoEventMissing
    OBVIOUS
  <2>1. OutShape /\ ReaderInv
    BY OutShapeStarts DEF Init, OutInit, ReaderInv
  <2>2. MidiRing \in Nat \ {0} /\ RxRing \in Nat \ {0}
    BY DynOutAssumption
  <2>3. /\ readout = <<>> /\ events = 0 /\ mhead = mtail /\ rhead = rtail /\ InRecv = <<>> /\ InPacket = <<>>
    BY DEF Init, OutInit, InRecv, InPacket
  <2>4. Distance(mtail, mhead, MidiRing) = 0 /\ Distance(rtail, rhead, RxRing) = 0
    BY <2>1, <2>2, <2>3, DistanceIs DEF OutShape
  <2>5. InMidiRing = <<>> /\ InRxRing = <<>>
    <3>1. RingedIs(rring, rtail, rhead, RxRing, Nat)
      BY <2>1, <2>2, RingedProperties DEF OutShape
    <3>2. Len(InRxRing) = 0
      BY <2>4, <3>1 DEF RingedIs, InRxRing
    <3>3. Len(InMidiRing) = 0
      BY <2>1, <2>4, Pieces
    <3> QED BY <2>1, <3>2, <3>3, Pieces, EmptySeq
  <2>6. Flat(0, 0) = <<>>
    <3>1. 0 \in Nat /\ 0 <= 0 /\ (0 - 0) * EventLen = 0
      BY DynOutAssumption
    <3>2. Flat(0, 0) \in Seq(Nat) /\ Len(Flat(0, 0)) = 0
      BY <3>1, FlatType
    <3> QED BY <3>2, EmptySeq
  <2>7. <<>> \o <<>> = <<>> /\ DOMAIN <<>> = {} /\ Len(<<>>) = 0 /\ Len(<<>>) + Len(<<>>) = 0
    OBVIOUS
  <2>8. SentInv
    BY <2>3, <2>5, <2>7 DEF SentInv
  <2>9. NoEventMissing
    <3>1. \A e \in DOMAIN readout : readout[e] = EventBytes(e)
      BY <2>3, <2>7
    <3>2. \A e \in DOMAIN InMidiRing : InMidiRing[e] = EventBytes(Len(readout) + e)
      BY <2>5, <2>7
    <3>3. InRecv \o InRxRing \o InPacket = Flat(Len(readout) + Len(InMidiRing), events)
      BY <2>3, <2>5, <2>6, <2>7
    <3> QED BY <3>1, <3>2, <3>3 DEF NoEventMissing
  <2> QED BY <2>1, <2>8, <2>9
<1>2. OutShape /\ ReaderInv /\ SentInv /\ NoEventMissing /\ [Next]_vars
        => (OutShape /\ ReaderInv /\ SentInv /\ NoEventMissing)'
  <2> SUFFICES ASSUME OutShape, ReaderInv, SentInv, NoEventMissing, [Next]_vars
               PROVE  (OutShape /\ ReaderInv /\ SentInv /\ NoEventMissing)'
    OBVIOUS
  <2>1. OutShape' /\ ReaderInv'
    BY OutShapeStep, ReaderStep
  <2>2. ~lost' => \E b \in Nat : Whole(b)'
    <3> SUFFICES ASSUME ~lost' PROVE \E b \in Nat : Whole(b)'
      OBVIOUS
    <3>1. PICK a \in Nat : Whole(a)
      BY LostStays, WholeIs
    <3> QED BY <3>1, WholeStep
  <2>3. (OutShape => (SentInv /\ NoEventMissing <=> (~lost => \E a \in Nat : Whole(a))))'
    BY WholeIs, PTL
  <2> QED BY <2>1, <2>2, <2>3
<1> QED BY <1>1, <1>2, PTL DEF Spec
=============================================================================
