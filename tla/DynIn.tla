------------------------------- MODULE DynIn -------------------------------
(***************************************************************************)
(* An IN endpoint of a PluggableUSB module: USB_Send(), USB_Flush() and    *)
(* dyn_ep_release() of USBCore_DU_dyn.cpp, called by HID_::SendReport() or *)
(* by MIDI_::write() and MIDI_::flush().  The main program stages bytes in *)
(* s_dyn_ep_buf, which is also the buffer of the packet in flight, and     *)
(* polls the endpoint's status; the interrupts that configure and reset    *)
(* the endpoint may come between any two of its steps.                     *)
(*                                                                         *)
(* SET_CONFIGURATION clears s_dyn_ep_pos from the interrupt, and the main  *)
(* program, for which it is not volatile, may go on with the value it has  *)
(* in a register: every use takes that value or loads the variable again.  *)
(***************************************************************************)
EXTENDS Integers, Sequences, SequencesExt

CONSTANTS DynBuf,        \* USBCORE_DYN_EP_BUF (64 in the source)
          Lens,          \* bound: lengths of the data of a report or event
          MaxCalls       \* bound: reports or events sent

ASSUME DynInAssumption ==
  /\ DynBuf \in Nat \ {0} /\ MaxCalls \in Nat
  /\ Lens \in SUBSET (Nat \ {0}) /\ Lens # {}

VARIABLES
  buf, pos,              \* s_dyn_ep_buf, s_dyn_ep_pos
  reg,                   \* pos as the call in progress last loaded or stored it
  en, nak, trn, cnt,     \* EP.IN: CTRL not disabled, BUSNAK, TRNCOMPL, CNT
  pc,                    \* main: idle, append, copy, advance, waitIdle, count, arm,
                         \* waitDone, clear
  todo, part,            \* bytes USB_Send() has still to stage; those it is staging
  data,                  \* data of the report whose id is being staged
  release,               \* TRANSFER_RELEASE, or USB_Flush()
  calls,                 \* counter of the bound
  broken,                \* history: since SET_CONFIGURATION a wait timed out or the
                         \* host cut a call short or took the configuration away
  torn,                  \* history: SET_CONFIGURATION fell in a call, and dyn_ep_release()
                         \* has not emptied the buffer since
  sent, wire             \* history, since then: bytes staged; bytes collected until broken

epVars == <<en, nak, trn, cnt>>
callVars == <<pc, todo, part, data, release>>
history == <<sent, wire, broken, torn>>
inVars == <<buf, pos, reg, epVars, callVars, calls, history>>

\* What the table and the staging area hold after usb_init().
InInit ==
  /\ buf = [i \in 1 .. DynBuf |-> <<0, 0>>] /\ pos = 0 /\ reg = 0
  /\ en = FALSE /\ nak = FALSE /\ trn = FALSE /\ cnt = 0
  /\ pc = "idle" /\ todo = <<>> /\ part = <<>> /\ data = <<>> /\ release = FALSE
  /\ calls = 0 /\ sent = <<>> /\ wire = <<>> /\ broken = TRUE /\ torn = FALSE

\* A use of s_dyn_ep_pos in a call takes the value o.
Use(o) == o \in {reg, pos} /\ reg' = o

-----------------------------------------------------------------------------
(* The callers.  Byte k of call c is <<c, k>>; byte 0 is the report id.    *)

DataOf(c, n) == [k \in 1 .. n |-> <<c, k>>]

Enter(at) ==
  /\ pc = "idle"
  /\ pc' = at /\ reg' = pos
  /\ UNCHANGED <<buf, pos, part, epVars, history>>

SendReport(n) ==                      \* HID_::SendReport: the id, then the data
  /\ Enter("append") /\ calls < MaxCalls
  /\ calls' = calls + 1
  /\ todo' = <<<<calls + 1, 0>>>> /\ data' = DataOf(calls + 1, n) /\ release' = FALSE

WriteEvent(n) ==                      \* MIDI_::write: USB_Send() without TRANSFER_RELEASE
  /\ Enter("append") /\ calls < MaxCalls
  /\ calls' = calls + 1
  /\ todo' = DataOf(calls + 1, n) /\ data' = <<>> /\ release' = FALSE

Flush ==                              \* USB_Flush(); nothing is done when pos is 0
  /\ Enter("waitIdle") /\ pos > 0
  /\ todo' = <<>> /\ data' = <<>> /\ release' = TRUE
  /\ UNCHANGED calls

-----------------------------------------------------------------------------
(* USB_Send().  The room, the copy and the advance of s_dyn_ep_pos each    *)
(* use it for themselves.                                                  *)

\* Mutant of Room: off by one.
RoomOver(o) == DynBuf + 1 - o

Room(o) == DynBuf - o
Fits(o) == IF Len(todo) > Room(o) THEN Room(o) ELSE Len(todo)

TakeRoom(o) ==
  /\ pc = "append" /\ todo # <<>> /\ Use(o) /\ Room(o) > 0
  /\ part' = SubSeq(todo, 1, Fits(o))
  /\ todo' = SubSeq(todo, Fits(o) + 1, Len(todo))
  /\ pc' = "copy"
  /\ UNCHANGED <<buf, pos, epVars, data, release, calls, history>>

AppendFull(o) ==                      \* flush a full packet, then keep going
  /\ pc = "append" /\ todo # <<>> /\ Use(o) /\ Room(o) = 0
  /\ pc' = "waitIdle"
  /\ UNCHANGED <<buf, pos, epVars, todo, part, data, release, calls, history>>

Copy(o) ==                            \* memcpy
  /\ pc = "copy" /\ Use(o)
  /\ buf' = [i \in 1 .. DynBuf |-> IF i - o \in DOMAIN part THEN part[i - o] ELSE buf[i]]
  /\ sent' = sent \o part
  /\ pc' = "advance"
  /\ UNCHANGED <<pos, epVars, todo, part, data, release, calls, wire, broken, torn>>

Advance(o) ==                         \* s_dyn_ep_pos += n
  /\ pc = "advance" /\ o \in {reg, pos}
  /\ pos' = o + Len(part) /\ reg' = pos'
  /\ part' = <<>>
  /\ pc' = "append"
  /\ UNCHANGED <<buf, epVars, todo, data, release, calls, history>>

AppendDone ==
  /\ pc = "append" /\ todo = <<>>
  /\ IF data # <<>>                   \* the second USB_Send of SendReport
     THEN todo' = data /\ data' = <<>> /\ release' = TRUE /\ UNCHANGED pc
     ELSE /\ pc' = (IF release THEN "waitIdle" ELSE "idle")
          /\ UNCHANGED <<todo, data, release>>
  /\ UNCHANGED <<buf, pos, reg, part, epVars, calls, history>>

-----------------------------------------------------------------------------
(* dyn_ep_release().  Returning -1 ends the whole call.                    *)

GiveUp ==
  /\ pc' = "idle" /\ todo' = <<>> /\ data' = <<>> /\ release' = FALSE
  /\ broken' = TRUE /\ wire' = <<>>
  /\ UNCHANGED <<buf, part, epVars, calls, sent, torn>>

WaitIdle ==
  /\ pc = "waitIdle" /\ nak
  /\ pc' = "count"
  /\ UNCHANGED <<buf, pos, reg, epVars, todo, part, data, release, calls, history>>

IdleTimeout ==                        \* the bytes stay staged
  /\ pc = "waitIdle" /\ ~nak
  /\ GiveUp
  /\ UNCHANGED <<pos, reg>>

Count(o) ==
  /\ pc = "count" /\ Use(o)
  /\ cnt' = o
  /\ pc' = "arm"
  /\ UNCHANGED <<buf, pos, en, nak, trn, todo, part, data, release, calls, history>>

Arm ==
  /\ pc = "arm"
  /\ pc' = "waitDone" /\ nak' = FALSE /\ trn' = FALSE
  /\ UNCHANGED <<buf, pos, reg, en, cnt, todo, part, data, release, calls, history>>

\* Mutant of Done: the call returns once the packet is armed.
DoneAtOnce == TRUE

Done == trn

WaitDone ==
  /\ pc = "waitDone" /\ Done
  /\ pc' = "clear"
  /\ UNCHANGED <<buf, pos, reg, epVars, todo, part, data, release, calls, history>>

\* Mutant of MayTimeOut: the wait has no limit.
NeverTimesOut == FALSE

MayTimeOut == ~trn

DoneTimeout ==                        \* the packet stays armed, its buffer is free
  /\ pc = "waitDone" /\ MayTimeOut
  /\ pos' = 0 /\ reg' = 0
  /\ GiveUp

Released ==
  /\ pc = "clear"
  /\ trn' = FALSE /\ pos' = 0 /\ reg' = 0
  /\ pc' = (IF todo = <<>> THEN "idle" ELSE "append")
  /\ torn' = FALSE
  /\ UNCHANGED <<buf, en, nak, cnt, todo, part, data, release, calls, sent, wire, broken>>

Staging == AppendDone \/ \E o \in {reg, pos} :
             TakeRoom(o) \/ AppendFull(o) \/ Copy(o) \/ Advance(o)
Releasing == \/ WaitIdle \/ IdleTimeout \/ (\E o \in {reg, pos} : Count(o))
             \/ Arm \/ WaitDone \/ DoneTimeout \/ Released
Sending == Staging \/ Releasing

-----------------------------------------------------------------------------
(* The host and the interrupts.                                            *)

Collect ==
  /\ en /\ ~nak
  /\ wire' = (IF broken THEN wire ELSE wire \o SubSeq(buf, 1, cnt))
  /\ nak' = TRUE /\ trn' = TRUE
  /\ UNCHANGED <<buf, pos, reg, en, cnt, callVars, calls, sent, broken, torn>>

InReset ==                            \* usb_ep_table_init()
  /\ en' = FALSE /\ nak' = FALSE /\ trn' = FALSE /\ cnt' = 0
  /\ broken' = TRUE /\ wire' = <<>>
  /\ UNCHANGED <<buf, pos, reg, callVars, calls, sent, torn>>

\* Mutant of Restage: the bytes staged before are kept.
RestageNot == UNCHANGED pos

Restage == pos' = 0

InConfigured ==                       \* usbcore_init_plugged_endpoints()
  /\ en' = TRUE /\ nak' = TRUE /\ trn' = FALSE /\ cnt' = 0
  /\ Restage
  /\ sent' = <<>> /\ wire' = <<>> /\ broken' = (pc # "idle") /\ torn' = (pc # "idle")
  /\ UNCHANGED <<buf, reg, callVars, calls>>

InDeconfigured ==                     \* SET_CONFIGURATION(0)
  /\ en' = FALSE
  /\ broken' = TRUE /\ wire' = <<>>
  /\ UNCHANGED <<buf, pos, reg, nak, trn, cnt, callVars, calls, sent, torn>>

InTypes ==
  /\ pos \in 0 .. DynBuf /\ reg \in 0 .. DynBuf /\ cnt \in 0 .. DynBuf
  /\ DOMAIN buf = 1 .. DynBuf
  /\ {en, nak, trn, release, broken, torn} \subseteq BOOLEAN
  /\ pc \in {"idle", "append", "copy", "advance", "waitIdle", "count", "arm", "waitDone",
             "clear"}
  /\ calls \in 0 .. MaxCalls
=============================================================================
