------------------------------ MODULE BytePipe ------------------------------
(***************************************************************************)
(* What the CDC port promises to the sketch and to the host: a bounded     *)
(* FIFO of bytes.  A byte that the port accepted is delivered once, in     *)
(* order, or is discarded with everything before it when a bus reset or a  *)
(* SET_CONFIGURATION cuts the stream; delivery starts over after a cut.    *)
(***************************************************************************)
EXTENDS Integers, Sequences

CONSTANTS Byte,        \* the bytes that may be sent
          Capacity     \* what the port can hold

VARIABLES queue,       \* accepted and not yet delivered
          out          \* delivered since the last cut

pipeVars == <<queue, out>>

Init == queue = <<>> /\ out = <<>>

Accept(b) ==
  /\ Len(queue) < Capacity
  /\ queue' = Append(queue, b)
  /\ UNCHANGED out

Deliver(n) ==
  /\ out' = out \o SubSeq(queue, 1, n)
  /\ queue' = SubSeq(queue, n + 1, Len(queue))

Cut(n) ==
  /\ out' = <<>>
  /\ queue' = SubSeq(queue, n + 1, Len(queue))

Next ==
  \/ \E b \in Byte : Accept(b)
  \/ \E n \in 1 .. Len(queue) : Deliver(n)
  \/ \E n \in 0 .. Len(queue) : Cut(n)

Spec == Init /\ [][Next]_pipeVars
=============================================================================
