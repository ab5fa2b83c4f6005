------------------------------ MODULE ByteStream ------------------------------
(***************************************************************************)
(* What one direction of the embedded transport promises, with nothing of  *)
(* how it is done: a bounded FIFO of bytes that never drops, repeats or    *)
(* reorders one, and that stops accepting bytes for good once it is        *)
(* closed, while those already accepted stay readable.                     *)
(*                                                                         *)
(* A byte is named by its place in the stream: byte k is the k-th accepted.*)
(***************************************************************************)
EXTENDS Integers, Sequences

CONSTANTS Capacity   \* the most bytes that may be in flight

VARIABLES
  inFlight,  \* the bytes accepted and not yet delivered, oldest first
  accepted,  \* how many bytes have been accepted so far
  closed     \* TRUE once the stream takes no more bytes

streamVars == <<inFlight, accepted, closed>>

Init ==
  /\ inFlight = <<>>
  /\ accepted = 0
  /\ closed = FALSE

Put(n) ==
  /\ ~closed
  /\ Len(inFlight) + n <= Capacity
  /\ inFlight' = inFlight \o [i \in 1..n |-> accepted + i]
  /\ accepted' = accepted + n
  /\ UNCHANGED closed

Get(n) ==
  /\ n <= Len(inFlight)
  /\ inFlight' = SubSeq(inFlight, n + 1, Len(inFlight))
  /\ UNCHANGED <<accepted, closed>>

Close ==
  /\ closed' = TRUE
  /\ UNCHANGED <<inFlight, accepted>>

Next ==
  \/ \E n \in 1..Capacity : Put(n)
  \/ \E n \in 1..Capacity : Get(n)
  \/ Close

Spec == Init /\ [][Next]_streamVars
=============================================================================
