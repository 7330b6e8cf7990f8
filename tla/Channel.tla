------------------------------ MODULE Channel -------------------------------
(***************************************************************************)
(* What the sending half of Protocol promises its callers: the messages    *)
(* handed to it reach the client whole, once and in order.  A failed write *)
(* ends the promise for what is not yet written.  A message is unsafe when *)
(* its header cannot be put into a chunk of the form the code writes; such *)
(* a message makes the client lose its place in the stream, and no other   *)
(* does.                                                                   *)
(***************************************************************************)
EXTENDS Integers, Sequences

VARIABLES
  accepted,   \* the messages handed over, each with a field safe
  received,   \* the messages the client has put together
  state       \* "up", "down" after a failed write, or "garbled"

vars == <<accepted, received, state>>

Init == accepted = <<>> /\ received = <<>> /\ state = "up"

\* Some messages are handed over.
Accept ==
  /\ state = "up"
  /\ Len(accepted') > Len(accepted) /\ SubSeq(accepted', 1, Len(accepted)) = accepted
  /\ UNCHANGED <<received, state>>

Deliver ==
  /\ state # "garbled" /\ Len(received) < Len(accepted)
  /\ received' = Append(received, accepted[Len(received) + 1])
  /\ UNCHANGED <<accepted, state>>

Fail == state = "up" /\ state' = "down" /\ UNCHANGED <<accepted, received>>

Garble ==
  /\ state # "garbled"
  /\ \E i \in Len(received) + 1 .. Len(accepted) : ~accepted[i].safe
  /\ state' = "garbled"
  /\ UNCHANGED <<accepted, received>>

Next == Accept \/ Deliver \/ Fail \/ Garble

\* Unless a write fails, what has been accepted is delivered.
Progress ==
  /\ state = "up" /\ Len(received) < Len(accepted)
  /\ Deliver \/ Fail \/ Garble

\* What may happen, without what must.
Safety == Init /\ [][Next]_vars

Spec == Safety /\ WF_vars(Progress)
=============================================================================
