------------------------------ MODULE AtLeastOnce ------------------------------
(***************************************************************************)
(* What the email outbox promises about each event, with no workers,       *)
(* leases or retries in it: an event that is marked as sent went out at    *)
(* least once and is never touched again; one that was given up comes back *)
(* only by an operator's decision.                                         *)
(***************************************************************************)
CONSTANT Events

VARIABLES state, \* "none", "queued", "sent" or "failed", by event
          out    \* whether a copy of the message went out

vars == <<state, out>>

Init ==
    /\ state = [e \in Events |-> "none"]
    /\ out = [e \in Events |-> FALSE]

Move(e, from, to) == state[e] = from /\ state' = [state EXCEPT ![e] = to]

Enqueue(e) == Move(e, "none", "queued") /\ UNCHANGED out

\* A copy may also go out late, from a sender everybody has given up on.
Deliver(e) ==
    /\ state[e] # "none"
    /\ out' = [out EXCEPT ![e] = TRUE]
    /\ UNCHANGED state

MarkSent(e) == out[e] /\ Move(e, "queued", "sent") /\ UNCHANGED out
GiveUp(e) == Move(e, "queued", "failed") /\ UNCHANGED out
Requeue(e) == Move(e, "failed", "queued") /\ UNCHANGED out

Next == \E e \in Events : Enqueue(e) \/ Deliver(e) \/ MarkSent(e) \/ GiveUp(e) \/ Requeue(e)

Spec == Init /\ [][Next]_vars
===============================================================================
