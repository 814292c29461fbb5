------------------------------ MODULE EmailOutbox ------------------------------
(***************************************************************************)
(* The email outbox: events committed with the orders and payments they    *)
(* tell of, and workers that claim one under a lease, talk to the SMTP     *)
(* server outside any transaction, and record the outcome if the lease is  *)
(* still theirs. A worker may be slow, may die at any point, and several   *)
(* run at once. Each database transaction is one action.                   *)
(*                                                                         *)
(* A definition whose name ends in _Faulty... is a deliberately wrong      *)
(* variant of the one that follows it; no action uses it.                  *)
(***************************************************************************)
EXTENDS Naturals, FiniteSets

CONSTANTS MaxEvents,   \* bound: outbox rows
          Workers,     \* poll loops, one per server process
          MaxAttempts, \* settings.email_outbox_max_attempts
          MaxRetries   \* bound: operator retries of one event

ASSUME OutboxAssumption ==
    /\ MaxEvents \in Nat \ {0}
    /\ IsFiniteSet(Workers) /\ "none" \notin Workers
    /\ MaxAttempts \in Nat \ {0}
    /\ MaxRetries \in Nat

Events == 1..MaxEvents

VARIABLES row,    \* email_outbox rows, by id
          worker, \* the claim each worker is busy with
          out,    \* whether the SMTP server ever took a copy
          claims, \* claims since the event was queued or last requeued
          audit   \* email_outbox_audit rows

vars == <<row, worker, out, claims, audit>>

\* A claim's lease_token is a fresh uuid. It is stood for by the worker that
\* made the claim: a worker forgets a token when it makes its next claim, so
\* nobody ever holds two that this identifies. timer: whether next_attempt_at
\* of a pending row, or lease_expires_at of a sending one, has been reached.
NoRow == [status |-> "none", attempts |-> 0, token |-> "none", timer |-> "over"]
Queued == [status |-> "pending", attempts |-> 0, token |-> "none", timer |-> "over"]
Free == [pc |-> "free", event |-> 0, attempts |-> 0, live |-> FALSE]

Init ==
    /\ row = [e \in Events |-> NoRow]
    /\ worker = [w \in Workers |-> Free]
    /\ out = [e \in Events |-> FALSE]
    /\ claims = [e \in Events |-> 0]
    /\ audit = [e \in Events |-> 0]

\* enqueue_email, when the caller's transaction commits. A second event with
\* the same key is dropped.
Enqueue(e) ==
    /\ row[e] = NoRow
    /\ row' = [row EXCEPT ![e] = Queued]
    /\ UNCHANGED <<worker, out, claims, audit>>

\* next_attempt_at or lease_expires_at of the row passes. live: the worker
\* that made this claim still believes, rightly so far, that it is the sender.
TimerRunsOut(e) ==
    /\ row[e].timer = "running"
    /\ row' = [row EXCEPT ![e].timer = "over"]
    /\ worker' = [w \in Workers |->
            IF worker[w].event = e /\ row[e].token = w
            THEN [worker[w] EXCEPT !.live = FALSE] ELSE worker[w]]
    /\ UNCHANGED <<out, claims, audit>>

-------------------------------------------------------------------------------
(* _claim_email.                                                           *)

Claimable_FaultyNoRecovery(e) == row[e].status = "pending" /\ row[e].timer = "over"

Claimable(e) == row[e].status \in {"pending", "sending"} /\ row[e].timer = "over"

\* The lowest claimable id, but rows locked by a claim of another worker that
\* has not committed yet are skipped.
Candidate(w, e) ==
    /\ worker[w] = Free
    /\ Claimable(e)
    /\ Cardinality({f \in Events : f < e /\ Claimable(f)})
         <= Cardinality({v \in Workers \ {w} : worker[v] = Free})

Exhausted(e) == row[e].attempts >= MaxAttempts

GiveUpEmail(w, e) ==
    /\ Candidate(w, e)
    /\ Exhausted(e)
    /\ row' = [row EXCEPT ![e] = [@ EXCEPT !.status = "failed", !.token = "none"]]
    /\ UNCHANGED <<worker, out, claims, audit>>

ClaimedRow_FaultyFreeRecovery(w, r) ==
    [status |-> "sending", token |-> w, timer |-> "running",
     attempts |-> IF r.status = "pending" THEN r.attempts + 1 ELSE r.attempts]

ClaimedRow(w, r) ==
    [status |-> "sending", token |-> w, timer |-> "running", attempts |-> r.attempts + 1]

ClaimEmail(w, e) ==
    /\ Candidate(w, e)
    /\ ~Exhausted(e)
    /\ row' = [row EXCEPT ![e] = ClaimedRow(w, @)]
    /\ worker' = [worker EXCEPT ![w] =
            [pc |-> "sending", event |-> e, attempts |-> row'[e].attempts, live |-> TRUE]]
    /\ claims' = [claims EXCEPT ![e] = @ + 1]
    /\ UNCHANGED <<out, audit>>

-------------------------------------------------------------------------------
(* _send: the SMTP server takes the message, or an exception comes back,    *)
(* with or without a copy having gone out.                                 *)

SmtpAccepts(w) ==
    /\ worker[w].pc = "sending"
    /\ worker' = [worker EXCEPT ![w].pc = "accepted"]
    /\ out' = [out EXCEPT ![worker[w].event] = TRUE]
    /\ UNCHANGED <<row, claims, audit>>

SmtpRaises(w) ==
    /\ worker[w].pc = "sending"
    /\ worker' = [worker EXCEPT ![w].pc = "raised"]
    /\ \E copy \in BOOLEAN : out' = [out EXCEPT ![worker[w].event] = @ \/ copy]
    /\ UNCHANGED <<row, claims, audit>>

-------------------------------------------------------------------------------
(* _finish_success and _finish_failure: updates guarded by status and token *)

HoldsLease_FaultyNoToken(w) == row[worker[w].event].status = "sending"
HoldsLease_FaultyIdOnly(w) == row[worker[w].event].status # "none"

HoldsLease(w) ==
    row[worker[w].event].status = "sending" /\ row[worker[w].event].token = w

FinishSuccess(w) ==
    /\ worker[w].pc = "accepted"
    /\ row' = IF HoldsLease(w)
              THEN [row EXCEPT ![worker[w].event] =
                        [@ EXCEPT !.status = "sent", !.token = "none", !.timer = "over"]]
              ELSE row
    /\ worker' = [worker EXCEPT ![w] = Free]
    /\ UNCHANGED <<out, claims, audit>>

\* The attempts read when the event was claimed are written back.
FinishFailure(w) ==
    /\ worker[w].pc = "raised"
    /\ row' = IF HoldsLease(w)
              THEN [row EXCEPT ![worker[w].event] =
                        IF worker[w].attempts >= MaxAttempts
                        THEN [status |-> "failed", attempts |-> worker[w].attempts,
                              token |-> "none", timer |-> "over"]
                        ELSE [status |-> "pending", attempts |-> worker[w].attempts,
                              token |-> "none", timer |-> "running"]]
              ELSE row
    /\ worker' = [worker EXCEPT ![w] = Free]
    /\ UNCHANGED <<out, claims, audit>>

\* The process stops, the task is cancelled or the database cannot be reached:
\* the claim stays as it is until its lease expires.
WorkerLost(w) ==
    /\ worker[w] # Free
    /\ worker' = [worker EXCEPT ![w] = Free]
    /\ UNCHANGED <<row, out, claims, audit>>

\* The operator's retry-failed command.
Retry(e) ==
    /\ row[e].status = "failed"
    /\ audit[e] < MaxRetries
    /\ row' = [row EXCEPT ![e] = Queued]
    /\ claims' = [claims EXCEPT ![e] = 0]
    /\ audit' = [audit EXCEPT ![e] = @ + 1]
    /\ UNCHANGED <<worker, out>>

Polling(w) == \E e \in Events : GiveUpEmail(w, e) \/ ClaimEmail(w, e)
Delivering(w) == SmtpAccepts(w) \/ SmtpRaises(w) \/ FinishSuccess(w) \/ FinishFailure(w)

Next ==
    \/ \E e \in Events : Enqueue(e) \/ TimerRunsOut(e) \/ Retry(e)
    \/ \E w \in Workers : Polling(w) \/ Delivering(w) \/ WorkerLost(w)

Spec == Init /\ [][Next]_vars

\* Each worker polls for ever and its SMTP calls end in an answer or a
\* time-out; time passes. Nothing makes a worker die or an operator retry.
Fairness ==
    /\ \A w \in Workers : WF_vars(Polling(w)) /\ WF_vars(Delivering(w))
    /\ \A e \in Events : WF_vars(TimerRunsOut(e))

FairSpec == Spec /\ Fairness

-------------------------------------------------------------------------------
(* Properties.                                                             *)

RowType == [status : {"none", "pending", "sending", "sent", "failed"},
            attempts : 0..MaxAttempts,
            token : Workers \cup {"none"},
            timer : {"running", "over"}]

ClaimType == [pc : {"free", "sending", "accepted", "raised"},
              event : 0..MaxEvents,
              attempts : 0..MaxAttempts,
              live : BOOLEAN]

TypeOK ==
    /\ row \in [Events -> RowType]
    /\ worker \in [Workers -> ClaimType]
    /\ out \in [Events -> BOOLEAN]
    /\ claims \in [Events -> 0..MaxAttempts]
    /\ audit \in [Events -> 0..MaxRetries]

\* While a worker's lease on an event runs, no other worker is between claim
\* and outcome of that event under a running lease of its own, whatever slow
\* workers with an older lease do meanwhile.
OneLiveSender ==
    \A v, w \in Workers :
        worker[v].live /\ worker[w].live /\ worker[v].event = worker[w].event => v = w

\* EMAIL_OUTBOX_OPERATIONS.md: every claim counts as an attempt, also one that
\* recovers an event after a crash. A slow worker that writes back the count it
\* read never makes the row forget a claim.
AttemptsCountClaims == \A e \in Events : row[e].attempts = claims[e]

Promise == INSTANCE AtLeastOnce WITH
    state <- [e \in Events |->
                IF row[e].status \in {"pending", "sending"} THEN "queued" ELSE row[e].status]

\* The outbox delivers at least once: what is marked sent went out and stays
\* as it is, and only an operator brings back what was given up.
KeepsPromise == Promise!Spec

\* Every event committed with its order is sent in the end or given up where
\* the operator sees it, also when workers keep dying while they hold it.
EveryEmailDecided ==
    \A e \in Events :
        row[e].status \in {"pending", "sending"} ~> row[e].status \in {"sent", "failed"}
===============================================================================
