--------------------------- MODULE EmailOutboxProofs ---------------------------
(***************************************************************************)
(* Theorems about EmailOutbox, for any number of events, workers, attempts *)
(* and retries. All of them follow from one inductive invariant: a running *)
(* lease is the one the row names, and the worker that holds it remembers  *)
(* the row's count of attempts.                                            *)
(***************************************************************************)
EXTENDS EmailOutbox, TLAPS

Busy(w) == worker[w].pc # "free"

WorkersKnow ==
    \A w \in Workers :
        /\ ~Busy(w) => worker[w] = Free
        /\ Busy(w) => /\ worker[w].event \in Events
                      /\ row[worker[w].event].status # "none"
        /\ worker[w].pc = "accepted" => out[worker[w].event]

LeasesMatch ==
    \A w \in Workers :
        /\ worker[w].live => Busy(w) /\ HoldsLease(w) /\ row[worker[w].event].timer = "running"
        /\ Busy(w) /\ HoldsLease(w) => worker[w].attempts = row[worker[w].event].attempts

NewRows == \A e \in Events : row[e].status = "none" => row[e] = NoRow

OutboxInv == TypeOK /\ AttemptsCountClaims /\ WorkersKnow /\ LeasesMatch /\ NewRows

\* The ids of the events, and that a free worker's event is none of them.
LEMMA EventIds ==
  /\ Events \subseteq 0..MaxEvents
  /\ \A e \in Events : e # 0
  /\ 0 \in 0..MaxEvents /\ 0 \in 0..MaxAttempts /\ 0 \in 0..MaxRetries
  BY OutboxAssumption DEF Events

\* The invariant holds of an empty outbox.
LEMMA OutboxInit == Init => OutboxInv
<1> SUFFICES ASSUME Init PROVE OutboxInv
  OBVIOUS
<1>1. NoRow \in RowType /\ Free \in ClaimType
  BY EventIds DEF NoRow, RowType, Free, ClaimType
<1>2. TypeOK
  BY <1>1, EventIds DEF Init, TypeOK
<1>3. AttemptsCountClaims /\ NewRows
  BY DEF Init, AttemptsCountClaims, NewRows, NoRow
<1>4. WorkersKnow /\ LeasesMatch
  BY DEF Init, WorkersKnow, LeasesMatch, Busy, Free
<1>5. QED
  BY <1>2, <1>3, <1>4 DEF OutboxInv

\* Steps that concern a row and no worker: a new event, a timer, a retry.
LEMMA RowStep ==
  ASSUME OutboxInv, NEW e \in Events, Enqueue(e) \/ TimerRunsOut(e) \/ Retry(e)
  PROVE  OutboxInv'
<1>1. CASE Enqueue(e)
  <2>1. TypeOK'
    BY <1>1, EventIds DEF Enqueue, Queued, OutboxInv, TypeOK, RowType
  <2>2. AttemptsCountClaims'
    BY <1>1, EventIds DEF Enqueue, NoRow, Queued, OutboxInv, TypeOK, AttemptsCountClaims
  <2>3. WorkersKnow'
    BY <1>1, EventIds DEF Enqueue, Queued, OutboxInv, TypeOK, WorkersKnow, Busy
  <2>4. LeasesMatch'
    BY <1>1, EventIds
    DEF Enqueue, NoRow, Queued, OutboxInv, TypeOK, LeasesMatch, HoldsLease, Busy
  <2>5. NewRows'
    BY <1>1, EventIds DEF Enqueue, Queued, OutboxInv, TypeOK, NewRows
  <2>6. QED
    BY <2>1, <2>2, <2>3, <2>4, <2>5 DEF OutboxInv
<1>2. CASE TimerRunsOut(e)
  <2>1. TypeOK'
    <3>1. row' \in [Events -> RowType]
      BY <1>2 DEF TimerRunsOut, OutboxInv, TypeOK, RowType
    <3>2. \A w \in Workers : worker[w] \in ClaimType
                             /\ [worker[w] EXCEPT !.live = FALSE] \in ClaimType
      BY DEF OutboxInv, TypeOK, ClaimType
    <3>3. worker' \in [Workers -> ClaimType]
      BY <1>2, <3>2 DEF TimerRunsOut
    <3>4. QED
      BY <1>2, <3>1, <3>3 DEF TimerRunsOut, OutboxInv, TypeOK
  <2>2. AttemptsCountClaims'
    BY <1>2, EventIds DEF TimerRunsOut, OutboxInv, TypeOK, AttemptsCountClaims
  <2>3. WorkersKnow'
    <3>1. \A f \in Events : row'[f].status = row[f].status
      BY <1>2 DEF TimerRunsOut, OutboxInv, TypeOK
    <3>2. \A v \in Workers : /\ worker'[v].pc = worker[v].pc
                             /\ worker'[v].event = worker[v].event
      BY <1>2 DEF TimerRunsOut, OutboxInv, TypeOK
    <3>3. \A v \in Workers : worker[v] = Free => worker'[v] = Free
      <4>1. \A v \in Workers : worker[v] = Free => worker[v].event # e
        BY EventIds DEF Free
      <4>2. QED
        BY <1>2, <4>1 DEF TimerRunsOut
    <3>4. out' = out
      BY <1>2 DEF TimerRunsOut
    <3>5. QED
      BY <3>1, <3>2, <3>3, <3>4 DEF OutboxInv, WorkersKnow, Busy
  <2>4. LeasesMatch'
    BY <1>2, EventIds DEF TimerRunsOut, OutboxInv, TypeOK, LeasesMatch, HoldsLease, Busy
  <2>5. NewRows'
    BY <1>2, EventIds DEF TimerRunsOut, NoRow, OutboxInv, TypeOK, NewRows
  <2>6. QED
    BY <2>1, <2>2, <2>3, <2>4, <2>5 DEF OutboxInv
<1>3. CASE Retry(e)
  <2>1. TypeOK'
    BY <1>3, EventIds, OutboxAssumption DEF Retry, Queued, OutboxInv, TypeOK, RowType
  <2>2. AttemptsCountClaims'
    BY <1>3, EventIds DEF Retry, NoRow, Queued, Free, OutboxInv, TypeOK, RowType, ClaimType,
        AttemptsCountClaims
  <2>3. WorkersKnow'
    BY <1>3, EventIds DEF Retry, Queued, OutboxInv, TypeOK, WorkersKnow, Busy
  <2>4. LeasesMatch'
    BY <1>3, EventIds DEF Retry, Queued, OutboxInv, TypeOK, LeasesMatch, HoldsLease, Busy
  <2>5. NewRows'
    BY <1>3, EventIds DEF Retry, Queued, OutboxInv, TypeOK, NewRows
  <2>6. QED
    BY <2>1, <2>2, <2>3, <2>4, <2>5 DEF OutboxInv
<1>4. QED
  BY <1>1, <1>2, <1>3

\* A free worker gives up an event that was claimed too often, or claims one.
LEMMA PollStep ==
  ASSUME OutboxInv, NEW w \in Workers, NEW e \in Events, GiveUpEmail(w, e) \/ ClaimEmail(w, e)
  PROVE  OutboxInv'
<1>1. CASE GiveUpEmail(w, e)
  <2>1. TypeOK'
    <3>1. [row[e] EXCEPT !.status = "failed", !.token = "none"] \in RowType
      BY DEF OutboxInv, TypeOK, RowType
    <3>2. QED
      BY <1>1, <3>1 DEF GiveUpEmail, OutboxInv, TypeOK
  <2>2. AttemptsCountClaims'
    BY <1>1, EventIds DEF GiveUpEmail, OutboxInv, TypeOK, AttemptsCountClaims
  <2>3. WorkersKnow'
    BY <1>1, EventIds DEF GiveUpEmail, OutboxInv, TypeOK, WorkersKnow, Busy
  <2>4. LeasesMatch'
    BY <1>1, EventIds
    DEF GiveUpEmail, Candidate, Claimable, OutboxInv, TypeOK, LeasesMatch, HoldsLease, Busy
  <2>5. NewRows'
    BY <1>1, EventIds DEF GiveUpEmail, OutboxInv, TypeOK, NewRows
  <2>6. QED
    BY <2>1, <2>2, <2>3, <2>4, <2>5 DEF OutboxInv
<1>2. CASE ClaimEmail(w, e)
  <2>1. TypeOK'
    <3>1. row[e].attempts + 1 \in 0..MaxAttempts
      BY <1>2, OutboxAssumption DEF ClaimEmail, Exhausted, OutboxInv, TypeOK, RowType
    <3>2. ClaimedRow(w, row[e]) \in RowType
      BY <3>1 DEF ClaimedRow, RowType
    <3>3. row' \in [Events -> RowType]
      BY <1>2, <3>2 DEF ClaimEmail, OutboxInv, TypeOK
    <3>4. worker' \in [Workers -> ClaimType]
      <4>1. row'[e] \in RowType
        BY <3>3
      <4>2. [pc |-> "sending", event |-> e, attempts |-> row'[e].attempts, live |-> TRUE]
              \in ClaimType
        BY <4>1, EventIds DEF RowType, ClaimType
      <4>3. QED
        BY <1>2, <4>2 DEF ClaimEmail, OutboxInv, TypeOK
    <3>5. claims' \in [Events -> 0..MaxAttempts]
      BY <1>2, <3>1 DEF ClaimEmail, OutboxInv, TypeOK, AttemptsCountClaims
    <3>6. QED
      BY <1>2, <3>3, <3>4, <3>5 DEF ClaimEmail, OutboxInv, TypeOK
  <2>2. AttemptsCountClaims'
    BY <1>2, EventIds, OutboxAssumption DEF ClaimEmail, ClaimedRow, OutboxInv,
        TypeOK, AttemptsCountClaims
  <2>3. WorkersKnow'
    BY <1>2, EventIds, OutboxAssumption DEF ClaimEmail, ClaimedRow, OutboxInv,
        TypeOK, WorkersKnow, Busy
  <2>4. LeasesMatch'
    BY <1>2, EventIds, OutboxAssumption
    DEF ClaimEmail, Candidate, Claimable, ClaimedRow, OutboxInv,
        TypeOK, LeasesMatch, HoldsLease, Busy
  <2>5. NewRows'
    BY <1>2, EventIds, OutboxAssumption DEF ClaimEmail, ClaimedRow, OutboxInv,
        TypeOK, NewRows
  <2>6. QED
    BY <2>1, <2>2, <2>3, <2>4, <2>5 DEF OutboxInv
<1>3. QED
  BY <1>1, <1>2

\* A worker hears from the SMTP server, records what it heard, or is lost.
LEMMA DeliverStep ==
  ASSUME OutboxInv, NEW w \in Workers, Delivering(w) \/ WorkerLost(w)
  PROVE  OutboxInv'
<1>1. CASE SmtpAccepts(w)
  <2>1. TypeOK'
    BY <1>1, EventIds DEF SmtpAccepts, OutboxInv, TypeOK, ClaimType
  <2>2. AttemptsCountClaims'
    BY <1>1, EventIds DEF SmtpAccepts, OutboxInv, TypeOK, AttemptsCountClaims
  <2>3. WorkersKnow'
    BY <1>1, EventIds DEF SmtpAccepts, OutboxInv, TypeOK, WorkersKnow, Busy
  <2>4. LeasesMatch'
    BY <1>1, EventIds DEF SmtpAccepts, OutboxInv, TypeOK, LeasesMatch, HoldsLease, Busy
  <2>5. NewRows'
    BY <1>1, EventIds DEF SmtpAccepts, OutboxInv, TypeOK, NewRows
  <2>6. QED
    BY <2>1, <2>2, <2>3, <2>4, <2>5 DEF OutboxInv
<1>2. CASE SmtpRaises(w)
  <2>1. TypeOK'
    <3>1. worker' \in [Workers -> ClaimType]
      BY <1>2 DEF SmtpRaises, OutboxInv, TypeOK, ClaimType
    <3>2. PICK copy \in BOOLEAN : out' = [out EXCEPT ![worker[w].event] = @ \/ copy]
      BY <1>2 DEF SmtpRaises
    <3>3. out \in [Events -> BOOLEAN]
      BY DEF OutboxInv, TypeOK
    <3>4. out' \in [Events -> BOOLEAN]
      BY <3>2, <3>3
    <3>5. QED
      BY <1>2, <3>1, <3>4 DEF SmtpRaises, OutboxInv, TypeOK
  <2>2. AttemptsCountClaims'
    BY <1>2, EventIds DEF SmtpRaises, OutboxInv, TypeOK, AttemptsCountClaims
  <2>3. WorkersKnow'
    BY <1>2, EventIds DEF SmtpRaises, OutboxInv, TypeOK, WorkersKnow, Busy
  <2>4. LeasesMatch'
    BY <1>2, EventIds DEF SmtpRaises, OutboxInv, TypeOK, LeasesMatch, HoldsLease, Busy
  <2>5. NewRows'
    BY <1>2, EventIds
    DEF SmtpRaises, NoRow, Free, OutboxInv, TypeOK, RowType, ClaimType, NewRows,
        WorkersKnow, Busy
  <2>6. QED
    BY <2>1, <2>2, <2>3, <2>4, <2>5 DEF OutboxInv
<1>3. CASE FinishSuccess(w)
  <2>1. TypeOK'
    <3>1. worker[w].event \in Events /\ worker[w] \in ClaimType
      BY <1>3 DEF FinishSuccess, OutboxInv, TypeOK, WorkersKnow, Busy
    <3>2. row[worker[w].event] \in RowType
      BY <3>1 DEF OutboxInv, TypeOK
    <3>3. [row[worker[w].event] EXCEPT !.status = "sent", !.token = "none", !.timer = "over"]
             \in RowType
      BY <3>1, <3>2 DEF RowType
    <3>4. row' \in [Events -> RowType]
      BY <1>3, <3>1, <3>3 DEF FinishSuccess, OutboxInv, TypeOK
    <3>5. Free \in ClaimType
      BY EventIds DEF Free, ClaimType
    <3>6. QED
      BY <1>3, <3>4, <3>5 DEF FinishSuccess, OutboxInv, TypeOK
  <2>2. AttemptsCountClaims'
    BY <1>3, EventIds DEF FinishSuccess, OutboxInv, TypeOK,
        AttemptsCountClaims
  <2>3. WorkersKnow'
    BY <1>3, EventIds DEF FinishSuccess, WorkersKnow, Busy, Free, OutboxInv, TypeOK
  <2>4. LeasesMatch'
    BY <1>3, EventIds DEF FinishSuccess, HoldsLease, Busy, Free, OutboxInv, TypeOK,
        LeasesMatch
  <2>5. NewRows'
    BY <1>3, EventIds DEF FinishSuccess, OutboxInv, TypeOK,
        NewRows
  <2>6. QED
    BY <2>1, <2>2, <2>3, <2>4, <2>5 DEF OutboxInv
<1>4. CASE FinishFailure(w)
  <2>1. TypeOK'
    <3>1. worker[w].event \in Events /\ worker[w] \in ClaimType
      BY <1>4 DEF FinishFailure, OutboxInv, TypeOK, WorkersKnow, Busy
    <3>2. row[worker[w].event] \in RowType
      BY <3>1 DEF OutboxInv, TypeOK
    <3>3. \A s \in {"failed", "pending"}, t \in {"over", "running"} :
            [status |-> s, attempts |-> worker[w].attempts, token |-> "none", timer |-> t]
              \in RowType
      BY <3>1, <3>2 DEF RowType, ClaimType
    <3>4. row' \in [Events -> RowType]
      BY <1>4, <3>1, <3>3 DEF FinishFailure, OutboxInv, TypeOK
    <3>5. Free \in ClaimType
      BY EventIds DEF Free, ClaimType
    <3>6. QED
      BY <1>4, <3>4, <3>5 DEF FinishFailure, OutboxInv, TypeOK
  <2>2. AttemptsCountClaims'
    <3>1. HoldsLease(w) => worker[w].attempts = row[worker[w].event].attempts
      BY <1>4 DEF FinishFailure, OutboxInv, LeasesMatch, Busy
    <3>2. \A e \in Events : row'[e].attempts = row[e].attempts
      <4>1. CASE ~HoldsLease(w)
        BY <1>4, <4>1 DEF FinishFailure
      <4>2. CASE HoldsLease(w)
        BY <1>4, <3>1, <4>2 DEF FinishFailure, OutboxInv, TypeOK
      <4>3. QED
        BY <4>1, <4>2
    <3>3. QED
      BY <1>4, <3>2 DEF FinishFailure, OutboxInv, AttemptsCountClaims
  <2>3. WorkersKnow'
    BY <1>4, EventIds DEF FinishFailure, WorkersKnow, Busy, Free, OutboxInv, TypeOK
  <2>4. LeasesMatch'
    BY <1>4, EventIds DEF FinishFailure, HoldsLease, Busy, Free, OutboxInv, TypeOK,
        LeasesMatch
  <2>5. NewRows'
    BY <1>4, EventIds
    DEF FinishFailure, HoldsLease, WorkersKnow, Busy, NoRow, Free, OutboxInv, TypeOK,
        RowType, ClaimType, NewRows
  <2>6. QED
    BY <2>1, <2>2, <2>3, <2>4, <2>5 DEF OutboxInv
<1>5. CASE WorkerLost(w)
  <2>1. TypeOK'
    BY <1>5, EventIds DEF WorkerLost, Free, OutboxInv, TypeOK, ClaimType
  <2>2. AttemptsCountClaims'
    BY <1>5, EventIds DEF WorkerLost, OutboxInv, TypeOK, AttemptsCountClaims
  <2>3. WorkersKnow'
    BY <1>5, EventIds DEF WorkerLost, Free, OutboxInv, TypeOK, WorkersKnow, Busy
  <2>4. LeasesMatch'
    BY <1>5, EventIds
    DEF WorkerLost, NoRow, Free, OutboxInv, TypeOK, RowType, ClaimType, WorkersKnow,
        LeasesMatch, HoldsLease, Busy
  <2>5. NewRows'
    BY <1>5, EventIds DEF WorkerLost, OutboxInv, TypeOK, NewRows
  <2>6. QED
    BY <2>1, <2>2, <2>3, <2>4, <2>5 DEF OutboxInv
<1>6. QED
  BY <1>1, <1>2, <1>3, <1>4, <1>5 DEF Delivering

\* The strengthening, as an invariant of the specification.
LEMMA OutboxInvariant == Spec => []OutboxInv
<1>1. OutboxInv /\ [Next]_vars => OutboxInv'
  <2> SUFFICES ASSUME OutboxInv, [Next]_vars PROVE OutboxInv'
    OBVIOUS
  <2>1. CASE UNCHANGED vars
    BY <2>1 DEF vars, OutboxInv, TypeOK, AttemptsCountClaims, WorkersKnow,
        LeasesMatch, NewRows,
        Busy, HoldsLease
  <2>2. CASE Next
    BY <2>2, RowStep, PollStep, DeliverStep DEF Next, Polling
  <2>3. QED
    BY <2>1, <2>2
<1>2. QED
  BY OutboxInit, <1>1, PTL DEF Spec

-------------------------------------------------------------------------------

\* Type correctness for any number of events, workers, attempts and retries.
THEOREM OutboxTypeCorrect == Spec => []TypeOK
<1>1. OutboxInv => TypeOK
  BY DEF OutboxInv
<1>2. QED
  BY OutboxInvariant, <1>1, PTL

\* However slow or mortal the workers are, no two of them send one event under
\* running leases: the token in the row is the token of the only running one.
THEOREM OneSender == Spec => []OneLiveSender
<1>1. OutboxInv => OneLiveSender
  BY DEF OutboxInv, LeasesMatch, OneLiveSender, HoldsLease
<1>2. QED
  BY OutboxInvariant, <1>1, PTL

\* The attempts of a row are the claims made of it, so that the limit on
\* attempts bounds the claims an event takes between two operator retries.
THEOREM EveryClaimCounts == Spec => []AttemptsCountClaims
<1>1. OutboxInv => AttemptsCountClaims
  BY DEF OutboxInv
<1>2. QED
  BY OutboxInvariant, <1>1, PTL

\* The outbox implements at-least-once delivery: leases, timers, lost workers
\* and late answers are invisible to it, or are one of its steps.
THEOREM DeliversAtLeastOnce == Spec => KeepsPromise
<1> DEFINE Abs(s) == IF s \in {"pending", "sending"} THEN "queued" ELSE s
<1> DEFINE State == [e \in Events |-> Abs(row[e].status)]
<1>1. Init => Promise!Init
  BY DEF Init, Promise!Init, NoRow
<1>2. OutboxInv /\ [Next]_vars => [Promise!Next]_(Promise!vars)
  <2> DEFINE Kept == State' = State /\ out' = out
  <2> SUFFICES ASSUME OutboxInv, [Next]_vars PROVE Promise!Next \/ Kept
    BY DEF Promise!vars
  <2>0. row \in [Events -> RowType] /\ out \in [Events -> BOOLEAN]
    BY DEF OutboxInv, TypeOK
  <2>1. CASE UNCHANGED vars
    BY <2>1 DEF vars
  <2>2. ASSUME NEW e \in Events, Enqueue(e)
        PROVE  Promise!Next
    <3>1. State[e] = "none" /\ State' = [State EXCEPT ![e] = "queued"]
      <4>1. row[e].status = "none" /\ row' = [row EXCEPT ![e] = Queued]
        BY <2>2 DEF Enqueue, NoRow
      <4>2. State[e] = "none"
        BY <4>1
      <4>3. State' = [State EXCEPT ![e] = "queued"]
        BY <2>0, <4>1 DEF Queued
      <4>4. QED
        BY <4>2, <4>3
    <3>2. QED
      BY <2>2, <3>1 DEF Enqueue, Promise!Next, Promise!Enqueue, Promise!Move
  <2>3. ASSUME NEW e \in Events, TimerRunsOut(e)
        PROVE  Kept
    BY <2>0, <2>3 DEF TimerRunsOut
  <2>4. ASSUME NEW e \in Events, Retry(e)
        PROVE  Promise!Next
    <3>1. State[e] = "failed" /\ State' = [State EXCEPT ![e] = "queued"]
      BY <2>0, <2>4 DEF Retry, Queued
    <3>2. QED
      BY <2>4, <3>1 DEF Retry, Promise!Next, Promise!Requeue, Promise!Move
  <2>5. ASSUME NEW w \in Workers, NEW e \in Events, GiveUpEmail(w, e)
        PROVE  Promise!Next
    <3>1. State[e] = "queued" /\ State' = [State EXCEPT ![e] = "failed"]
      BY <2>0, <2>5 DEF GiveUpEmail, Candidate, Claimable, RowType
    <3>2. QED
      BY <2>5, <3>1 DEF GiveUpEmail, Promise!Next, Promise!GiveUp, Promise!Move
  <2>6. ASSUME NEW w \in Workers, NEW e \in Events, ClaimEmail(w, e)
        PROVE  Kept
    BY <2>0, <2>6 DEF ClaimEmail, Candidate, Claimable, ClaimedRow
  <2>7. ASSUME NEW w \in Workers, Busy(w)
        PROVE  worker[w].event \in Events /\ State[worker[w].event] # "none"
    BY <2>7 DEF OutboxInv, WorkersKnow
  <2>8. ASSUME NEW w \in Workers, SmtpAccepts(w) \/ SmtpRaises(w)
        PROVE  Promise!Next \/ Kept
    <3>1. worker[w].event \in Events /\ State[worker[w].event] # "none" /\ row' = row
      BY <2>7, <2>8 DEF SmtpAccepts, SmtpRaises, Busy
    <3>2. out' = [out EXCEPT ![worker[w].event] = TRUE] \/ out' = out
      BY <2>0, <2>8, <3>1 DEF SmtpAccepts, SmtpRaises
    <3>3. QED
      BY <3>1, <3>2 DEF Promise!Next, Promise!Deliver
  <2>9. ASSUME NEW w \in Workers, FinishSuccess(w)
        PROVE  Promise!Next \/ Kept
    <3>1. worker[w].event \in Events /\ out[worker[w].event]
      BY <2>7, <2>9 DEF FinishSuccess, OutboxInv, WorkersKnow, Busy
    <3>2. CASE HoldsLease(w)
      <4>1. /\ State[worker[w].event] = "queued"
            /\ State' = [State EXCEPT ![worker[w].event] = "sent"]
        BY <2>0, <2>9, <3>1, <3>2 DEF FinishSuccess, HoldsLease
      <4>2. QED
        BY <2>9, <3>1, <4>1 DEF FinishSuccess, Promise!Next, Promise!MarkSent, Promise!Move
    <3>3. CASE ~HoldsLease(w)
      BY <2>9, <3>3 DEF FinishSuccess
    <3>4. QED
      BY <3>2, <3>3
  <2>10. ASSUME NEW w \in Workers, FinishFailure(w)
         PROVE  Promise!Next \/ Kept
    <3>1. worker[w].event \in Events
      BY <2>7, <2>10 DEF FinishFailure, Busy
    <3>2. CASE HoldsLease(w) /\ worker[w].attempts >= MaxAttempts
      <4>1. /\ State[worker[w].event] = "queued"
            /\ State' = [State EXCEPT ![worker[w].event] = "failed"]
        BY <2>0, <2>10, <3>1, <3>2 DEF FinishFailure, HoldsLease
      <4>2. QED
        BY <2>10, <3>1, <4>1 DEF FinishFailure, Promise!Next, Promise!GiveUp, Promise!Move
    <3>3. CASE HoldsLease(w) /\ ~(worker[w].attempts >= MaxAttempts)
      BY <2>0, <2>10, <3>1, <3>3 DEF FinishFailure, HoldsLease
    <3>4. CASE ~HoldsLease(w)
      BY <2>10, <3>4 DEF FinishFailure
    <3>5. QED
      BY <3>2, <3>3, <3>4
  <2>11. ASSUME NEW w \in Workers, WorkerLost(w)
         PROVE  Kept
    BY <2>11 DEF WorkerLost
  <2>12. QED
    BY <2>1, <2>2, <2>3, <2>4, <2>5, <2>6, <2>8, <2>9, <2>10, <2>11
    DEF Next, Polling, Delivering
<1>3. QED
  BY OutboxInvariant, <1>1, <1>2, PTL DEF Spec, KeepsPromise, Promise!Spec
===============================================================================
