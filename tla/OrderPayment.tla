----------------------------- MODULE OrderPayment -----------------------------
(***************************************************************************)
(* One order of the bakery with its invoice, its payments, its refund      *)
(* ledger, the Midtrans gateway behind it and everybody who acts on it:    *)
(* the buyer paying and cancelling, the seller moving the order, recording *)
(* cash and confirming refunds, the signed webhooks, the status refreshes, *)
(* the lifecycle worker and the reconciliation scripts.                    *)
(*                                                                         *)
(* A database transaction that holds the order row lock is one action. A   *)
(* call to the gateway made without that lock ends one action and its      *)
(* answer starts another, so everybody may act in between. A refused       *)
(* request and a skipped callback leave the state alone: they are          *)
(* stuttering steps and have no action.                                    *)
(*                                                                         *)
(* A definition whose name ends in _Faulty... is a deliberately wrong      *)
(* variant of the one that follows it; no action uses it. Each property is *)
(* checked to fail when such a variant takes the place of the original.    *)
(***************************************************************************)
EXTENDS OrderStates, Integers, FiniteSets, Functions

CONSTANTS Total,       \* invoice.total_tagihan, in units of money
          MaxPayments, \* bound: payment rows the order may get
          Keys,        \* bound: refund rows (each named by its gateway_ref)
          Workers,     \* lifecycle workers, one per server process
          MaxClock,    \* bound: the clock stops there
          ExpiresAt    \* payment_expires_at of an order placed by a customer

ASSUME ConstantsAssumption ==
    /\ Total \in Nat \ {0}
    /\ MaxPayments \in Nat \ {0}
    /\ IsFiniteSet(Keys)
    /\ MaxClock \in Nat \ {0}
    /\ ExpiresAt \in Nat \ {0}

Payments == 1..MaxPayments
NoDate == 0
Times == 1..MaxClock
Dates == 1..(MaxClock + 1)

VARIABLES
    status,        \* Order.status
    invoice,       \* Invoice.status
    createdVia,    \* "seller" (create_custom_order) or "customer"
    fulfillment,   \* Order.fulfillment_date, NoDate when null
    settlementDue, \* Order.settlement_due_date, NoDate when null
    reversals,     \* REVERSAL movements in the stock ledger for this order
    soldCount,     \* how often the order was added to Product.sold_count
    alerts,        \* overdue alerts sent (fulfillment_overdue_notified_at)
    payment,       \* payment rows
    refund,        \* refund_transactions rows by gateway_ref
    charge,        \* the POST /charge of each payment, as the server sees it;
                   \* "refused" once an answer with an error code was handled
    gateway,       \* what Midtrans holds for each payment
    gwRefund,      \* what Midtrans holds for each refund key
    cancel,        \* the request running cancel_order_by_customer
    scan,          \* the candidate each lifecycle worker is processing
    clock

orderVars == <<status, invoice, fulfillment, settlementDue, reversals, soldCount, alerts>>
gatewayVars == <<charge, gateway, gwRefund>>
processVars == <<cancel, scan>>
vars == <<orderVars, createdVia, payment, refund, gatewayVars, processVars, clock>>

NoPayment == [status |-> "none", type |-> "final", amount |-> 0, online |-> FALSE]
NoRefund == [status |-> "none", payment |-> 0, amount |-> 0, mode |-> "none"]
NoGwRefund == [status |-> "none", payment |-> 0, amount |-> 0]
Idle == [pc |-> "idle", attempt |-> 0, todo |-> {}, answer |-> "none"]
NoScan == [kind |-> "idle", at |-> 0, todo |-> {}]

Init ==
    /\ status = "pending"
    /\ invoice = "unpaid"
    /\ createdVia \in {"seller", "customer"}
    /\ fulfillment \in {NoDate} \cup {d \in Dates : d > 1}
    /\ settlementDue = NoDate
    /\ reversals = 0
    /\ soldCount = 0
    /\ alerts = 0
    /\ payment = [p \in Payments |-> NoPayment]
    /\ refund = [k \in Keys |-> NoRefund]
    /\ charge = [p \in Payments |-> "idle"]
    /\ gateway = [p \in Payments |-> "none"]
    /\ gwRefund = [k \in Keys |-> NoGwRefund]
    /\ cancel = Idle
    /\ scan = [w \in Workers |-> NoScan]
    /\ clock = 1

-------------------------------------------------------------------------------
(* Money: invoice_payment_totals, and what a refund may still take.        *)

WithStatus(pay, S) == {p \in Payments : pay[p].status \in S}
Amounts(rows, S) == SumFunction([i \in S |-> rows[i].amount])

Gross(pay) == Amounts(pay, WithStatus(pay, {"Success", "Refunded"}))
CompletedOf(ref, p) ==
    Amounts(ref, {k \in Keys : ref[k].status = "completed" /\ ref[k].payment = p})
RefundedTotal(ref) == Amounts(ref, {k \in Keys : ref[k].status = "completed"})
Net(pay, ref) == Gross(pay) - RefundedTotal(ref)

PendingOnline == WithStatus(payment, {"Pending"})
Paid == WithStatus(payment, {"Success", "Refunded"})
Remaining_FaultyIgnoresPaid == Total
Remaining == Total - Net(payment, refund)

\* A new payment row takes the next id.
IsNext(p) == payment[p].status = "none" /\ \A q \in 1..(p - 1) : payment[q].status # "none"

Least(a, b) == IF a <= b THEN a ELSE b
Positive(a) == IF a > 0 THEN a ELSE 0

\* The allocation loops of process_refund and update_order_status: payments in
\* id order, each giving what it has left until the request is met.
Allocation(left, requested) ==
    [p \in Payments |->
        Least(left[p], Positive(requested - SumFunctionOnSet(left, 1..(p - 1))))]

-------------------------------------------------------------------------------
(* Stock: _rollback_order_stock writes REVERSAL movements unless the ledger *)
(* already has them for this order.                                        *)
ReleaseStock_FaultyRepeats == reversals' = reversals + 1
ReleaseStock == reversals' = IF reversals > 0 THEN reversals ELSE 1

(* _apply_transaction_status: a verified gateway status for payment p.     *)
\* "challenge" stands for a capture that fraud screening has not accepted.
StatusMap(report) ==
    CASE report \in {"settlement", "challenge"} -> "Success"
      [] report \in {"deny", "cancel", "expire"} -> "Failed"
      [] OTHER -> "Pending"

ApplySuccess_FaultyOldTotal(p) ==
    /\ payment' = [payment EXCEPT ![p].status = "Success"]
    /\ invoice' = IF Net(payment, refund) >= Total THEN "paid" ELSE "partial"
    /\ UNCHANGED <<status, reversals>>

ApplySuccess(p) ==
    /\ payment' = [payment EXCEPT ![p].status = "Success"]
    /\ invoice' = IF Net(payment', refund) >= Total THEN "paid" ELSE "partial"
    /\ UNCHANGED <<status, reversals>>

ApplyFailure_FaultyKeepsStock(p) ==
    /\ payment' = [payment EXCEPT ![p].status = "Failed"]
    /\ IF WithStatus(payment, {"Success"}) = {} /\ status = "pending"
       THEN status' = "cancelled" /\ invoice' = "unpaid"
       ELSE UNCHANGED <<status, invoice>>
    /\ UNCHANGED reversals

ApplyFailure(p) ==
    /\ payment' = [payment EXCEPT ![p].status = "Failed"]
    /\ IF /\ WithStatus(payment, {"Success"}) = {}
          /\ status = "pending"
          /\ PendingOnline \ {p} = {}
       THEN /\ ReleaseStock
            /\ status' = "cancelled"
            /\ invoice' = "unpaid"
       ELSE UNCHANGED <<status, invoice, reversals>>

ApplyStatus(p, report) ==
    LET new == StatusMap(report) IN
    IF PaymentTransition(payment[p].status, new)
    THEN (new = "Success" /\ ApplySuccess(p)) \/ (new = "Failed" /\ ApplyFailure(p))
    ELSE UNCHANGED <<payment, status, invoice, reversals>>

\* A notification, or the answer to a status query, may be old by the time it
\* is applied: the gateway once said "pending", and says gateway[p] now.
Reports(p) == IF gateway[p] \in {"none", "rejected"} THEN {} ELSE {"pending", gateway[p]}

Final_FaultyIgnoresFraud(report) == report # "pending"

\* The handlers stop at "pending" and at a capture whose fraud_status is not
\* "accept" before they apply anything.
Final(report) == report \notin {"pending", "challenge"}

-------------------------------------------------------------------------------
(* Payment creation: create_midtrans_charge.                               *)

PaymentExpired ==
    createdVia = "customer" /\ invoice = "unpaid" /\ clock >= ExpiresAt
SettlementPassed ==
    invoice = "partial" /\ settlementDue # NoDate /\ clock >= settlementDue

ChargeAmount(type) == IF type = "dp" THEN Total \div 2 ELSE Remaining

ChargeAllowed_FaultyNoPendingCheck(type) ==
    /\ status \notin ClosedToPayment
    /\ ~PaymentExpired
    /\ ~(type = "final" /\ SettlementPassed)

ChargeAllowed(type) ==
    /\ status \notin ClosedToPayment
    /\ ~PaymentExpired
    /\ ~(type = "final" /\ SettlementPassed)
    /\ PendingOnline = {}
    /\ type = "dp" => \A q \in Paid : payment[q].type # "dp"

\* The reservation is committed before the gateway is called.
CreateCharge(p, type) ==
    /\ ChargeAllowed(type)
    /\ IsNext(p)
    /\ \E amount \in 1..Total :
          /\ amount = ChargeAmount(type)
          /\ amount <= Remaining
          /\ type = "dp" => 2 * amount = Total
          /\ payment' = [payment EXCEPT ![p] =
                [status |-> "Pending", type |-> type, amount |-> amount, online |-> TRUE]]
    /\ settlementDue' = IF type = "dp" /\ fulfillment # NoDate THEN fulfillment - 1
                        ELSE IF type = "final" /\ invoice = "unpaid" THEN NoDate
                        ELSE settlementDue
    /\ charge' = [charge EXCEPT ![p] = "waiting"]
    /\ UNCHANGED <<status, invoice, fulfillment, reversals, soldCount, alerts, createdVia,
                   refund, gateway, gwRefund, processVars, clock>>

ChargeAccepted_FaultyWritesPending(p) ==
    /\ charge[p] = "waiting"
    /\ gateway[p] \notin {"none", "rejected"}
    /\ payment' = [payment EXCEPT ![p].status = "Pending"]
    /\ charge' = [charge EXCEPT ![p] = "idle"]
    /\ UNCHANGED <<orderVars, createdVia, refund, gateway, gwRefund, processVars, clock>>

\* 2xx answer: the instructions are stored, the payment stays Pending.
ChargeAccepted(p) ==
    /\ charge[p] = "waiting"
    /\ gateway[p] \notin {"none", "rejected"}
    /\ charge' = [charge EXCEPT ![p] = "idle"]
    /\ UNCHANGED <<orderVars, createdVia, payment, refund, gateway, gwRefund, processVars, clock>>

\* An answer whose body carries a 4xx or 5xx code, often under HTTP 200: the
\* payment is set to Failed without a lock and without reading it again, and
\* order and invoice are left alone. After a 4xx the gateway holds nothing;
\* after a 5xx it may hold the charge, alive. Assumed of the gateway: a charge
\* it answers with an error is not paid before that answer is handled.
ChargeRejected(p) ==
    /\ charge[p] = "waiting"
    /\ gateway[p] \notin {"none", "challenge", "settlement"}
    /\ payment' = [payment EXCEPT ![p].status = "Failed"]
    /\ charge' = [charge EXCEPT ![p] = "refused"]
    /\ UNCHANGED <<orderVars, createdVia, refund, gateway, gwRefund, processVars, clock>>

\* Time-out, connection error, HTTP status 500 or more, a body without an error
\* code, or a server crash: the reservation is kept. The request may still be
\* under way to the gateway.
ChargeUncertain(p) ==
    /\ charge[p] = "waiting"
    /\ charge' = [charge EXCEPT ![p] = IF gateway[p] = "none" THEN "abandoned" ELSE "idle"]
    /\ UNCHANGED <<orderVars, createdVia, payment, refund, gateway, gwRefund, processVars, clock>>

-------------------------------------------------------------------------------
(* The gateway, as this code relies on it (external).                      *)

GatewayTakesCharge(p) ==
    /\ charge[p] \in {"waiting", "abandoned"}
    /\ gateway[p] = "none"
    /\ \E g \in {"pending", "rejected"} : gateway' = [gateway EXCEPT ![p] = g]
    /\ charge' = [charge EXCEPT ![p] = IF @ = "waiting" THEN @ ELSE "idle"]
    /\ UNCHANGED <<orderVars, createdVia, payment, refund, gwRefund, processVars, clock>>

\* The request never reached the gateway.
ChargeLost(p) ==
    /\ charge[p] = "abandoned"
    /\ gateway[p] = "none"
    /\ charge' = [charge EXCEPT ![p] = "idle"]
    /\ UNCHANGED <<orderVars, createdVia, payment, refund, gateway, gwRefund, processVars, clock>>

\* A live transaction is paid, captured under review, denied, cancelled or
\* expires; a reviewed capture is accepted or denied.
GatewayResolves(p) ==
    /\ \/ gateway[p] = "pending"
          /\ \E g \in {"settlement", "challenge", "deny", "cancel", "expire"} :
                gateway' = [gateway EXCEPT ![p] = g]
       \/ gateway[p] = "challenge"
          /\ \E g \in {"settlement", "deny", "cancel"} : gateway' = [gateway EXCEPT ![p] = g]
    /\ UNCHANGED <<orderVars, createdVia, payment, refund, charge, gwRefund, processVars, clock>>

\* A settled transaction can be refunded up to its amount.
GatewayCanRefund(p, amount) ==
    /\ gateway[p] = "settlement"
    /\ amount + Amounts(gwRefund, {k \in Keys : gwRefund[k].payment = p}) <= payment[p].amount

GatewayRefunding(p) == \E k \in Keys : gwRefund[k].status = "accepted" /\ gwRefund[k].payment = p

\* A refund the database has no row for: made in the Midtrans dashboard, or by
\* a request whose transaction was rolled back after its POST.
GatewayOwnRefund(p, k, amount) ==
    /\ gwRefund[k] = NoGwRefund
    /\ refund[k] = NoRefund
    /\ GatewayCanRefund(p, amount)
    /\ gwRefund' = [gwRefund EXCEPT ![k] = [status |-> "accepted", payment |-> p, amount |-> amount]]
    /\ UNCHANGED <<orderVars, createdVia, payment, refund, charge, gateway, processVars, clock>>

\* The bank confirms an accepted refund, or the gateway drops it.
GatewaySettlesRefund(k) ==
    /\ gwRefund[k].status = "accepted"
    /\ \/ gwRefund' = [gwRefund EXCEPT ![k].status = "confirmed"]
       \/ gwRefund' = [gwRefund EXCEPT ![k] = NoGwRefund]
    /\ UNCHANGED <<orderVars, createdVia, payment, refund, charge, gateway, processVars, clock>>

-------------------------------------------------------------------------------
(* Status notifications and queries: process_midtrans_webhook and          *)
(* refresh_if_pending. Both lock the order, then the payment, and recheck. *)

Webhook(p) ==
    /\ payment[p].status \notin PaymentTerminal
    /\ \E report \in Reports(p) : Final(report) /\ ApplyStatus(p, report)
    /\ UNCHANGED <<fulfillment, settlementDue, soldCount, alerts, createdVia, refund,
                   gatewayVars, processVars, clock>>

Refresh(p) ==
    /\ payment[p].status = "Pending"
    /\ \E report \in Reports(p) : Final(report) /\ ApplyStatus(p, report)
    /\ UNCHANGED <<fulfillment, settlementDue, soldCount, alerts, createdVia, refund,
                   gatewayVars, processVars, clock>>

-------------------------------------------------------------------------------
(* The buyer cancels: cancel_order_by_customer. Up to three rounds; each    *)
(* checks the order under its lock, releases the lock to settle the pending *)
(* payments with the gateway (cancel_pending_midtrans_payment), and checks  *)
(* again.                                                                  *)

CancelDone(p) ==
    LET rest == cancel.todo \ {p} IN
    IF rest # {} THEN [cancel EXCEPT !.pc = "status", !.todo = rest, !.answer = "none"]
    ELSE IF cancel.attempt = 3 THEN Idle
    ELSE [cancel EXCEPT !.pc = "check", !.todo = {}, !.answer = "none"]

CancelCheck ==
    /\ cancel.pc \in {"idle", "check"}
    /\ IF status # "pending" \/ invoice # "unpaid"
       THEN cancel' = Idle /\ UNCHANGED <<status, reversals>>
       ELSE IF PendingOnline # {}
       THEN /\ cancel' = [pc |-> "status", attempt |-> cancel.attempt + 1,
                          todo |-> PendingOnline, answer |-> "none"]
            /\ UNCHANGED <<status, reversals>>
       ELSE IF Paid # {}
       THEN cancel' = Idle /\ UNCHANGED <<status, reversals>>
       ELSE cancel' = Idle /\ status' = "cancelled" /\ ReleaseStock
    /\ UNCHANGED <<invoice, fulfillment, settlementDue, soldCount, alerts, createdVia, payment,
                   refund, gatewayVars, scan, clock>>

\* _reconcile_midtrans_payment_for_cancel: query, then lock and recheck. An
\* unreachable gateway or a capture under review raises and ends the request.
Reconcile(p, stillPending) ==
    \/ /\ payment[p].status # "Pending"
       /\ cancel' = CancelDone(p)
       /\ UNCHANGED <<payment, status, invoice, reversals>>
    \/ /\ payment[p].status = "Pending"
       /\ \E report \in Reports(p) : Final(report) /\ ApplyStatus(p, report)
       /\ cancel' = CancelDone(p)
    \/ /\ payment[p].status = "Pending"
       /\ cancel' = Idle \/ ("pending" \in Reports(p) /\ cancel' = stillPending)
       /\ UNCHANGED <<payment, status, invoice, reversals>>

CancelStatus(p) ==
    /\ cancel.pc = "status"
    /\ p \in cancel.todo
    /\ Reconcile(p, [cancel EXCEPT !.pc = "post"])
    /\ UNCHANGED <<fulfillment, settlementDue, soldCount, alerts, createdVia, refund,
                   gatewayVars, scan, clock>>

CancelPost_FaultyTrustsTimeout(p) ==
    /\ cancel.pc = "post"
    /\ p \in cancel.todo
    /\ cancel' = [cancel EXCEPT !.pc = "posted", !.answer = "cancel"]
    /\ UNCHANGED <<orderVars, createdVia, payment, refund, gatewayVars, scan, clock>>

\* POST /cancel. The answer may be lost after the gateway has cancelled.
CancelPost(p) ==
    /\ cancel.pc = "post"
    /\ p \in cancel.todo
    /\ IF payment[p].status # "Pending"
       THEN cancel' = CancelDone(p) /\ UNCHANGED gateway
       ELSE \/ /\ gateway[p] \in {"pending", "challenge"}
               /\ gateway' = [gateway EXCEPT ![p] = "cancel"]
               /\ \E a \in {"cancel", "unknown"} :
                     cancel' = [cancel EXCEPT !.pc = "posted", !.answer = a]
            \/ /\ cancel' = [cancel EXCEPT !.pc = "posted", !.answer = "unknown"]
               /\ UNCHANGED gateway
    /\ UNCHANGED <<orderVars, createdVia, payment, refund, charge, gwRefund, scan, clock>>

\* The answer is applied under the lock; without a usable one the status is
\* queried again and a payment that is still pending keeps the order active.
CancelApply(p) ==
    /\ cancel.pc = "posted"
    /\ p \in cancel.todo
    /\ IF cancel.answer = "cancel"
       THEN /\ cancel' = CancelDone(p)
            /\ IF payment[p].status = "Pending" THEN ApplyStatus(p, "cancel")
               ELSE UNCHANGED <<payment, status, invoice, reversals>>
       ELSE Reconcile(p, Idle)
    /\ UNCHANGED <<fulfillment, settlementDue, soldCount, alerts, createdVia, refund,
                   gatewayVars, scan, clock>>

-------------------------------------------------------------------------------
(* The lifecycle worker: candidates are selected in one transaction and     *)
(* each is rechecked under its lock in another, with the clock of the       *)
(* selection.                                                              *)

StartScan(w, kind, todo) ==
    /\ scan[w].kind = "idle"
    /\ scan' = [scan EXCEPT ![w] = [kind |-> kind, at |-> clock, todo |-> todo]]
    /\ UNCHANGED <<orderVars, createdVia, payment, refund, gatewayVars, cancel, clock>>

SettlementExpired(at) ==
    settlementDue # NoDate /\ settlementDue < at /\ status \in {"pending", "in_process"}

UnpaidExpired(at) ==
    status = "pending" /\ createdVia # "seller" /\ invoice = "unpaid" /\ ExpiresAt <= at

Overdue_FaultyForgetsAlert(at) ==
    /\ fulfillment # NoDate /\ fulfillment <= at
    /\ status \in {"pending", "in_process", "ready"} /\ invoice \in {"partial", "paid"}

Overdue(at) ==
    /\ fulfillment # NoDate /\ fulfillment <= at /\ alerts = 0
    /\ status \in {"pending", "in_process", "ready"} /\ invoice \in {"partial", "paid"}

ScanSettlements(w) == SettlementExpired(clock) /\ StartScan(w, "settlement", {})
ScanUnpaid(w) == UnpaidExpired(clock) /\ StartScan(w, "unpaid", PendingOnline)
ScanOverdue(w) == Overdue(clock) /\ StartScan(w, "overdue", {})

SettlementLapsed_FaultyNoInvoiceCheck(at) == SettlementExpired(at) /\ PendingOnline = {}

\* check_expired_settlements, one candidate: the recheck under the lock.
SettlementLapsed(at) == SettlementExpired(at) /\ invoice = "partial" /\ PendingOnline = {}

ExpireSettlement(w) ==
    /\ scan[w].kind = "settlement"
    /\ scan' = [scan EXCEPT ![w] = NoScan]
    /\ IF SettlementLapsed(scan[w].at)
       THEN ReleaseStock /\ status' = "cancelled_settlement_expired"
       ELSE UNCHANGED <<status, reversals>>
    /\ UNCHANGED <<invoice, fulfillment, settlementDue, soldCount, alerts, createdVia, payment,
                   refund, gatewayVars, cancel, clock>>

\* refresh_if_pending for each pending payment of an unpaid candidate, before
\* the recheck: the answer is final, or nothing is learnt.
WorkerRefresh(w, p) ==
    /\ scan[w].kind = "unpaid"
    /\ p \in scan[w].todo
    /\ scan' = [scan EXCEPT ![w].todo = @ \ {p}]
    /\ \/ /\ payment[p].status = "Pending"
          /\ \E report \in Reports(p) : Final(report) /\ ApplyStatus(p, report)
       \/ UNCHANGED <<payment, status, invoice, reversals>>
    /\ UNCHANGED <<fulfillment, settlementDue, soldCount, alerts, createdVia, refund,
                   gatewayVars, cancel, clock>>

StillUnpaid_FaultyIgnoresPending(at) ==
    UnpaidExpired(at) /\ WithStatus(payment, {"Success"}) = {}
StillUnpaid_FaultyAnyPayment(at) ==
    UnpaidExpired(at) /\ \A p \in Payments : payment[p].status = "none"

\* _expire_unpaid_candidates, one candidate: the recheck under the lock.
StillUnpaid(at) ==
    UnpaidExpired(at) /\ PendingOnline = {} /\ WithStatus(payment, {"Success"}) = {}

ExpireUnpaid(w) ==
    /\ scan[w].kind = "unpaid"
    /\ scan[w].todo = {}
    /\ scan' = [scan EXCEPT ![w] = NoScan]
    /\ IF StillUnpaid(scan[w].at)
       THEN ReleaseStock /\ status' = "cancelled"
       ELSE UNCHANGED <<status, reversals>>
    /\ UNCHANGED <<invoice, fulfillment, settlementDue, soldCount, alerts, createdVia, payment,
                   refund, gatewayVars, cancel, clock>>

\* _notify_overdue_candidates, one candidate.
AlertOverdue(w) ==
    /\ scan[w].kind = "overdue"
    /\ scan' = [scan EXCEPT ![w] = NoScan]
    /\ alerts' = IF Overdue(scan[w].at) THEN alerts + 1 ELSE alerts
    /\ UNCHANGED <<status, invoice, fulfillment, settlementDue, reversals, soldCount, createdVia,
                   payment, refund, gatewayVars, cancel, clock>>

-------------------------------------------------------------------------------
(* The seller.                                                             *)

\* process_manual_payment: cash or a transfer, settled at once.
ManualPayment(p, amount) ==
    /\ status \notin ClosedToPayment
    /\ PendingOnline = {}
    /\ amount <= Remaining
    /\ IsNext(p)
    /\ payment' = [payment EXCEPT ![p] =
            [status |-> "Success", type |-> "final", amount |-> amount, online |-> FALSE]]
    /\ invoice' = IF Net(payment', refund) >= Total THEN "paid"
                  ELSE IF Net(payment', refund) > 0 THEN "partial" ELSE "unpaid"
    /\ UNCHANGED <<status, fulfillment, settlementDue, reversals, soldCount, alerts, createdVia,
                   refund, gatewayVars, processVars, clock>>

EnoughPaid_FaultyCountsReservations ==
    2 * (Net(payment, refund) + Amounts(payment, PendingOnline)) >= Total

\* Production starts once half of the bill has been received.
EnoughPaid == 2 * Net(payment, refund) >= Total

NothingReceived_FaultyInvoiceOnly == invoice # "paid"

\* An order with money received is closed through the refund flow only.
NothingReceived == Paid = {}

\* update_order_status, every target but "refunded".
UpdateStatus(new) ==
    /\ OrderTransition(status, new)
    /\ new = "in_process" => EnoughPaid
    /\ new = "cancelled" => PendingOnline = {} /\ NothingReceived
    /\ IF new = "cancelled" THEN ReleaseStock ELSE UNCHANGED reversals
    /\ status' = new
    /\ soldCount' = IF status \notin CountedSale /\ new \in CountedSale
                    THEN soldCount + 1 ELSE soldCount
    /\ UNCHANGED <<invoice, fulfillment, settlementDue, alerts, createdVia, payment, refund,
                   gatewayVars, processVars, clock>>

\* update_order_fulfillment_date: a later day; the settlement deadline stays.
UpdateFulfillmentDate(date) ==
    /\ status \notin OrderTerminal \cup {"cancelled"}
    /\ date > clock
    /\ fulfillment' = date
    /\ UNCHANGED <<status, invoice, settlementDue, reversals, soldCount, alerts, createdVia,
                   payment, refund, gatewayVars, processVars, clock>>

-------------------------------------------------------------------------------
(* Refunds: the ledger.                                                    *)

PendingRefunds == {k \in Keys : refund[k].status = "pending"}
FreeKeys == {k \in Keys : refund[k] = NoRefund /\ gwRefund[k] = NoGwRefund}

\* What process_refund may still take from each settled payment.
Refundable ==
    [p \in Payments |-> IF p \notin Paid THEN 0
        ELSE Positive(payment[p].amount
             - Amounts(refund, {k \in Keys : refund[k].payment = p}))]

\* What is left of each settled payment once completed refunds are taken off.
NotRefunded ==
    [p \in Payments |-> IF p \notin Paid THEN 0
        ELSE payment[p].amount - CompletedOf(refund, p)]

\* One fresh row for each payment that gives a part.
FreshRows(part, key) ==
    /\ \A p \in Payments : part[p] > 0 => key[p] \in FreeKeys
    /\ \A p, q \in Payments : part[p] > 0 /\ part[q] > 0 /\ p # q => key[p] # key[q]

NewRefunds(part, key, state, mode) ==
    [k \in Keys |->
        IF \E p \in Payments : part[p] > 0 /\ key[p] = k
        THEN LET p == CHOOSE q \in Payments : part[q] > 0 /\ key[q] = k IN
             [status |-> state, payment |-> p, amount |-> part[p], mode |-> mode[p]]
        ELSE refund[k]]

Restated_FaultyAnyRefund(pay, ref, S) ==
    [p \in Payments |->
        IF p \in S
        THEN [pay[p] EXCEPT !.status = IF CompletedOf(ref, p) > 0 THEN "Refunded" ELSE "Success"]
        ELSE pay[p]]

\* _refresh_refund_payment_state, for payment p over the ledger ref.
Restated(pay, ref, S) ==
    [p \in Payments |->
        IF p \in S
        THEN [pay[p] EXCEPT !.status =
                IF CompletedOf(ref, p) = pay[p].amount THEN "Refunded" ELSE "Success"]
        ELSE pay[p]]

InBounds(pay, ref) == Net(pay, ref) \in 0..Total
FullyRefunded(pay, ref) == Gross(pay) > 0 /\ RefundedTotal(ref) = Gross(pay)

InvoiceAfter_FaultyNeverRefunded(pay, ref) ==
    IF Net(pay, ref) >= Total THEN "paid"
    ELSE IF Net(pay, ref) > 0 THEN "partial" ELSE "unpaid"

InvoiceAfter(pay, ref) ==
    IF FullyRefunded(pay, ref) THEN "refunded"
    ELSE IF Net(pay, ref) >= Total THEN "paid"
    ELSE IF Net(pay, ref) > 0 THEN "partial" ELSE "unpaid"

RefreshRefundState(p) ==
    LET full == FullyRefunded(payment', refund') IN
    /\ CompletedOf(refund', p) <= payment[p].amount
    /\ payment' = Restated(payment, refund', {p})
    /\ InBounds(payment', refund')
    /\ full => status = "refunded" \/ OrderTransition(status, "refunded")
    /\ invoice' = InvoiceAfter(payment', refund')
    /\ status' = IF full THEN "refunded" ELSE status
    /\ IF full /\ status \notin {"cancelled", "refunded"} THEN ReleaseStock
       ELSE UNCHANGED reversals

-------------------------------------------------------------------------------
(* Refunds: requested. cancel_and_refund_order and process_refund. The     *)
(* gateway is called for each allocation while the rows are locked.        *)

RefundAnswers(p, mode, took, amount) ==
    /\ mode = "auto" => took
    /\ mode = "in_progress" => ~took /\ GatewayRefunding(p)
    /\ mode \in {"auto", "in_progress"} \/ took => payment[p].online
    /\ took => GatewayCanRefund(p, amount)

\* Each payment that gives a part gets a row with its own key, and one request
\* to the gateway. Mode "manual": no answer, or a refusal. Without an answer the
\* gateway may have taken the refund (p \in taken).
SendRefunds(part, key, taken, mode) ==
    /\ FreshRows(part, key)
    /\ \A p \in Payments :
          IF part[p] > 0 THEN RefundAnswers(p, mode[p], p \in taken, part[p])
          ELSE p \notin taken /\ mode[p] = "manual"
    /\ refund' = NewRefunds(part, key, "pending", mode)
    /\ gwRefund' = [k \in Keys |->
          IF \E p \in taken : key[p] = k
          THEN [status |-> "accepted", payment |-> refund'[k].payment, amount |-> refund'[k].amount]
          ELSE gwRefund[k]]

RequestRefund ==
    /\ status \notin OrderTerminal
    /\ invoice \notin {"unpaid", "refunded"}
    /\ PendingOnline = {}
    /\ \E requested \in 1..Total, part \in [Payments -> 0..Total] :
          /\ requested <= SumFunction(Refundable)
          /\ part = Allocation(Refundable, requested)
          /\ \E key \in [Payments -> Keys], taken \in SUBSET Payments,
                mode \in [Payments -> {"auto", "in_progress", "manual"}] :
                SendRefunds(part, key, taken, mode)
    /\ IF status # "cancelled" THEN ReleaseStock ELSE UNCHANGED reversals
    /\ status' = "cancelled"
    /\ UNCHANGED <<invoice, fulfillment, settlementDue, soldCount, alerts, createdVia, payment,
                   charge, gateway, processVars, clock>>

-------------------------------------------------------------------------------
(* Refunds: confirmed by the gateway. complete_refund_notification for an   *)
(* entry that carries key k, with or without a bank_confirmed_at. A          *)
(* notification listing several refunds is that many steps.                *)

\* Pending rows an entry with an unknown key may take over.
Bindable(p, amount) ==
    {k \in Keys : refund[k] = [status |-> "pending", payment |-> p, amount |-> amount,
                               mode |-> "in_progress"]}

Recorded(row, confirmed) == IF confirmed THEN [row EXCEPT !.status = "completed"] ELSE row

RecordRefund(p, k, confirmed) ==
    \/ /\ refund[k] # NoRefund
       /\ refund[k].payment = p
       /\ refund[k].amount = gwRefund[k].amount
       /\ refund' = [refund EXCEPT ![k] = Recorded(@, confirmed)]
    \/ /\ refund[k] = NoRefund
       /\ Bindable(p, gwRefund[k].amount) = {}
       /\ refund' = [refund EXCEPT ![k] = Recorded([status |-> "pending", payment |-> p,
                            amount |-> gwRefund[k].amount, mode |-> "midtrans"], confirmed)]
    \/ /\ refund[k] = NoRefund
       /\ \E j \in Bindable(p, gwRefund[k].amount) :
             refund' = [refund EXCEPT ![k] = Recorded(refund[j], confirmed), ![j] = NoRefund]

\* What the gateway reports of refund k, possibly as it was before.
RefundReport(p, k, confirmed) ==
    /\ gwRefund[k].payment = p
    /\ confirmed => gwRefund[k].status = "confirmed"

CompleteRefund(p, k, confirmed) ==
    /\ RefundReport(p, k, confirmed)
    /\ RecordRefund(p, k, confirmed)
    /\ RefreshRefundState(p)
    /\ UNCHANGED <<fulfillment, settlementDue, soldCount, alerts, createdVia, gatewayVars,
                   processVars, clock>>

\* process_midtrans_webhook, transaction_status "refund" or "partial_refund".
RefundWebhook(p, k) == \E confirmed \in BOOLEAN : CompleteRefund(p, k, confirmed)

\* reconcile_midtrans_refunds --apply: the same entries, from a status query;
\* a payment already refunded only takes confirmed ones.
ReconcileRefund(p, k) ==
    /\ \E j \in PendingRefunds : refund[j].payment = p
    /\ \E confirmed \in BOOLEAN :
          /\ payment[p].status = "Refunded" => confirmed
          /\ CompleteRefund(p, k, confirmed)

\* retry_pending_midtrans_refunds --apply for a row the gateway is expected to
\* process: reconcile it if the gateway lists it, else send it again under the
\* same key. The outcomes are an acceptance (whose body is recorded), an
\* acceptance whose answer is lost, 416, 412, and errors that change nothing.
RetryRefund(p, k) ==
    /\ payment[p].status = "Success"
    /\ refund[k].payment = p
    /\ refund[k].status = "pending"
    /\ refund[k].mode \in {"auto", "in_progress"}
    /\ \/ \E confirmed \in BOOLEAN : CompleteRefund(p, k, confirmed)
       \/ /\ \A j \in Keys : gwRefund[j].payment # p
          /\ \/ /\ GatewayCanRefund(p, refund[k].amount)
                /\ gwRefund' = [gwRefund EXCEPT ![k] =
                      [status |-> "accepted", payment |-> p, amount |-> refund[k].amount]]
                /\ UNCHANGED refund
                /\ UNCHANGED <<payment, status, invoice, reversals>> \/ RefreshRefundState(p)
             \/ /\ \E mode \in {"in_progress", "manual"} :
                      refund' = [refund EXCEPT ![k].mode = mode]
                /\ UNCHANGED <<gwRefund, payment, status, invoice, reversals>>
          /\ UNCHANGED <<fulfillment, settlementDue, soldCount, alerts, createdVia, charge,
                         gateway, processVars, clock>>

-------------------------------------------------------------------------------
(* Refunds: confirmed by the seller. update_order_status to "refunded"      *)
(* completes every pending row or, when there is none, records what is left *)
(* of every settled payment; then every payment of the invoice is restated, *)
(* one by one, in no particular order.                                     *)

Rows == {p \in Payments : payment[p].status # "none"}

Orderings == {o \in [1..Cardinality(Rows) -> Rows] : \A i, j \in DOMAIN o : o[i] = o[j] => i = j}

ConfirmPending_FaultyAutoOnly ==
    /\ PendingRefunds # {}
    /\ \A k \in PendingRefunds : refund[k].mode # "auto"
    /\ refund' = [k \in Keys |-> Recorded(refund[k], k \in PendingRefunds)]

ConfirmPending ==
    /\ PendingRefunds # {}
    /\ \A k \in PendingRefunds : refund[k].mode \notin {"auto", "in_progress"}
    /\ refund' = [k \in Keys |-> Recorded(refund[k], k \in PendingRefunds)]

ConfirmRest ==
    /\ PendingRefunds = {}
    /\ Gross(payment) > RefundedTotal(refund)
    /\ \E part \in [Payments -> 0..Total], key \in [Payments -> Keys] :
          /\ part = Allocation(NotRefunded, Gross(payment) - RefundedTotal(refund))
          /\ FreshRows(part, key)
          /\ refund' = NewRefunds(part, key, "completed", [p \in Payments |-> "seller"])

ConfirmRefund ==
    /\ OrderTransition(status, "refunded")
    /\ ConfirmPending \/ ConfirmRest
    /\ \A p \in Rows : CompletedOf(refund', p) <= payment[p].amount
    /\ payment' = Restated(payment, refund', Rows)
    /\ \E o \in Orderings :
          LET after(i) == Restated(payment, refund', {o[j] : j \in 1..i}) IN
          /\ \A i \in DOMAIN o : InBounds(after(i), refund')
          /\ status' = IF \E i \in DOMAIN o : FullyRefunded(after(i), refund')
                       THEN "refunded" ELSE status
    /\ invoice' = InvoiceAfter(payment', refund')
    /\ IF status # "cancelled" THEN ReleaseStock ELSE UNCHANGED reversals
    /\ UNCHANGED <<fulfillment, settlementDue, soldCount, alerts, createdVia, gatewayVars,
                   processVars, clock>>

-------------------------------------------------------------------------------
\* A server restart: the requests and the worker pass in memory are gone, and
\* nobody waits for the charge answers any more.
Restart ==
    /\ cancel' = Idle
    /\ scan' = [w \in Workers |-> NoScan]
    /\ charge' = [p \in Payments |->
            IF charge[p] # "waiting" THEN charge[p]
            ELSE IF gateway[p] = "none" THEN "abandoned" ELSE "idle"]
    /\ UNCHANGED <<orderVars, createdVia, payment, refund, gateway, gwRefund, clock>>

Tick ==
    /\ clock < MaxClock
    /\ clock' = clock + 1
    /\ UNCHANGED <<orderVars, createdVia, payment, refund, gatewayVars, processVars>>

Charging(p) ==
    \/ \E type \in {"dp", "final"} : CreateCharge(p, type)
    \/ ChargeAccepted(p) \/ ChargeRejected(p) \/ ChargeUncertain(p)
    \/ GatewayTakesCharge(p) \/ ChargeLost(p) \/ GatewayResolves(p)
    \/ Webhook(p) \/ Refresh(p)

Cancelling == CancelCheck \/ \E p \in Payments : CancelStatus(p) \/ CancelPost(p) \/ CancelApply(p)

Working(w) ==
    \/ ScanSettlements(w) \/ ScanUnpaid(w) \/ ScanOverdue(w)
    \/ \E p \in Payments : WorkerRefresh(w, p)
    \/ ExpireSettlement(w) \/ ExpireUnpaid(w) \/ AlertOverdue(w)

Selling ==
    \/ \E p \in Payments, amount \in 1..Total : ManualPayment(p, amount)
    \/ \E new \in OrderStatuses \ {"refunded"} : UpdateStatus(new)
    \/ \E date \in Dates : UpdateFulfillmentDate(date)

Refunding ==
    \/ RequestRefund \/ ConfirmRefund
    \/ \E k \in Keys : GatewaySettlesRefund(k)
    \/ \E p \in Payments, k \in Keys :
          \/ \E amount \in 1..Total : GatewayOwnRefund(p, k, amount)
          \/ RefundWebhook(p, k) \/ ReconcileRefund(p, k) \/ RetryRefund(p, k)

Next ==
    \/ \E p \in Payments : Charging(p)
    \/ Cancelling
    \/ \E w \in Workers : Working(w)
    \/ Selling
    \/ Refunding
    \/ Restart \/ Tick

Spec == Init /\ [][Next]_vars

-------------------------------------------------------------------------------
(* Type invariant.                                                         *)

PaymentRows == [status : PaymentStatuses \cup {"none"}, type : {"dp", "final"},
                amount : 0..Total, online : BOOLEAN]
RefundRows == [status : {"none", "pending", "completed"}, payment : 0..MaxPayments,
               amount : 0..Total,
               mode : {"none", "auto", "in_progress", "manual", "midtrans", "seller"}]
GwRefundRows == [status : {"none", "accepted", "confirmed"}, payment : 0..MaxPayments,
                 amount : 0..Total]
GatewayStates == {"none", "rejected", "pending", "challenge", "settlement",
                  "deny", "cancel", "expire"}

TypeOK ==
    /\ status \in OrderStatuses
    /\ invoice \in InvoiceStatuses
    /\ createdVia \in {"seller", "customer"}
    /\ fulfillment \in {NoDate} \cup Dates
    /\ settlementDue \in {NoDate} \cup Dates
    /\ reversals \in Nat
    /\ soldCount \in Nat
    /\ alerts \in Nat
    /\ payment \in [Payments -> PaymentRows]
    /\ refund \in [Keys -> RefundRows]
    /\ charge \in [Payments -> {"idle", "waiting", "abandoned", "refused"}]
    /\ gateway \in [Payments -> GatewayStates]
    /\ gwRefund \in [Keys -> GwRefundRows]
    /\ cancel \in [pc : {"idle", "check", "status", "post", "posted"}, attempt : 0..3,
                   todo : SUBSET Payments, answer : {"none", "cancel", "unknown"}]
    /\ scan \in [Workers -> [kind : {"idle", "settlement", "unpaid", "overdue"},
                             at : 0..MaxClock, todo : SUBSET Payments]]
    /\ clock \in Times

-------------------------------------------------------------------------------
(* Safety.                                                                 *)

\* The order lock keeps a second reservation from being made while one is
\* open (the comment that opens create_midtrans_charge), whatever requests,
\* callbacks and cancellations run at the same time.
AtMostOnePending == Cardinality(PendingOnline) <= 1

\* Received money and the open reservation together never exceed the bill, so
\* no reservation can overpay the invoice when it is paid.
WithinTotal == Net(payment, refund) \in 0..(Total - Amounts(payment, PendingOnline))

\* The invoice status, written by five different handlers, is the one that the
\* settled payments and completed refunds imply.
InvoiceAgrees ==
    /\ invoice = "paid" <=> Net(payment, refund) >= Total
    /\ invoice = "partial" <=> Net(payment, refund) \in 1..(Total - 1)
    /\ invoice = "refunded" <=> Gross(payment) > 0 /\ Net(payment, refund) = 0

\* An order that was cancelled, by anybody, cannot be paid any more: none of
\* its charges is alive at the gateway or still on its way there, save one whose
\* own answer was an error (LiveChargeReserved in MCOrderPayment is about it).
DeadOrderTakesNoMoney ==
    status \in {"cancelled", "cancelled_settlement_expired"} =>
        \A p \in {q \in Payments : charge[q] # "refused"} :
            /\ gateway[p] \notin {"pending", "challenge"}
            /\ gateway[p] = "none" => charge[p] = "idle" /\ payment[p].status # "Pending"

\* Money the gateway has settled is written off on no other ground than the
\* gateway's own error answer to the charge: no order of late reports, time-outs,
\* callbacks and cancellations makes its payment Failed.
SettledIsNotFailed ==
    \A p \in Payments :
        gateway[p] = "settlement" /\ payment[p].status = "Failed" => charge[p] = "refused"

\* An online payment counts as received only when the gateway has settled it;
\* a capture under fraud review does not count.
SuccessIsSettled ==
    \A p \in Payments :
        payment[p].status = "Success" /\ payment[p].online => gateway[p] = "settlement"

\* Production is only started on orders for which half of the bill came in.
ProductionIsFunded ==
    status \in {"in_process", "ready"} \cup CountedSale => 2 * Gross(payment) >= Total

\* A customer who paid and whose order is cancelled has a refund on record.
CancelledHasRefund ==
    status = "cancelled" /\ Paid # {} => \E k \in Keys : refund[k].status # "none"

\* The ledger never records more money returned than a payment brought in,
\* and a payment is Refunded exactly when all of it was returned.
RefundsMatchPayments ==
    \A p \in Payments :
        /\ CompletedOf(refund, p) <= payment[p].amount
        /\ payment[p].status = "Refunded" => CompletedOf(refund, p) = payment[p].amount

\* A refund the gateway is expected to make is complete only when the bank has
\* confirmed it, also after its row was taken over by another refund key.
GatewayRefundNeedsBank ==
    \A k \in Keys :
        refund[k].status = "completed" /\ refund[k].mode \in {"auto", "in_progress"} =>
            gwRefund[k].status = "confirmed"

\* The buyer and the seller are told once that an order is late, however many
\* servers run the lifecycle worker.
AlertOnce == alerts <= 1

\* The settlement deadline only closes orders that are partly paid: a final
\* payment that lands after the worker selected the order saves it.
OnlyPartlyPaidExpire ==
    status = "cancelled_settlement_expired" => Net(payment, refund) \in 1..(Total - 1)

-------------------------------------------------------------------------------
(* Action properties and refinement.                                       *)

\* A payment never moves backwards: received money stays received or is
\* refunded, and a failed or refunded payment stays as it is.
PaymentsForward ==
    [][\A p \in Payments :
          /\ payment[p].status \in {"Failed", "Refunded"} =>
                payment'[p].status = payment[p].status
          /\ payment[p].status = "Success" => payment'[p].status \in {"Success", "Refunded"}]_vars

Contract == INSTANCE OrderContract

\* Without refunds the order keeps the strict contract: stock is given back
\* exactly when it closes, a sale is counted exactly once.
KeepsContract == Contract!Spec

\* With refunds it keeps the weaker one, in which a seller's confirmation may
\* give the stock back while the order stays open.
KeepsRefundableContract == Contract!RefundableSpec
===============================================================================
