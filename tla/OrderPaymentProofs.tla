--------------------------- MODULE OrderPaymentProofs ---------------------------
(***************************************************************************)
(* Theorems about OrderPayment for every bill, number of payments, refund  *)
(* keys, number of workers and clock: first the state machines, the        *)
(* contract and the alert, then the money.                                 *)
(*                                                                         *)
(* The code recomputes its totals from all rows in every handler           *)
(* (invoice_payment_totals), so each step is first reduced to what it does *)
(* to three sums: money received, money returned, money reserved.          *)
(*                                                                         *)
(* Three invariants carry the proofs about money, each on top of the one   *)
(* before: RowsInv (what a row of each table may look like), LedgerInv     *)
(* (the refund ledger against payments, order and bank; whatever anybody   *)
(* does), and MoneyInv (invoice, order and bill against the sums).         *)
(* MoneyInv needs CarefulRefunds: a refund confirmed by the seller restates *)
(* every payment of the invoice as received, open and failed ones too, and *)
(* one reported by the gateway its own; without either half of it TLC      *)
(* finds behaviours that break MoneyInv.                                   *)
(***************************************************************************)
EXTENDS OrderPayment, SumTheorems

-------------------------------------------------------------------------------
(* The tables of state_machine.py, spelled out.                            *)

\* The order statuses, and where each may go.
LEMMA OrderTable ==
    /\ OrderStatuses = {"pending", "in_process", "ready", "delivered", "picked_up",
                        "completed", "cancelled", "refunded", "cancelled_settlement_expired"}
    /\ \A old \in OrderStatuses : \A new :
         OrderTransition(old, new) =>
            \/ old = "pending" /\ new \in {"in_process", "cancelled", "refunded"}
            \/ old = "in_process" /\ new \in {"ready", "cancelled", "refunded"}
            \/ old = "ready" /\ new \in {"delivered", "picked_up", "completed",
                                         "cancelled", "refunded"}
            \/ old \in {"delivered", "picked_up"} /\ new = "completed"
            \/ old = "cancelled" /\ new = "refunded"
<1>1. OrderStatuses = {"pending", "in_process", "ready", "delivered", "picked_up",
                       "completed", "cancelled", "refunded", "cancelled_settlement_expired"}
  BY DEF OrderStatuses, OrderTransitions
<1>2. ASSUME NEW old \in OrderStatuses, NEW new, OrderTransition(old, new)
      PROVE  \/ old = "pending" /\ new \in {"in_process", "cancelled", "refunded"}
             \/ old = "in_process" /\ new \in {"ready", "cancelled", "refunded"}
             \/ old = "ready" /\ new \in {"delivered", "picked_up", "completed",
                                          "cancelled", "refunded"}
             \/ old \in {"delivered", "picked_up"} /\ new = "completed"
             \/ old = "cancelled" /\ new = "refunded"
  BY <1>1, <1>2 DEF OrderTransition, OrderTransitions
<1>3. QED
  BY <1>1, <1>2

\* The payment statuses.
LEMMA PaymentTable == PaymentStatuses = {"Pending", "Success", "Failed", "Refunded"}
BY DEF PaymentStatuses, PaymentTransitions

-------------------------------------------------------------------------------
(* Type correctness.                                                       *)

\* A cancellation that is about to check the order has rounds left.
RoundsLeft == cancel.pc \in {"idle", "check"} => cancel.attempt < 3

\* _rollback_order_stock keeps the number of reversals a natural number.
LEMMA ReleaseStockType == reversals \in Nat /\ ReleaseStock => reversals' \in Nat
BY DEF ReleaseStock

\* _apply_transaction_status keeps the rows and the order it writes well-formed.
LEMMA ApplyStatusType ==
    ASSUME TypeOK, NEW p \in Payments, NEW report, ApplyStatus(p, report)
    PROVE  /\ payment' \in [Payments -> PaymentRows]
           /\ status' \in OrderStatuses
           /\ invoice' \in InvoiceStatuses
           /\ reversals' \in Nat
<1>1. /\ payment \in [Payments -> PaymentRows] /\ status \in OrderStatuses
      /\ invoice \in InvoiceStatuses /\ reversals \in Nat
  BY DEF TypeOK
<1>2. CASE ApplySuccess(p)
  <2>1. payment' \in [Payments -> PaymentRows]
    BY <1>1, <1>2, PaymentTable DEF ApplySuccess, PaymentRows
  <2>2. QED
    BY <1>1, <1>2, <2>1 DEF ApplySuccess, InvoiceStatuses
<1>3. CASE ApplyFailure(p)
  <2>1. payment' \in [Payments -> PaymentRows]
    BY <1>1, <1>3, PaymentTable DEF ApplyFailure, PaymentRows
  <2>2. QED
    BY <1>1, <1>3, <2>1, OrderTable, ReleaseStockType DEF ApplyFailure, InvoiceStatuses
<1>4. CASE UNCHANGED <<payment, status, invoice, reversals>>
  BY <1>1, <1>4
<1>5. QED
  BY <1>2, <1>3, <1>4 DEF ApplyStatus

\* A step of the charge handshake or of the gateway.
LEMMA ChargeType ==
    ASSUME TypeOK, NEW p \in Payments,
           \/ \E type \in {"dp", "final"} : CreateCharge(p, type)
           \/ ChargeAccepted(p) \/ ChargeRejected(p) \/ ChargeUncertain(p)
           \/ GatewayTakesCharge(p) \/ ChargeLost(p) \/ GatewayResolves(p)
    PROVE  TypeOK' /\ UNCHANGED cancel
<1>1. ASSUME NEW type \in {"dp", "final"}, CreateCharge(p, type) PROVE TypeOK' /\ UNCHANGED cancel
  <2>1. payment' \in [Payments -> PaymentRows]
    BY <1>1, PaymentTable, ConstantsAssumption DEF CreateCharge, TypeOK, PaymentRows
  <2>2. settlementDue' \in {NoDate} \cup Dates
    BY <1>1, ConstantsAssumption DEF CreateCharge, TypeOK, NoDate, Dates
  <2>3. charge' \in [Payments -> {"idle", "waiting", "abandoned", "refused"}]
    BY <1>1 DEF CreateCharge, TypeOK
  <2>4. QED
    BY <1>1, <2>1, <2>2, <2>3 DEF CreateCharge, TypeOK, processVars
<1>2. CASE ChargeAccepted(p)
  BY <1>2 DEF ChargeAccepted, TypeOK, orderVars, processVars
<1>3. CASE ChargeRejected(p)
  <2>1. payment' \in [Payments -> PaymentRows]
    BY <1>3, PaymentTable DEF ChargeRejected, TypeOK, PaymentRows
  <2>2. QED
    BY <1>3, <2>1 DEF ChargeRejected, TypeOK, orderVars, processVars
<1>4. CASE ChargeUncertain(p)
  BY <1>4 DEF ChargeUncertain, TypeOK, orderVars, processVars
<1>5. CASE GatewayTakesCharge(p)
  <2>1. /\ gateway' \in [Payments -> GatewayStates]
        /\ charge' \in [Payments -> {"idle", "waiting", "abandoned", "refused"}]
    BY <1>5 DEF GatewayTakesCharge, TypeOK, GatewayStates
  <2>2. QED
    BY <1>5, <2>1 DEF GatewayTakesCharge, TypeOK, orderVars, processVars
<1>6. CASE ChargeLost(p)
  BY <1>6 DEF ChargeLost, TypeOK, orderVars, processVars
<1>7. CASE GatewayResolves(p)
  <2>1. gateway' \in [Payments -> GatewayStates]
    BY <1>7 DEF GatewayResolves, TypeOK, GatewayStates
  <2>2. QED
    BY <1>7, <2>1 DEF GatewayResolves, TypeOK, orderVars, processVars
<1>8. QED
  BY <1>1, <1>2, <1>3, <1>4, <1>5, <1>6, <1>7

\* A status report applied to payment p, wherever it comes from.
LEMMA ReportType ==
    ASSUME TypeOK, NEW p \in Payments, Webhook(p) \/ Refresh(p)
    PROVE  TypeOK' /\ UNCHANGED cancel
<1>1. PICK report \in Reports(p) : ApplyStatus(p, report)
  BY DEF Webhook, Refresh
<1>2. QED
  BY <1>1, ApplyStatusType DEF Webhook, Refresh, TypeOK, gatewayVars, processVars

CancelRequests == [pc : {"idle", "check", "status", "post", "posted"}, attempt : 0..3,
                   todo : SUBSET Payments, answer : {"none", "cancel", "unknown"}]

\* The next state of the cancel request, when one payment has been dealt with.
LEMMA CancelDoneType ==
    ASSUME TypeOK, NEW p \in Payments
    PROVE  /\ CancelDone(p) \in CancelRequests
           /\ CancelDone(p).pc \in {"idle", "check"} => CancelDone(p).attempt < 3
           /\ Idle \in CancelRequests /\ Idle.attempt < 3
<1>1. cancel \in CancelRequests
  BY DEF TypeOK, CancelRequests
<1>2. /\ Idle \in CancelRequests /\ Idle.attempt < 3
  BY DEF Idle, CancelRequests
<1>3. CASE cancel.todo \ {p} # {}
  BY <1>1, <1>2, <1>3 DEF CancelDone, CancelRequests
<1>4. CASE cancel.todo \ {p} = {} /\ cancel.attempt = 3
  BY <1>1, <1>2, <1>4 DEF CancelDone, CancelRequests
<1>5. CASE cancel.todo \ {p} = {} /\ cancel.attempt # 3
  <2>1. CancelDone(p) = [pc |-> "check", attempt |-> cancel.attempt, todo |-> {}, answer |-> "none"]
    BY <1>1, <1>5 DEF CancelDone, CancelRequests
  <2>2. cancel.attempt \in 0..3 /\ cancel.attempt < 3
    BY <1>1, <1>5 DEF CancelRequests
  <2>3. QED
    BY <2>1, <2>2, <1>2 DEF CancelRequests
<1>6. QED
  BY <1>3, <1>4, <1>5, <1>2

\* A step of cancel_order_by_customer.
LEMMA CancelType ==
    ASSUME TypeOK, RoundsLeft, Cancelling
    PROVE  TypeOK' /\ RoundsLeft'
<1>1. cancel \in CancelRequests
  BY DEF TypeOK, CancelRequests
<1>2. CASE CancelCheck
  <2>1. cancel' \in CancelRequests /\ RoundsLeft'
    BY <1>1, <1>2 DEF CancelCheck, RoundsLeft, CancelRequests, Idle, PendingOnline, WithStatus
  <2>2. status' \in OrderStatuses /\ reversals' \in Nat
    BY <1>2, OrderTable DEF CancelCheck, TypeOK, ReleaseStock
  <2>3. QED
    BY <1>2, <2>1, <2>2 DEF CancelCheck, TypeOK, CancelRequests, gatewayVars
<1>3. ASSUME NEW p \in Payments, NEW after \in CancelRequests,
             after.pc \in {"idle", "check"} => after.attempt < 3, Reconcile(p, after)
      PROVE  /\ payment' \in [Payments -> PaymentRows]
             /\ status' \in OrderStatuses
             /\ invoice' \in InvoiceStatuses
             /\ reversals' \in Nat
             /\ cancel' \in CancelRequests
             /\ RoundsLeft'
  <2>1. CASE \E report \in Reports(p) : ApplyStatus(p, report) /\ cancel' = CancelDone(p)
    BY <2>1, ApplyStatusType, CancelDoneType DEF RoundsLeft
  <2>2. CASE /\ cancel' \in {CancelDone(p), Idle, after}
             /\ UNCHANGED <<payment, status, invoice, reversals>>
    BY <1>3, <2>2, CancelDoneType DEF RoundsLeft, TypeOK
  <2>3. QED
    BY <1>3, <2>1, <2>2 DEF Reconcile
<1>4. ASSUME NEW p \in Payments, CancelStatus(p) PROVE TypeOK' /\ RoundsLeft'
  <2>1. [cancel EXCEPT !.pc = "post"] \in CancelRequests
    BY <1>1 DEF CancelRequests
  <2>2. ~([cancel EXCEPT !.pc = "post"].pc \in {"idle", "check"})
    BY <1>1 DEF CancelRequests
  <2>3. QED
    BY <1>3, <1>4, <2>1, <2>2 DEF CancelStatus, TypeOK, CancelRequests, gatewayVars
<1>5. ASSUME NEW p \in Payments, CancelPost(p) PROVE TypeOK' /\ RoundsLeft'
  <2>1. cancel' \in CancelRequests /\ RoundsLeft'
    <3>1. CASE cancel' = CancelDone(p)
      BY <3>1, CancelDoneType DEF RoundsLeft
    <3>2. CASE \E a \in {"cancel", "unknown"} :
                  cancel' = [cancel EXCEPT !.pc = "posted", !.answer = a]
      <4>1. PICK a \in {"cancel", "unknown"} :
               cancel' = [pc |-> "posted", attempt |-> cancel.attempt,
                          todo |-> cancel.todo, answer |-> a]
        BY <1>1, <3>2 DEF CancelRequests
      <4>2. QED
        BY <1>1, <4>1 DEF CancelRequests, RoundsLeft
    <3>3. QED
      BY <1>5, <3>1, <3>2 DEF CancelPost
  <2>2. gateway' \in [Payments -> GatewayStates]
    BY <1>5 DEF CancelPost, TypeOK, GatewayStates
  <2>3. QED
    BY <1>5, <2>1, <2>2 DEF CancelPost, TypeOK, CancelRequests, orderVars
<1>6. ASSUME NEW p \in Payments, CancelApply(p) PROVE TypeOK' /\ RoundsLeft'
  <2>1. /\ payment' \in [Payments -> PaymentRows]
        /\ status' \in OrderStatuses
        /\ invoice' \in InvoiceStatuses
        /\ reversals' \in Nat
        /\ cancel' \in CancelRequests
        /\ RoundsLeft'
    <3>1. CASE cancel.answer = "cancel"
      BY <1>6, <3>1, ApplyStatusType, CancelDoneType DEF CancelApply, RoundsLeft, TypeOK
    <3>2. CASE cancel.answer # "cancel"
      BY <1>3, <1>6, <3>2, CancelDoneType DEF CancelApply
    <3>3. QED
      BY <3>1, <3>2
  <2>2. QED
    BY <1>6, <2>1 DEF CancelApply, TypeOK, CancelRequests, gatewayVars
<1>7. QED
  BY <1>2, <1>4, <1>5, <1>6 DEF Cancelling

\* A step of a lifecycle worker.
LEMMA WorkerType ==
    ASSUME TypeOK, NEW w \in Workers, Working(w)
    PROVE  TypeOK' /\ UNCHANGED cancel
<1> DEFINE Scans == [kind : {"idle", "settlement", "unpaid", "overdue"},
                     at : 0..MaxClock, todo : SUBSET Payments]
<1>1. scan \in [Workers -> Scans] /\ clock \in 0..MaxClock /\ NoScan \in Scans
  BY ConstantsAssumption DEF TypeOK, Times, NoScan
<1>2. ASSUME NEW kind \in {"settlement", "unpaid", "overdue"}, NEW todo \in SUBSET Payments,
             StartScan(w, kind, todo)
      PROVE  TypeOK' /\ UNCHANGED cancel
  <2>1. scan' \in [Workers -> Scans]
    BY <1>1, <1>2 DEF StartScan
  <2>2. QED
    BY <1>2, <2>1 DEF StartScan, TypeOK, orderVars, gatewayVars
<1>3. CASE ScanSettlements(w) \/ ScanUnpaid(w) \/ ScanOverdue(w)
  <2>1. PendingOnline \in SUBSET Payments
    BY DEF PendingOnline, WithStatus
  <2>2. QED
    BY <1>2, <1>3, <2>1 DEF ScanSettlements, ScanUnpaid, ScanOverdue
<1>4. ASSUME NEW p \in Payments, WorkerRefresh(w, p) PROVE TypeOK' /\ UNCHANGED cancel
  <2>1. scan' \in [Workers -> Scans]
    BY <1>1, <1>4 DEF WorkerRefresh
  <2>2. /\ payment' \in [Payments -> PaymentRows] /\ status' \in OrderStatuses
        /\ invoice' \in InvoiceStatuses /\ reversals' \in Nat
    BY <1>4, ApplyStatusType DEF WorkerRefresh, TypeOK
  <2>3. QED
    BY <1>4, <2>1, <2>2 DEF WorkerRefresh, TypeOK, gatewayVars
<1>5. CASE ExpireSettlement(w) \/ ExpireUnpaid(w)
  <2>1. scan' \in [Workers -> Scans]
    BY <1>1, <1>5 DEF ExpireSettlement, ExpireUnpaid
  <2>2. status' \in OrderStatuses /\ reversals' \in Nat
    BY <1>5, OrderTable DEF ExpireSettlement, ExpireUnpaid, ReleaseStock, TypeOK
  <2>3. QED
    BY <1>5, <2>1, <2>2 DEF ExpireSettlement, ExpireUnpaid, TypeOK, gatewayVars
<1>6. CASE AlertOverdue(w)
  <2>1. scan' \in [Workers -> Scans] /\ alerts' \in Nat
    BY <1>1, <1>6 DEF AlertOverdue, TypeOK
  <2>2. QED
    BY <1>6, <2>1 DEF AlertOverdue, TypeOK, gatewayVars
<1>7. QED
  BY <1>3, <1>4, <1>5, <1>6 DEF Working

\* What the seller does, refunds apart.
LEMMA SellingType == ASSUME TypeOK, Selling PROVE TypeOK' /\ UNCHANGED cancel
<1>1. ASSUME NEW p \in Payments, NEW amount \in 1..Total, ManualPayment(p, amount)
      PROVE  TypeOK' /\ UNCHANGED cancel
  <2>1. payment' \in [Payments -> PaymentRows]
    BY <1>1, PaymentTable, ConstantsAssumption DEF ManualPayment, TypeOK, PaymentRows
  <2>2. QED
    BY <1>1, <2>1 DEF ManualPayment, TypeOK, InvoiceStatuses, gatewayVars, processVars
<1>2. ASSUME NEW new \in OrderStatuses \ {"refunded"}, UpdateStatus(new)
      PROVE  TypeOK' /\ UNCHANGED cancel
  <2>1. status' \in OrderStatuses /\ reversals' \in Nat /\ soldCount' \in Nat
    BY <1>2 DEF UpdateStatus, ReleaseStock, TypeOK
  <2>2. QED
    BY <1>2, <2>1 DEF UpdateStatus, TypeOK, gatewayVars, processVars
<1>3. ASSUME NEW date \in Dates, UpdateFulfillmentDate(date) PROVE TypeOK' /\ UNCHANGED cancel
  BY <1>3 DEF UpdateFulfillmentDate, TypeOK, gatewayVars, processVars
<1>4. QED
  BY <1>1, <1>2, <1>3 DEF Selling

-------------------------------------------------------------------------------
(* Type correctness of the refund ledger.                                  *)

\* Naming a refund row after a payment keeps the rows well-formed.
LEMMA NewRefundsType ==
    ASSUME TypeOK, NEW part \in [Payments -> 0..Total], NEW key \in [Payments -> Keys],
           NEW state \in {"pending", "completed"},
           NEW mode \in [Payments -> {"auto", "in_progress", "manual", "seller"}]
    PROVE  NewRefunds(part, key, state, mode) \in [Keys -> RefundRows]
<1> DEFINE Row(k) == NewRefunds(part, key, state, mode)[k]
<1>1. ASSUME NEW k \in Keys, \E p \in Payments : part[p] > 0 /\ key[p] = k
      PROVE  Row(k) \in RefundRows
  <2> DEFINE p == CHOOSE q \in Payments : part[q] > 0 /\ key[q] = k
  <2>1. p \in Payments
    BY <1>1
  <2>2. p \in 0..MaxPayments /\ part[p] \in 0..Total
    BY <2>1, ConstantsAssumption DEF Payments
  <2>3. Row(k) = [status |-> state, payment |-> p, amount |-> part[p], mode |-> mode[p]]
    BY <1>1 DEF NewRefunds
  <2>4. mode[p] \in {"auto", "in_progress", "manual", "seller"}
    BY <2>1
  <2> HIDE DEF p, Row
  <2>5. QED
    BY <2>2, <2>3, <2>4 DEF RefundRows
<1>2. ASSUME NEW k \in Keys, ~ \E p \in Payments : part[p] > 0 /\ key[p] = k
      PROVE  Row(k) \in RefundRows
  BY <1>2 DEF NewRefunds, TypeOK
<1>3. NewRefunds(part, key, state, mode) = [k \in Keys |-> Row(k)]
  BY DEF NewRefunds
<1>4. QED
  BY <1>1, <1>2, <1>3

\* _refresh_refund_payment_state, over any ledger.
LEMMA RestatedType ==
    ASSUME TypeOK, NEW ref, NEW S
    PROVE  Restated(payment, ref, S) \in [Payments -> PaymentRows]
<1>1. payment \in [Payments -> PaymentRows]
  BY DEF TypeOK
<1>2. ASSUME NEW p \in Payments PROVE Restated(payment, ref, S)[p] \in PaymentRows
  <2>1. ASSUME NEW st \in {"Success", "Refunded"}
        PROVE  [payment[p] EXCEPT !.status = st] \in PaymentRows
    BY <1>1, <2>1, PaymentTable DEF PaymentRows
  <2>2. CASE p \in S
    BY <1>1, <2>1, <2>2 DEF Restated
  <2>3. CASE p \notin S
    BY <1>1, <2>3 DEF Restated
  <2>4. QED
    BY <2>2, <2>3
<1>3. QED
  BY <1>2 DEF Restated

\* The restatement of a payment and its invoice after a refund was recorded.
LEMMA RefreshRefundStateType ==
    ASSUME TypeOK, NEW p \in Payments, RefreshRefundState(p)
    PROVE  /\ payment' \in [Payments -> PaymentRows]
           /\ status' \in OrderStatuses
           /\ invoice' \in InvoiceStatuses
           /\ reversals' \in Nat
<1>1. payment' \in [Payments -> PaymentRows]
  BY RestatedType DEF RefreshRefundState
<1>2. /\ invoice' = InvoiceAfter(payment', refund')
      /\ status' \in {"refunded", status}
      /\ ReleaseStock \/ UNCHANGED reversals
  BY DEF RefreshRefundState
<1>3. QED
  BY <1>1, <1>2, OrderTable, ReleaseStockType DEF InvoiceAfter, InvoiceStatuses, TypeOK

\* The seller's request for refunds.
LEMMA RequestRefundType == ASSUME TypeOK, RequestRefund PROVE TypeOK' /\ UNCHANGED cancel
<1>1. refund' \in [Keys -> RefundRows] /\ gwRefund' \in [Keys -> GwRefundRows]
  <2>1. PICK part \in [Payments -> 0..Total], key \in [Payments -> Keys],
             taken \in SUBSET Payments,
             mode \in [Payments -> {"auto", "in_progress", "manual"}] :
               SendRefunds(part, key, taken, mode)
    BY DEF RequestRefund
  <2>2. /\ refund' = NewRefunds(part, key, "pending", mode)
        /\ gwRefund' = [k \in Keys |->
              IF \E p \in taken : key[p] = k
              THEN [status |-> "accepted", payment |-> refund'[k].payment,
                    amount |-> refund'[k].amount]
              ELSE gwRefund[k]]
    BY <2>1 DEF SendRefunds
  <2>3. refund' \in [Keys -> RefundRows]
    <3>1. mode \in [Payments -> {"auto", "in_progress", "manual", "seller"}]
      BY <2>2
    <3>2. QED
      BY <2>2, <3>1, NewRefundsType
  <2>4. ASSUME NEW k \in Keys PROVE gwRefund'[k] \in GwRefundRows
    <3>1. refund'[k].payment \in 0..MaxPayments /\ refund'[k].amount \in 0..Total
      BY <2>3 DEF RefundRows
    <3>2. CASE \E p \in taken : key[p] = k
      BY <2>2, <3>1, <3>2 DEF GwRefundRows
    <3>3. CASE ~ \E p \in taken : key[p] = k
      BY <2>2, <3>3 DEF TypeOK
    <3>4. QED
      BY <3>2, <3>3
  <2>5. QED
    BY <2>2, <2>3, <2>4
<1>2. status' \in OrderStatuses /\ reversals' \in Nat
  BY OrderTable DEF RequestRefund, TypeOK, ReleaseStock
<1>3. QED
  BY <1>1, <1>2 DEF RequestRefund, TypeOK, processVars

\* A refund entry of the gateway, recorded.
LEMMA CompleteRefundType ==
    ASSUME TypeOK, NEW p \in Payments, NEW k \in Keys, NEW confirmed \in BOOLEAN,
           CompleteRefund(p, k, confirmed)
    PROVE  TypeOK' /\ UNCHANGED cancel
<1>1. ASSUME NEW row \in RefundRows PROVE Recorded(row, confirmed) \in RefundRows
  BY DEF Recorded, RefundRows
<1>2. refund \in [Keys -> RefundRows] /\ NoRefund \in RefundRows
  BY ConstantsAssumption DEF TypeOK, NoRefund, RefundRows
<1>3. refund' \in [Keys -> RefundRows]
  <2>1. CASE refund' = [refund EXCEPT ![k] = Recorded(@, confirmed)]
    BY <1>1, <1>2, <2>1
  <2>2. CASE refund' = [refund EXCEPT ![k] =
                Recorded([status |-> "pending", payment |-> p, amount |-> gwRefund[k].amount,
                          mode |-> "midtrans"], confirmed)]
    <3>1. [status |-> "pending", payment |-> p, amount |-> gwRefund[k].amount,
           mode |-> "midtrans"] \in RefundRows
      BY ConstantsAssumption DEF TypeOK, GwRefundRows, RefundRows, Payments
    <3>2. QED
      BY <1>1, <1>2, <2>2, <3>1
  <2>3. CASE \E j \in Keys :
                refund' = [refund EXCEPT ![k] = Recorded(refund[j], confirmed), ![j] = NoRefund]
    BY <1>1, <1>2, <2>3
  <2>4. QED
    BY <2>1, <2>2, <2>3 DEF CompleteRefund, RecordRefund, Bindable
<1>4. QED
  BY <1>3, RefreshRefundStateType DEF CompleteRefund, TypeOK, gatewayVars, processVars

\* The operator script that sends a pending refund to the gateway again.
LEMMA RetryRefundType ==
    ASSUME TypeOK, NEW p \in Payments, NEW k \in Keys, RetryRefund(p, k)
    PROVE  TypeOK' /\ UNCHANGED cancel
<1>1. CASE \E confirmed \in BOOLEAN : CompleteRefund(p, k, confirmed)
  BY <1>1, CompleteRefundType
<1>2. CASE /\ gwRefund' = [gwRefund EXCEPT ![k] =
                  [status |-> "accepted", payment |-> p, amount |-> refund[k].amount]]
           /\ UNCHANGED refund
           /\ UNCHANGED <<payment, status, invoice, reversals>> \/ RefreshRefundState(p)
           /\ UNCHANGED <<fulfillment, settlementDue, soldCount, alerts, createdVia, charge,
                          gateway, processVars, clock>>
  <2>1. gwRefund' \in [Keys -> GwRefundRows]
    BY <1>2, ConstantsAssumption DEF TypeOK, RefundRows, GwRefundRows, Payments
  <2>2. /\ payment' \in [Payments -> PaymentRows] /\ status' \in OrderStatuses
        /\ invoice' \in InvoiceStatuses /\ reversals' \in Nat
    BY <1>2, RefreshRefundStateType DEF TypeOK
  <2>3. QED
    BY <1>2, <2>1, <2>2 DEF TypeOK, processVars
<1>3. CASE /\ \E mode \in {"in_progress", "manual"} :
                  refund' = [refund EXCEPT ![k].mode = mode]
           /\ UNCHANGED <<gwRefund, payment, status, invoice, reversals>>
           /\ UNCHANGED <<fulfillment, settlementDue, soldCount, alerts, createdVia, charge,
                          gateway, processVars, clock>>
  <2>1. refund' \in [Keys -> RefundRows]
    BY <1>3 DEF TypeOK, RefundRows
  <2>2. QED
    BY <1>3, <2>1 DEF TypeOK, processVars
<1>4. QED
  BY <1>1, <1>2, <1>3 DEF RetryRefund

\* The seller's confirmation.
LEMMA ConfirmRefundType == ASSUME TypeOK, ConfirmRefund PROVE TypeOK' /\ UNCHANGED cancel
<1>1. refund' \in [Keys -> RefundRows]
  <2>1. CASE ConfirmPending
    <3>1. ASSUME NEW k \in Keys PROVE Recorded(refund[k], k \in PendingRefunds) \in RefundRows
      BY DEF Recorded, RefundRows, TypeOK
    <3>2. QED
      BY <2>1, <3>1 DEF ConfirmPending
  <2>2. CASE ConfirmRest
    <3>1. PICK part \in [Payments -> 0..Total], key \in [Payments -> Keys] :
             refund' = NewRefunds(part, key, "completed", [p \in Payments |-> "seller"])
      BY <2>2 DEF ConfirmRest
    <3>2. QED
      BY <3>1, NewRefundsType
  <2>3. QED
    BY <2>1, <2>2 DEF ConfirmRefund
<1>2. payment' \in [Payments -> PaymentRows]
  BY RestatedType DEF ConfirmRefund
<1>3. status' \in {"refunded", status}
  BY DEF ConfirmRefund
<1>4. invoice' \in InvoiceStatuses
  BY DEF ConfirmRefund, InvoiceAfter, InvoiceStatuses
<1>5. reversals' \in Nat
  BY DEF ConfirmRefund, ReleaseStock, TypeOK
<1>6. QED
  BY <1>1, <1>2, <1>3, <1>4, <1>5, OrderTable DEF ConfirmRefund, TypeOK, gatewayVars, processVars

\* Everything that touches refunds, by whoever takes the step.
LEMMA RefundingType == ASSUME TypeOK, Refunding PROVE TypeOK' /\ UNCHANGED cancel
<1>1. ASSUME NEW k \in Keys, GatewaySettlesRefund(k) PROVE TypeOK' /\ UNCHANGED cancel
  <2>1. gwRefund' \in [Keys -> GwRefundRows]
    <3>1. NoGwRefund \in GwRefundRows
      BY ConstantsAssumption DEF NoGwRefund, GwRefundRows
    <3>2. [gwRefund[k] EXCEPT !.status = "confirmed"] \in GwRefundRows
      BY DEF TypeOK, GwRefundRows
    <3>3. QED
      BY <1>1, <3>1, <3>2 DEF GatewaySettlesRefund, TypeOK
  <2>2. QED
    BY <1>1, <2>1 DEF GatewaySettlesRefund, TypeOK, orderVars, processVars
<1>2. ASSUME NEW p \in Payments, NEW k \in Keys, NEW amount \in 1..Total,
             GatewayOwnRefund(p, k, amount)
      PROVE  TypeOK' /\ UNCHANGED cancel
  <2>1. gwRefund' \in [Keys -> GwRefundRows]
    BY <1>2, ConstantsAssumption DEF GatewayOwnRefund, TypeOK, GwRefundRows, Payments
  <2>2. QED
    BY <1>2, <2>1 DEF GatewayOwnRefund, TypeOK, orderVars, processVars
<1>3. ASSUME NEW p \in Payments, NEW k \in Keys, RefundWebhook(p, k) \/ ReconcileRefund(p, k)
      PROVE  TypeOK' /\ UNCHANGED cancel
  BY <1>3, CompleteRefundType DEF RefundWebhook, ReconcileRefund
<1>4. QED
  BY <1>1, <1>2, <1>3, RequestRefundType, ConfirmRefundType, RetryRefundType DEF Refunding

\* Every step keeps the types.
LEMMA TypeStep == TypeOK /\ RoundsLeft /\ [Next]_vars => TypeOK' /\ RoundsLeft'
<1> SUFFICES ASSUME TypeOK, RoundsLeft, [Next]_vars PROVE TypeOK' /\ RoundsLeft'
  OBVIOUS
<1>1. ASSUME UNCHANGED cancel PROVE RoundsLeft'
  BY <1>1 DEF RoundsLeft
<1>2. ASSUME NEW p \in Payments, Charging(p) PROVE TypeOK' /\ UNCHANGED cancel
  BY <1>2, ChargeType, ReportType DEF Charging
<1>3. CASE Restart
  <2>1. scan' \in [Workers -> [kind : {"idle", "settlement", "unpaid", "overdue"},
                               at : 0..MaxClock, todo : SUBSET Payments]]
    BY <1>3, ConstantsAssumption DEF Restart, NoScan
  <2>2. cancel' \in CancelRequests /\ RoundsLeft'
    BY <1>3 DEF Restart, Idle, CancelRequests, RoundsLeft
  <2>3. charge' \in [Payments -> {"idle", "waiting", "abandoned", "refused"}]
    BY <1>3 DEF Restart, TypeOK
  <2>4. QED
    BY <1>3, <2>1, <2>2, <2>3 DEF Restart, TypeOK, orderVars, CancelRequests
<1>4. CASE Tick
  BY <1>1, <1>4, ConstantsAssumption DEF Tick, TypeOK, Times, orderVars, gatewayVars, processVars
<1>5. CASE UNCHANGED vars
  BY <1>1, <1>5 DEF vars, orderVars, gatewayVars, processVars, TypeOK
<1>6. QED
  BY <1>1, <1>2, <1>3, <1>4, <1>5, CancelType, WorkerType, SellingType, RefundingType DEF Next

\* A new order is well-formed, and no cancellation is running.
LEMMA TypeInit == Init => TypeOK /\ RoundsLeft
<1> SUFFICES ASSUME Init PROVE TypeOK /\ RoundsLeft
  OBVIOUS
<1>1. Dates \subseteq Nat /\ 1 \in Times
  BY ConstantsAssumption DEF Dates, Times
<1>2. NoPayment \in PaymentRows /\ NoRefund \in RefundRows /\ NoGwRefund \in GwRefundRows
  BY ConstantsAssumption DEF NoPayment, PaymentRows, NoRefund, RefundRows, NoGwRefund, GwRefundRows
<1>3. scan \in [Workers -> [kind : {"idle", "settlement", "unpaid", "overdue"},
                            at : 0..MaxClock, todo : SUBSET Payments]]
  BY ConstantsAssumption DEF Init, NoScan
<1>4. cancel \in CancelRequests /\ RoundsLeft
  BY DEF Init, Idle, CancelRequests, RoundsLeft
<1>5. QED
  BY <1>1, <1>2, <1>3, <1>4, OrderTable
     DEF Init, TypeOK, CancelRequests, InvoiceStatuses, GatewayStates, NoDate, Dates

\* TypeOK holds in every state the order, its payments, refunds and workers
\* can reach, whatever the bill and however many rows and workers there are;
\* in particular cancel_order_by_customer makes at most three rounds.
THEOREM TypeCorrect == Spec => []TypeOK
<1>1. Init => TypeOK /\ RoundsLeft
  BY TypeInit
<1>2. (TypeOK /\ RoundsLeft) /\ [Next]_vars => (TypeOK /\ RoundsLeft)'
  BY TypeStep
<1>3. QED
  BY <1>1, <1>2, PTL DEF Spec

-------------------------------------------------------------------------------
(* The order keeps its contract with the stock room and the sales figures. *)

\* What the contract needs to remember: stock is given back at most once, and
\* has been by the time the order is closed; a sale is counted once it is made.
ContractInv ==
    /\ reversals \in {0, 1}
    /\ status \in Contract!Closed => reversals = 1
    /\ soldCount = IF status \in CountedSale THEN 1 ELSE 0

\* The order closes, unserved, and its stock goes back.
LEMMA CloseStep ==
    ASSUME status \in OrderStatuses, ContractInv, NEW new \in Contract!Closed,
           \/ OrderTransition(status, new)
           \/ new = "cancelled_settlement_expired" /\ status \in {"pending", "in_process"},
           status' = new,
           ReleaseStock \/ (status = "cancelled" /\ UNCHANGED reversals),
           UNCHANGED soldCount
    PROVE  ContractInv' /\ Contract!Move
<1>1. reversals' = 1 /\ status \notin CountedSale
  BY OrderTable DEF ReleaseStock, ContractInv, Contract!Closed, CountedSale
<1>2. Contract!Close(new)
  BY <1>1 DEF Contract!Close, Contract!OrderTransition, OrderTransition,
     Contract!OrderTransitions, OrderTransitions
<1>3. new \in OrderStatuses
  BY OrderTable DEF Contract!Closed
<1>4. ContractInv'
  BY <1>1 DEF ContractInv, Contract!Closed, CountedSale
<1>5. QED
  BY <1>2, <1>3, <1>4 DEF Contract!Move, Contract!OrderStatuses, OrderStatuses,
     Contract!OrderTransitions, OrderTransitions

\* The three variables of the contract are left alone.
LEMMA StutterStep ==
    ASSUME ContractInv, UNCHANGED <<status, reversals, soldCount>>
    PROVE  ContractInv' /\ UNCHANGED Contract!vars
BY DEF ContractInv, Contract!vars

\* A status report closes a pending order or leaves the contract alone.
LEMMA ApplyStatusStep ==
    ASSUME TypeOK, ContractInv, NEW p \in Payments, NEW report,
           ApplyStatus(p, report), UNCHANGED soldCount
    PROVE  ContractInv' /\ [Contract!Move]_Contract!vars
<1>1. CASE status = "pending" /\ status' = "cancelled" /\ ReleaseStock
  <2>1. OrderTransition("pending", "cancelled") /\ "cancelled" \in Contract!Closed
    BY DEF OrderTransition, OrderTransitions, Contract!Closed
  <2>2. QED
    BY <1>1, <2>1, CloseStep DEF TypeOK
<1>2. CASE UNCHANGED <<status, reversals>>
  BY <1>2, StutterStep
<1>3. QED
  BY <1>1, <1>2 DEF ApplyStatus, ApplySuccess, ApplyFailure

\* Whatever does not touch refunds takes a step of the strict contract.
LEMMA MoveStep ==
    ASSUME TypeOK, ContractInv,
           \/ \E p \in Payments : Charging(p)
           \/ Cancelling
           \/ \E w \in Workers : Working(w)
           \/ Selling
           \/ Restart \/ Tick
    PROVE  ContractInv' /\ [Contract!Move]_Contract!vars
<1>1. ASSUME UNCHANGED <<status, reversals, soldCount>>
      PROVE  ContractInv' /\ [Contract!Move]_Contract!vars
  BY <1>1, StutterStep
<1>2. ASSUME status = "pending", status' = "cancelled", ReleaseStock, UNCHANGED soldCount
      PROVE  ContractInv' /\ [Contract!Move]_Contract!vars
  <2>1. OrderTransition("pending", "cancelled") /\ "cancelled" \in Contract!Closed
    BY DEF OrderTransition, OrderTransitions, Contract!Closed
  <2>2. QED
    BY <1>2, <2>1, CloseStep DEF TypeOK
<1>3. ASSUME NEW p \in Payments, Charging(p)
      PROVE  ContractInv' /\ [Contract!Move]_Contract!vars
  <2>1. CASE Webhook(p) \/ Refresh(p)
    BY <2>1, ApplyStatusStep DEF Webhook, Refresh
  <2>2. CASE ~(Webhook(p) \/ Refresh(p))
    <3>1. UNCHANGED <<status, reversals, soldCount>>
      BY <1>3, <2>2 DEF Charging, CreateCharge, ChargeAccepted, ChargeRejected, ChargeUncertain,
         GatewayTakesCharge, ChargeLost, GatewayResolves, orderVars
    <3>2. QED
      BY <3>1, <1>1
  <2>3. QED
    BY <2>1, <2>2
<1>4. CASE CancelCheck
  <2>1. UNCHANGED soldCount
    BY <1>4 DEF CancelCheck
  <2>2. \/ UNCHANGED <<status, reversals>>
        \/ status = "pending" /\ status' = "cancelled" /\ ReleaseStock
    BY <1>4 DEF CancelCheck
  <2>3. QED
    BY <2>1, <2>2, <1>1, <1>2
<1>5. ASSUME NEW p \in Payments, CancelStatus(p) \/ CancelPost(p) \/ CancelApply(p)
      PROVE  ContractInv' /\ [Contract!Move]_Contract!vars
  <2>1. UNCHANGED soldCount
    BY <1>5 DEF CancelStatus, CancelPost, CancelApply, orderVars
  <2>2. \/ UNCHANGED <<status, reversals>>
        \/ \E report : ApplyStatus(p, report)
    BY <1>5 DEF CancelStatus, CancelPost, CancelApply, Reconcile, orderVars
  <2>3. QED
    BY <2>1, <2>2, <1>1, ApplyStatusStep
<1>6. ASSUME NEW w \in Workers, Working(w)
      PROVE  ContractInv' /\ [Contract!Move]_Contract!vars
  <2>1. CASE \E p \in Payments : WorkerRefresh(w, p)
    <3>1. PICK p \in Payments : WorkerRefresh(w, p)
      BY <2>1
    <3>2. UNCHANGED <<status, reversals>> \/ \E report : ApplyStatus(p, report)
      BY <3>1 DEF WorkerRefresh
    <3>3. UNCHANGED soldCount
      BY <3>1 DEF WorkerRefresh
    <3>4. QED
      BY <3>2, <3>3, <1>1, ApplyStatusStep
  <2>2. CASE ExpireUnpaid(w)
    <3>1. UNCHANGED soldCount
      BY <2>2 DEF ExpireUnpaid
    <3>2. \/ UNCHANGED <<status, reversals>>
          \/ status = "pending" /\ status' = "cancelled" /\ ReleaseStock
      BY <2>2 DEF ExpireUnpaid, StillUnpaid, UnpaidExpired
    <3>3. QED
      BY <3>1, <3>2, <1>1, <1>2
  <2>3. CASE ExpireSettlement(w)
    <3>1. UNCHANGED soldCount
      BY <2>3 DEF ExpireSettlement
    <3>2. CASE /\ status \in {"pending", "in_process"} /\ ReleaseStock
               /\ status' = "cancelled_settlement_expired"
      <4>1. "cancelled_settlement_expired" \in Contract!Closed
        BY DEF Contract!Closed
      <4>2. QED
        BY <3>1, <3>2, <4>1, CloseStep DEF TypeOK
    <3>3. CASE UNCHANGED <<status, reversals>>
      BY <3>1, <3>3, <1>1
    <3>4. QED
      BY <2>3, <3>2, <3>3 DEF ExpireSettlement, SettlementLapsed, SettlementExpired
  <2>4. CASE ScanSettlements(w) \/ ScanUnpaid(w) \/ ScanOverdue(w) \/ AlertOverdue(w)
    <3>1. UNCHANGED <<status, reversals, soldCount>>
      BY <2>4 DEF ScanSettlements, ScanUnpaid, ScanOverdue, AlertOverdue, StartScan, orderVars
    <3>2. QED
      BY <3>1, <1>1
  <2>5. QED
    BY <1>6, <2>1, <2>2, <2>3, <2>4 DEF Working
<1>7. ASSUME NEW new \in OrderStatuses \ {"refunded"}, UpdateStatus(new)
      PROVE  ContractInv' /\ [Contract!Move]_Contract!vars
  <2>1. /\ OrderTransition(status, new) /\ status' = new
        /\ IF new = "cancelled" THEN ReleaseStock ELSE UNCHANGED reversals
        /\ soldCount' = IF status \notin CountedSale /\ new \in CountedSale
                        THEN soldCount + 1 ELSE soldCount
    BY <1>7 DEF UpdateStatus
  <2>2. status \in OrderStatuses
    BY DEF TypeOK
  <2>3. CASE new = "cancelled"
    <3>1. new \in Contract!Closed /\ UNCHANGED soldCount
      BY <2>1, <2>3 DEF Contract!Closed, CountedSale
    <3>2. QED
      BY <2>1, <2>2, <2>3, <3>1, CloseStep
  <2>4. CASE new # "cancelled"
    <3>1. new \notin Contract!Closed /\ status \notin Contract!Closed
      BY <1>7, <2>1, <2>2, <2>4, OrderTable DEF Contract!Closed
    <3>2. soldCount' = IF new \in CountedSale THEN 1 ELSE soldCount
      BY <2>1 DEF ContractInv
    <3>3. new \notin CountedSale => status \notin CountedSale
      BY <1>7, <2>1, <2>2, OrderTable DEF CountedSale
    <3>4. ContractInv'
      BY <2>1, <2>4, <3>1, <3>2, <3>3 DEF ContractInv, Contract!Closed, CountedSale
    <3>5. Contract!Advance(new)
      BY <2>1, <2>4, <3>1, <3>2 DEF Contract!Advance, Contract!OrderTransition, OrderTransition,
         Contract!OrderTransitions, OrderTransitions, Contract!CountedSale, CountedSale
    <3>6. QED
      BY <3>4, <3>5 DEF Contract!Move, Contract!OrderStatuses, OrderStatuses,
         Contract!OrderTransitions, OrderTransitions
  <2>5. QED
    BY <2>3, <2>4
<1>8. CASE Selling
  <2>1. CASE \E new \in OrderStatuses \ {"refunded"} : UpdateStatus(new)
    BY <2>1, <1>7
  <2>2. CASE \/ \E p \in Payments, amount \in 1..Total : ManualPayment(p, amount)
             \/ \E date \in Dates : UpdateFulfillmentDate(date)
    BY <2>2, <1>1 DEF ManualPayment, UpdateFulfillmentDate
  <2>3. QED
    BY <1>8, <2>1, <2>2 DEF Selling
<1>9. CASE Restart \/ Tick
  BY <1>1, <1>9 DEF Restart, Tick, orderVars
<1>10. QED
  BY <1>3, <1>4, <1>5, <1>6, <1>8, <1>9 DEF Cancelling

\* A refund closes the order, gives the stock back early, or does neither.
LEMMA RefundStep ==
    ASSUME TypeOK, ContractInv, Refunding
    PROVE  ContractInv' /\ [Contract!Move \/ Contract!ReleaseEarly]_Contract!vars
<1> DEFINE Result == ContractInv' /\ [Contract!Move \/ Contract!ReleaseEarly]_Contract!vars
<1>1. ASSUME UNCHANGED <<status, reversals, soldCount>> PROVE Result
  BY <1>1, StutterStep
<1>2. ASSUME NEW new \in {"cancelled", "refunded"}, OrderTransition(status, new), status' = new,
             ReleaseStock \/ (status = "cancelled" /\ UNCHANGED reversals), UNCHANGED soldCount
      PROVE  Result
  <2>1. new \in Contract!Closed
    BY DEF Contract!Closed
  <2>2. QED
    BY <1>2, <2>1, CloseStep DEF TypeOK
<1>3. ASSUME NEW p \in Payments, RefreshRefundState(p), UNCHANGED soldCount PROVE Result
  <2> DEFINE full == FullyRefunded(payment', refund')
  <2>1. /\ full => status = "refunded" \/ OrderTransition(status, "refunded")
        /\ status' = IF full THEN "refunded" ELSE status
        /\ IF full /\ status \notin {"cancelled", "refunded"} THEN ReleaseStock
           ELSE UNCHANGED reversals
    BY <1>3 DEF RefreshRefundState
  <2> HIDE DEF full
  <2>2. CASE full /\ status # "refunded"
    BY <1>2, <1>3, <2>1, <2>2
  <2>3. CASE ~full \/ status = "refunded"
    BY <1>1, <1>3, <2>1, <2>3
  <2>4. QED
    BY <2>2, <2>3
<1>4. ASSUME NEW p \in Payments, NEW k \in Keys, NEW confirmed \in BOOLEAN,
             CompleteRefund(p, k, confirmed)
      PROVE  Result
  BY <1>3, <1>4 DEF CompleteRefund
<1>5. ASSUME NEW p \in Payments, NEW k \in Keys, RetryRefund(p, k) PROVE Result
  <2>1. CASE \E confirmed \in BOOLEAN : CompleteRefund(p, k, confirmed)
    BY <1>4, <2>1
  <2>2. CASE /\ UNCHANGED <<payment, status, invoice, reversals>> \/ RefreshRefundState(p)
             /\ UNCHANGED soldCount
    BY <1>1, <1>3, <2>2
  <2>3. QED
    BY <1>5, <2>1, <2>2 DEF RetryRefund
<1>6. CASE RequestRefund
  <2>1. /\ status \in OrderStatuses \ OrderTerminal /\ status' = "cancelled" /\ UNCHANGED soldCount
        /\ IF status # "cancelled" THEN ReleaseStock ELSE UNCHANGED reversals
    BY <1>6 DEF RequestRefund, TypeOK
  <2>2. CASE status = "cancelled"
    BY <1>1, <2>1, <2>2
  <2>3. CASE status # "cancelled"
    <3>1. OrderTransition(status, "cancelled")
      BY <2>1, <2>3, OrderTable DEF OrderTerminal, OrderTransition, OrderTransitions
    <3>2. QED
      BY <1>2, <2>1, <2>3, <3>1
  <2>4. QED
    BY <2>2, <2>3
<1>7. CASE ConfirmRefund
  <2>1. /\ OrderTransition(status, "refunded") /\ status' \in {"refunded", status}
        /\ IF status # "cancelled" THEN ReleaseStock ELSE UNCHANGED reversals
        /\ UNCHANGED soldCount
    BY <1>7 DEF ConfirmRefund
  <2>2. CASE status' = "refunded"
    BY <1>2, <2>1, <2>2
  <2>3. CASE status' = status /\ status = "cancelled"
    BY <1>1, <2>1, <2>3
  <2>4. CASE status' = status /\ status # "cancelled"
    <3>1. status \in {"pending", "in_process", "ready"}
      BY <2>1, <2>4, OrderTable DEF TypeOK
    <3>2. reversals' = 1
      BY <2>1, <2>4 DEF ReleaseStock, ContractInv
    <3>3. ContractInv' /\ Contract!ReleaseEarly
      BY <2>1, <2>4, <3>1, <3>2 DEF ContractInv, Contract!ReleaseEarly
    <3>4. QED
      BY <3>3
  <2>5. QED
    BY <2>1, <2>2, <2>3, <2>4
<1>8. ASSUME NEW k \in Keys, GatewaySettlesRefund(k) PROVE Result
  BY <1>1, <1>8 DEF GatewaySettlesRefund, orderVars
<1>9. ASSUME NEW p \in Payments, NEW k \in Keys, NEW amount \in 1..Total,
             GatewayOwnRefund(p, k, amount)
      PROVE  Result
  BY <1>1, <1>9 DEF GatewayOwnRefund, orderVars
<1>10. QED
  BY <1>4, <1>5, <1>6, <1>7, <1>8, <1>9 DEF Refunding, RefundWebhook, ReconcileRefund

\* The order gives its stock back at most once and counts its sale once, also
\* when refunds are requested, confirmed, retried and reported at any time:
\* every step is one that OrderContract allows, or does not concern it.
THEOREM RefinesRefundableContract == Spec => KeepsRefundableContract
<1> DEFINE Inv == TypeOK /\ RoundsLeft /\ ContractInv
<1>1. Init => Inv /\ Contract!Init
  <2>1. Init => ContractInv /\ Contract!Init
    BY DEF Init, ContractInv, Contract!Init, Contract!Closed, CountedSale
  <2>2. QED
    BY <2>1, TypeInit
<1>2. Inv /\ [Next]_vars => Inv' /\ [Contract!Move \/ Contract!ReleaseEarly]_Contract!vars
  <2> SUFFICES ASSUME Inv, [Next]_vars
               PROVE  ContractInv' /\ [Contract!Move \/ Contract!ReleaseEarly]_Contract!vars
    BY TypeStep
  <2>1. CASE UNCHANGED vars
    BY <2>1, StutterStep DEF vars, orderVars
  <2>2. CASE Refunding
    BY <2>2, RefundStep
  <2>3. CASE Next /\ ~Refunding
    BY <2>3, MoveStep DEF Next
  <2>4. QED
    BY <2>1, <2>2, <2>3
<1>3. QED
  BY <1>1, <1>2, PTL DEF Spec, KeepsRefundableContract, Contract!RefundableSpec

\* An order whose payments are never refunded (no refund key is ever used)
\* keeps the strict contract: stock goes back exactly when the order closes.
THEOREM RefinesContract == Keys = {} => (Spec => KeepsContract)
<1> SUFFICES ASSUME Keys = {} PROVE Spec => KeepsContract
  OBVIOUS
<1> DEFINE Inv == TypeOK /\ RoundsLeft /\ ContractInv
<1>1. Init => Inv /\ Contract!Init
  <2>1. Init => ContractInv /\ Contract!Init
    BY DEF Init, ContractInv, Contract!Init, Contract!Closed, CountedSale
  <2>2. QED
    BY <2>1, TypeInit
<1>2. ~Refunding
  <2>1. Payments # {} /\ [Payments -> Keys] = {}
    BY ConstantsAssumption DEF Payments
  <2>2. ~RequestRefund
    BY <2>1 DEF RequestRefund
  <2>3. ~ConfirmRefund
    BY <2>1 DEF ConfirmRefund, ConfirmPending, ConfirmRest, PendingRefunds
  <2>4. QED
    BY <2>2, <2>3 DEF Refunding
<1>3. Inv /\ [Next]_vars => Inv' /\ [Contract!Move]_Contract!vars
  <2> SUFFICES ASSUME Inv, [Next]_vars PROVE ContractInv' /\ [Contract!Move]_Contract!vars
    BY TypeStep
  <2>1. CASE UNCHANGED vars
    BY <2>1, StutterStep DEF vars, orderVars
  <2>2. CASE Next
    BY <2>2, <1>2, MoveStep DEF Next
  <2>3. QED
    BY <2>1, <2>2
<1>4. QED
  BY <1>1, <1>3, PTL DEF Spec, KeepsContract, Contract!Spec

-------------------------------------------------------------------------------
(* One reservation at a time, and what the gateway settled is not lost.    *)

Open(p) == payment[p].status = "Pending"
OneOpen == \A p, q \in Payments : Open(p) /\ Open(q) => p = q

\* What the gateway holds of a charge nobody can pay any more.
Dead == {"rejected", "deny", "cancel", "expire"}

\* The cancel request handles one payment, a Failed payment is dead at the
\* gateway or was answered with an error, and a cancel answer that is waiting
\* to be applied is a true one.
GatewayInv ==
    /\ OneOpen
    /\ \A p, q \in cancel.todo : p = q
    /\ \A p \in Payments : payment[p].status = "Failed" =>
          gateway[p] \in Dead \/ charge[p] = "refused"
    /\ cancel.pc = "posted" /\ cancel.answer = "cancel" =>
          \A p \in cancel.todo : gateway[p] = "cancel"

\* What a payment row may become without a new reservation being made.
Settles(p) == payment'[p].status = "Pending" => Open(p)

\* A status report the handlers act on opens no payment, and fails only one
\* that is dead at the gateway.
LEMMA FinalReport ==
    ASSUME TypeOK, NEW p \in Payments, NEW report, ApplyStatus(p, report),
           gateway[p] = report \/ report = "pending", Final(report)
    PROVE  \A q \in Payments :
              /\ Settles(q)
              /\ payment'[q].status = "Failed" =>
                    payment[q].status = "Failed" \/ gateway[q] \in {"deny", "cancel", "expire"}
<1>1. payment \in [Payments -> PaymentRows]
  BY DEF TypeOK
<1>2. CASE StatusMap(report) = "Success" /\ ApplySuccess(p)
  BY <1>1, <1>2 DEF ApplySuccess, PaymentRows, Settles, Open
<1>3. CASE StatusMap(report) = "Failed" /\ ApplyFailure(p)
  <2>1. gateway[p] \in {"deny", "cancel", "expire"}
    BY <1>3 DEF StatusMap, Final
  <2>2. QED
    BY <1>1, <1>3, <2>1 DEF ApplyFailure, PaymentRows, Settles, Open
<1>4. CASE UNCHANGED payment
  BY <1>4 DEF Settles, Open
<1>5. QED
  BY <1>2, <1>3, <1>4 DEF ApplyStatus

\* Restating payments after a refund opens none and fails none.
LEMMA RestatedKeeps ==
    ASSUME TypeOK, NEW S, payment' = Restated(payment, refund', S)
    PROVE  \A q \in Payments :
              /\ Settles(q)
              /\ payment'[q].status = "Failed" => payment[q].status = "Failed"
<1>1. payment \in [Payments -> PaymentRows]
  BY DEF TypeOK
<1>2. ASSUME NEW q \in Payments
      PROVE  payment'[q].status \in {"Success", "Refunded"} \/ payment'[q] = payment[q]
  BY <1>1 DEF Restated, PaymentRows
<1>3. QED
  BY <1>2 DEF Settles, Open

\* Refunds leave the charges, the gateway's transactions and the cancel
\* request alone, and neither open nor fail a payment.
LEMMA RefundingKeeps ==
    ASSUME TypeOK, Refunding
    PROVE  /\ UNCHANGED <<gateway, charge, cancel>>
           /\ \A q \in Payments :
                 /\ Settles(q)
                 /\ payment'[q].status = "Failed" => payment[q].status = "Failed"
<1> DEFINE Result == /\ UNCHANGED <<gateway, charge, cancel>>
                     /\ \A q \in Payments :
                           /\ Settles(q)
                           /\ payment'[q].status = "Failed" => payment[q].status = "Failed"
<1>1. ASSUME UNCHANGED <<payment, gateway, charge, cancel>> PROVE Result
  BY <1>1 DEF Settles, Open
<1>2. ASSUME NEW p \in Payments, RefreshRefundState(p), UNCHANGED <<gateway, charge, cancel>>
      PROVE  Result
  BY <1>2, RestatedKeeps DEF RefreshRefundState
<1>3. ASSUME NEW p \in Payments, NEW k \in Keys, NEW confirmed \in BOOLEAN,
             CompleteRefund(p, k, confirmed)
      PROVE  Result
  BY <1>2, <1>3 DEF CompleteRefund, gatewayVars, processVars
<1>4. ASSUME NEW p \in Payments, NEW k \in Keys, RetryRefund(p, k) PROVE Result
  <2>1. CASE \E confirmed \in BOOLEAN : CompleteRefund(p, k, confirmed)
    BY <1>3, <2>1
  <2>2. CASE /\ UNCHANGED <<payment, status, invoice, reversals>> \/ RefreshRefundState(p)
             /\ UNCHANGED <<gateway, charge, cancel>>
    BY <1>1, <1>2, <2>2
  <2>3. QED
    BY <1>4, <2>1, <2>2 DEF RetryRefund, processVars
<1>5. CASE RequestRefund
  BY <1>1, <1>5 DEF RequestRefund, processVars
<1>6. CASE ConfirmRefund
  BY <1>6, RestatedKeeps DEF ConfirmRefund, gatewayVars, processVars
<1>7. ASSUME NEW k \in Keys, GatewaySettlesRefund(k) PROVE Result
  BY <1>1, <1>7 DEF GatewaySettlesRefund, processVars
<1>8. ASSUME NEW p \in Payments, NEW k \in Keys, NEW amount \in 1..Total,
             GatewayOwnRefund(p, k, amount)
      PROVE  Result
  BY <1>1, <1>8 DEF GatewayOwnRefund, processVars
<1>9. QED
  BY <1>3, <1>4, <1>5, <1>6, <1>7, <1>8 DEF Refunding, RefundWebhook, ReconcileRefund

\* A refused charge stays refused; its row may only be restated by a refund.
LEMMA RefusedStays ==
    ASSUME TypeOK, [Next]_vars, NEW q \in Payments, charge[q] = "refused"
    PROVE  charge'[q] = "refused" \/ payment'[q].status = "Pending"
<1> DEFINE Result == charge'[q] = "refused" \/ payment'[q].status = "Pending"
<1>1. /\ charge \in [Payments -> {"idle", "waiting", "abandoned", "refused"}]
      /\ payment \in [Payments -> PaymentRows]
  BY DEF TypeOK
<1>2. ASSUME UNCHANGED charge PROVE Result
  BY <1>2
<1>3. ASSUME NEW p \in Payments, Charging(p) PROVE Result
  <2>1. CASE \E type \in {"dp", "final"} : CreateCharge(p, type)
    <3>1. /\ charge' = [charge EXCEPT ![p] = "waiting"]
          /\ p = q => payment'[q].status = "Pending"
      BY <1>1, <2>1 DEF CreateCharge
    <3>2. QED
      BY <1>1, <3>1
  <2>2. CASE ChargeAccepted(p) \/ ChargeRejected(p) \/ ChargeUncertain(p) \/ ChargeLost(p)
    BY <1>1, <2>2 DEF ChargeAccepted, ChargeRejected, ChargeUncertain, ChargeLost
  <2>3. CASE GatewayTakesCharge(p)
    BY <1>1, <2>3 DEF GatewayTakesCharge
  <2>4. CASE GatewayResolves(p) \/ Webhook(p) \/ Refresh(p)
    BY <1>2, <2>4 DEF GatewayResolves, Webhook, Refresh, gatewayVars
  <2>5. QED
    BY <1>3, <2>1, <2>2, <2>3, <2>4 DEF Charging
<1>4. CASE Cancelling
  BY <1>2, <1>4 DEF Cancelling, CancelCheck, CancelStatus, CancelPost, CancelApply, gatewayVars
<1>5. CASE \E w \in Workers : Working(w)
  BY <1>2, <1>5 DEF Working, ScanSettlements, ScanUnpaid, ScanOverdue, StartScan, WorkerRefresh,
     ExpireSettlement, ExpireUnpaid, AlertOverdue, gatewayVars
<1>6. CASE Selling
  BY <1>2, <1>6 DEF Selling, ManualPayment, UpdateStatus, UpdateFulfillmentDate, gatewayVars
<1>7. CASE Refunding
  BY <1>2, <1>7, RefundingKeeps
<1>8. CASE Restart
  BY <1>1, <1>8 DEF Restart
<1>9. CASE Tick \/ UNCHANGED vars
  BY <1>2, <1>9 DEF Tick, vars, gatewayVars
<1>10. QED
  BY <1>3, <1>4, <1>5, <1>6, <1>7, <1>8, <1>9 DEF Next

\* What is enough for a step to keep GatewayInv when it reserves nothing.
LEMMA KeepGateway ==
    ASSUME TypeOK, [Next]_vars, GatewayInv,
           \A q \in Payments : Settles(q),
           \A q \in Payments : payment'[q].status = "Failed" =>
              payment[q].status = "Failed" \/ gateway[q] \in Dead \/ charge'[q] = "refused",
           \A q \in Payments : gateway[q] \in Dead => gateway'[q] = gateway[q],
           cancel.todo \in SUBSET Payments,
           \/ UNCHANGED cancel
           \/ /\ \A p, q \in cancel'.todo : p = q
              /\ ~(cancel'.pc = "posted" /\ cancel'.answer = "cancel")
    PROVE  GatewayInv'
<1>1. OneOpen'
  BY DEF GatewayInv, OneOpen, Settles, Open
<1>2. \A p \in Payments : payment'[p].status = "Failed" =>
          gateway'[p] \in Dead \/ charge'[p] = "refused"
  BY RefusedStays DEF GatewayInv
<1>3. \A p, q \in cancel'.todo : p = q
  BY DEF GatewayInv
<1>4. cancel'.pc = "posted" /\ cancel'.answer = "cancel" =>
          \A p \in cancel'.todo : gateway'[p] = "cancel"
  BY DEF GatewayInv, Dead
<1>5. QED
  BY <1>1, <1>2, <1>3, <1>4 DEF GatewayInv

\* No step opens a second reservation, fails a payment the gateway may still
\* settle, or makes the cancel request hold more than the open reservation.
LEMMA GatewayStep == TypeOK /\ GatewayInv /\ [Next]_vars => GatewayInv'
<1> SUFFICES ASSUME TypeOK, GatewayInv, [Next]_vars PROVE GatewayInv'
  OBVIOUS
<1>1. /\ payment \in [Payments -> PaymentRows] /\ gateway \in [Payments -> GatewayStates]
      /\ cancel \in CancelRequests /\ cancel.todo \in SUBSET Payments
  BY DEF TypeOK, CancelRequests
<1>2. ASSUME UNCHANGED <<payment, gateway, cancel>> PROVE GatewayInv'
  BY <1>1, <1>2, KeepGateway DEF Settles, Open
<1>3. ASSUME NEW p \in Payments, NEW report, ApplyStatus(p, report),
             gateway[p] = report \/ report = "pending", Final(report), UNCHANGED gateway,
             \/ UNCHANGED cancel
             \/ /\ \A q, r \in cancel'.todo : q = r
                /\ ~(cancel'.pc = "posted" /\ cancel'.answer = "cancel")
      PROVE  GatewayInv'
  BY <1>1, <1>3, FinalReport, KeepGateway DEF Dead
<1>4. ASSUME NEW p \in Payments, NEW type \in {"dp", "final"}, CreateCharge(p, type)
      PROVE  GatewayInv'
  <2>1. PendingOnline = {} /\ UNCHANGED <<gateway, cancel>>
    BY <1>4 DEF CreateCharge, ChargeAllowed, processVars
  <2>2. \A q \in Payments : payment[q].status # "Pending"
    BY <2>1 DEF PendingOnline, WithStatus
  <2>3. \A q \in Payments : IF q = p THEN payment'[q].status = "Pending"
                            ELSE payment'[q] = payment[q]
    BY <1>1, <1>4 DEF CreateCharge
  <2>4. OneOpen'
    BY <2>2, <2>3 DEF OneOpen, Open
  <2>5. \A q \in Payments : payment'[q].status = "Failed" =>
            gateway'[q] \in Dead \/ charge'[q] = "refused"
    BY <2>1, <2>3, RefusedStays DEF GatewayInv
  <2>6. QED
    BY <2>1, <2>4, <2>5 DEF GatewayInv
<1>5. CASE \E p \in Payments : ChargeRejected(p)
  <2>1. PICK p \in Payments : ChargeRejected(p)
    BY <1>5
  <2>2. charge'[p] = "refused" /\ UNCHANGED <<gateway, cancel>>
    BY <2>1 DEF ChargeRejected, processVars, TypeOK
  <2>3. payment'[p].status = "Failed" /\ \A q \in Payments \ {p} : payment'[q] = payment[q]
    BY <1>1, <2>1 DEF ChargeRejected, PaymentRows
  <2>4. QED
    BY <1>1, <2>2, <2>3, KeepGateway DEF Settles, Open
<1>6. ASSUME NEW p \in Payments,
             ChargeAccepted(p) \/ ChargeUncertain(p) \/ GatewayTakesCharge(p) \/ ChargeLost(p)
             \/ GatewayResolves(p)
      PROVE  GatewayInv'
  <2>1. UNCHANGED <<payment, cancel>>
    BY <1>6 DEF ChargeAccepted, ChargeUncertain, GatewayTakesCharge, ChargeLost, GatewayResolves,
       processVars
  <2>2. \A q \in Payments : gateway[q] \in Dead => gateway'[q] = gateway[q]
    BY <1>1, <1>6 DEF ChargeAccepted, ChargeUncertain, GatewayTakesCharge, ChargeLost,
       GatewayResolves, Dead
  <2>3. QED
    BY <1>1, <2>1, <2>2, KeepGateway DEF Settles, Open
<1>7. ASSUME NEW p \in Payments, Webhook(p) \/ Refresh(p) PROVE GatewayInv'
  <2>1. PICK report \in Reports(p) : Final(report) /\ ApplyStatus(p, report)
    BY <1>7 DEF Webhook, Refresh
  <2>2. gateway[p] = report \/ report = "pending"
    BY <2>1 DEF Reports
  <2>3. UNCHANGED <<gateway, cancel>>
    BY <1>7 DEF Webhook, Refresh, gatewayVars, processVars
  <2>4. QED
    BY <1>3, <2>1, <2>2, <2>3
<1>8. CASE CancelCheck
  <2>1. UNCHANGED <<payment, gateway>>
    BY <1>8 DEF CancelCheck, gatewayVars
  <2>2. /\ \A p, q \in cancel'.todo : p = q
        /\ ~(cancel'.pc = "posted" /\ cancel'.answer = "cancel")
    BY <1>8 DEF CancelCheck, Idle, PendingOnline, WithStatus, GatewayInv, OneOpen, Open
  <2>3. QED
    BY <1>1, <2>1, <2>2, KeepGateway DEF Settles, Open
<1>9. ASSUME NEW p \in cancel.todo
      PROVE  \A r \in {CancelDone(p), Idle, [cancel EXCEPT !.pc = "post"]} :
                (\A q, s \in r.todo : q = s) /\ ~(r.pc = "posted" /\ r.answer = "cancel")
  <2>1. cancel.todo \ {p} = {}
    BY DEF GatewayInv
  <2>2. CancelDone(p).todo = {} /\ CancelDone(p).pc \in {"idle", "check"}
    <3>1. CASE cancel.attempt = 3
      BY <2>1, <3>1 DEF CancelDone, Idle
    <3>2. CASE cancel.attempt # 3
      <4>1. CancelDone(p) = [cancel EXCEPT !.pc = "check", !.todo = {}, !.answer = "none"]
        BY <2>1, <3>2 DEF CancelDone
      <4>2. CancelDone(p) = [pc |-> "check", attempt |-> cancel.attempt, todo |-> {},
                             answer |-> "none"]
        BY <1>1, <4>1 DEF CancelRequests
      <4>3. QED
        BY <4>2
    <3>3. QED
      BY <3>1, <3>2
  <2>3. Idle.todo = {} /\ Idle.pc = "idle"
    BY DEF Idle
  <2>4. /\ [cancel EXCEPT !.pc = "post"].todo = cancel.todo
        /\ [cancel EXCEPT !.pc = "post"].pc = "post"
    BY <1>1 DEF CancelRequests
  <2>5. QED
    BY <2>2, <2>3, <2>4 DEF GatewayInv
<1>10. ASSUME NEW p \in Payments, p \in cancel.todo, NEW after \in {Idle, [cancel EXCEPT !.pc = "post"]},
              Reconcile(p, after), UNCHANGED gateway
       PROVE  GatewayInv'
  <2>1. /\ \A q, r \in cancel'.todo : q = r
        /\ ~(cancel'.pc = "posted" /\ cancel'.answer = "cancel")
    BY <1>9, <1>10 DEF Reconcile
  <2>2. CASE UNCHANGED payment
    BY <1>1, <1>10, <2>1, <2>2, KeepGateway DEF Settles, Open
  <2>3. CASE \E report \in Reports(p) : Final(report) /\ ApplyStatus(p, report)
    <3>1. PICK report \in Reports(p) : Final(report) /\ ApplyStatus(p, report)
      BY <2>3
    <3>2. gateway[p] = report \/ report = "pending"
      BY <3>1 DEF Reports
    <3>3. QED
      BY <1>3, <1>10, <2>1, <3>1, <3>2
  <2>4. QED
    BY <1>10, <2>2, <2>3 DEF Reconcile
<1>11. ASSUME NEW p \in Payments, CancelStatus(p) PROVE GatewayInv'
  BY <1>10, <1>11 DEF CancelStatus, gatewayVars
<1>12. ASSUME NEW p \in Payments, CancelPost(p) PROVE GatewayInv'
  <2>1. p \in cancel.todo /\ UNCHANGED payment
    BY <1>12 DEF CancelPost
  <2>2. CASE cancel' = CancelDone(p) /\ UNCHANGED gateway
    BY <1>1, <1>9, <2>1, <2>2, KeepGateway DEF Settles, Open
  <2>3. ASSUME NEW a, cancel' = [cancel EXCEPT !.pc = "posted", !.answer = a]
        PROVE  cancel'.pc = "posted" /\ cancel'.answer = a /\ cancel'.todo = cancel.todo
    BY <1>1, <2>3 DEF CancelRequests
  <2>4. CASE /\ gateway[p] \in {"pending", "challenge"}
             /\ gateway' = [gateway EXCEPT ![p] = "cancel"]
             /\ \E a \in {"cancel", "unknown"} :
                   cancel' = [cancel EXCEPT !.pc = "posted", !.answer = a]
    <3>1. cancel'.todo = cancel.todo
      BY <2>3, <2>4
    <3>2. \A q \in cancel.todo : gateway'[q] = "cancel"
      BY <1>1, <2>1, <2>4 DEF GatewayInv
    <3>3. \A q \in Payments : payment'[q].status = "Failed" =>
              gateway'[q] \in Dead \/ charge'[q] = "refused"
      BY <1>1, <2>1, <2>4, RefusedStays DEF GatewayInv, Dead
    <3>4. QED
      BY <2>1, <3>1, <3>2, <3>3 DEF GatewayInv, OneOpen, Open
  <2>5. CASE /\ cancel' = [cancel EXCEPT !.pc = "posted", !.answer = "unknown"]
             /\ UNCHANGED gateway
    <3>1. cancel'.todo = cancel.todo /\ cancel'.answer = "unknown"
      BY <2>3, <2>5
    <3>2. QED
      BY <2>1, <2>5, <3>1, RefusedStays DEF GatewayInv, OneOpen, Open
  <2>6. QED
    BY <1>12, <2>2, <2>4, <2>5 DEF CancelPost
<1>13. ASSUME NEW p \in Payments, CancelApply(p) PROVE GatewayInv'
  <2>1. p \in cancel.todo /\ UNCHANGED gateway
    BY <1>13 DEF CancelApply, gatewayVars
  <2>2. CASE cancel.answer = "cancel"
    <3>1. gateway[p] = "cancel" /\ Final("cancel") /\ cancel' = CancelDone(p)
      BY <1>13, <2>1, <2>2 DEF CancelApply, GatewayInv, Final
    <3>2. CASE ApplyStatus(p, "cancel")
      BY <1>3, <1>9, <2>1, <3>1, <3>2
    <3>3. CASE UNCHANGED payment
      BY <1>1, <1>9, <2>1, <3>1, <3>3, KeepGateway DEF Settles, Open
    <3>4. QED
      BY <1>13, <2>2, <3>2, <3>3 DEF CancelApply
  <2>3. CASE cancel.answer # "cancel"
    BY <1>10, <1>13, <2>1, <2>3 DEF CancelApply
  <2>4. QED
    BY <2>2, <2>3
<1>14. ASSUME NEW w \in Workers, Working(w) PROVE GatewayInv'
  <2>1. CASE \E p \in Payments : WorkerRefresh(w, p)
    <3>1. PICK p \in Payments : WorkerRefresh(w, p)
      BY <2>1
    <3>2. UNCHANGED <<gateway, cancel>>
      BY <3>1 DEF WorkerRefresh, gatewayVars
    <3>3. CASE UNCHANGED payment
      BY <1>2, <3>2, <3>3
    <3>4. CASE \E report \in Reports(p) : Final(report) /\ ApplyStatus(p, report)
      <4>1. PICK report \in Reports(p) : Final(report) /\ ApplyStatus(p, report)
        BY <3>4
      <4>2. gateway[p] = report \/ report = "pending"
        BY <4>1 DEF Reports
      <4>3. QED
        BY <1>3, <3>2, <4>1, <4>2
    <3>5. QED
      BY <3>1, <3>3, <3>4 DEF WorkerRefresh
  <2>2. CASE ~ \E p \in Payments : WorkerRefresh(w, p)
    BY <1>2, <1>14, <2>2 DEF Working, ScanSettlements, ScanUnpaid, ScanOverdue, StartScan,
       ExpireSettlement, ExpireUnpaid, AlertOverdue, gatewayVars
  <2>3. QED
    BY <2>1, <2>2
<1>15. CASE Selling
  <2>1. ASSUME NEW p \in Payments, NEW amount \in 1..Total, ManualPayment(p, amount)
        PROVE  GatewayInv'
    <3>1. /\ payment'[p].status = "Success"
          /\ \A q \in Payments \ {p} : payment'[q] = payment[q]
          /\ UNCHANGED <<gateway, cancel>>
      BY <1>1, <2>1 DEF ManualPayment, gatewayVars, processVars
    <3>2. QED
      BY <1>1, <3>1, KeepGateway DEF Settles, Open
  <2>2. CASE \/ \E new \in OrderStatuses \ {"refunded"} : UpdateStatus(new)
             \/ \E date \in Dates : UpdateFulfillmentDate(date)
    BY <1>2, <2>2 DEF UpdateStatus, UpdateFulfillmentDate, gatewayVars, processVars
  <2>3. QED
    BY <1>15, <2>1, <2>2 DEF Selling
<1>16. CASE Refunding
  BY <1>1, <1>16, RefundingKeeps, KeepGateway
<1>17. CASE Restart
  <2>1. UNCHANGED <<payment, gateway>> /\ cancel'.todo = {} /\ cancel'.pc = "idle"
    BY <1>17 DEF Restart, Idle
  <2>2. QED
    BY <1>1, <2>1, KeepGateway DEF Settles, Open
<1>18. CASE Tick \/ UNCHANGED vars
  BY <1>2, <1>18 DEF Tick, vars, gatewayVars, processVars
<1>19. CASE \E p \in Payments : Charging(p)
  BY <1>4, <1>5, <1>6, <1>7, <1>19 DEF Charging
<1>20. CASE Cancelling
  BY <1>8, <1>11, <1>12, <1>13, <1>20 DEF Cancelling
<1>21. QED
  BY <1>14, <1>15, <1>16, <1>17, <1>18, <1>19, <1>20 DEF Next

\* The strengthening, as an invariant of the specification.
LEMMA GatewayInvariant == Spec => [](TypeOK /\ GatewayInv)
<1>1. Init => GatewayInv
  BY DEF Init, GatewayInv, OneOpen, Open, Idle, NoPayment
<1>2. QED
  BY <1>1, TypeInit, TypeStep, GatewayStep, PTL DEF Spec

\* create_midtrans_charge never reserves a second online payment while one is
\* open: the order lock and the check under it are enough, whatever callbacks,
\* cancellations, refunds and restarts come in between.
THEOREM OnePending == Spec => []AtMostOnePending
<1>1. TypeOK /\ GatewayInv => AtMostOnePending
  <2> SUFFICES ASSUME GatewayInv PROVE AtMostOnePending
    OBVIOUS
  <2>1. \A p, q \in PendingOnline : p = q
    BY DEF GatewayInv, OneOpen, Open, PendingOnline, WithStatus
  <2>2. PendingOnline = {} \/ \E p : PendingOnline = {p}
    BY <2>1
  <2>3. Cardinality(PendingOnline) \in {0, 1}
    BY <2>2, FS_EmptySet, FS_Singleton
  <2>4. QED
    BY <2>3 DEF AtMostOnePending
<1>2. QED
  BY <1>1, GatewayInvariant, PTL

\* Money that the gateway has settled is written off as Failed on no other
\* ground than the gateway's own error answer to the charge, in whatever order
\* reports, time-outs, callbacks, cancellations and refunds arrive.
THEOREM SettledMoneyKept == Spec => []SettledIsNotFailed
<1>1. TypeOK /\ GatewayInv => SettledIsNotFailed
  BY DEF GatewayInv, SettledIsNotFailed, Dead
<1>2. QED
  BY <1>1, GatewayInvariant, PTL

\* However many lifecycle workers run and whenever they restart, an overdue
\* order alerts its buyer and the seller once.
THEOREM AlertedOnce == Spec => []AlertOnce
<1> DEFINE Inv == alerts \in {0, 1}
<1>1. Init => Inv
  BY DEF Init
<1>2. Inv /\ [Next]_vars => Inv'
  <2> SUFFICES ASSUME Inv, [Next]_vars PROVE Inv'
    OBVIOUS
  <2>1. ASSUME UNCHANGED alerts PROVE Inv'
    BY <2>1
  <2>2. CASE \E w \in Workers : AlertOverdue(w)
    BY <2>2 DEF AlertOverdue, Overdue
  <2>3. CASE \E w \in Workers : Working(w) /\ ~AlertOverdue(w)
    BY <2>1, <2>3 DEF Working, ScanSettlements, ScanUnpaid, ScanOverdue, StartScan,
       ExpireSettlement, ExpireUnpaid, WorkerRefresh, orderVars
  <2>4. CASE \E p \in Payments : Charging(p)
    BY <2>1, <2>4 DEF Charging, CreateCharge, ChargeAccepted, ChargeRejected, ChargeUncertain,
       GatewayTakesCharge, ChargeLost, GatewayResolves, Webhook, Refresh, orderVars
  <2>5. CASE Cancelling
    BY <2>1, <2>5 DEF Cancelling, CancelCheck, CancelStatus, CancelPost, CancelApply, orderVars
  <2>6. CASE Selling
    BY <2>1, <2>6 DEF Selling, ManualPayment, UpdateStatus, UpdateFulfillmentDate
  <2>7. CASE Refunding
    BY <2>1, <2>7 DEF Refunding, RequestRefund, ConfirmRefund, GatewaySettlesRefund,
       GatewayOwnRefund, RefundWebhook, ReconcileRefund, RetryRefund, CompleteRefund, orderVars
  <2>8. CASE Restart \/ Tick \/ UNCHANGED vars
    BY <2>1, <2>8 DEF Restart, Tick, vars, orderVars
  <2>9. QED
    BY <2>2, <2>3, <2>4, <2>5, <2>6, <2>7, <2>8 DEF Next
<1>3. Inv => AlertOnce
  BY DEF AlertOnce
<1>4. QED
  BY <1>1, <1>2, <1>3, PTL DEF Spec

-------------------------------------------------------------------------------
(* Money: what the totals are made of.                                     *)

\* invoice_payment_totals adds up one column of some rows.
LEMMA AmountsSum ==
    ASSUME NEW rows, NEW S
    PROVE  Amounts(rows, S) = SumFunctionOnSet([i \in S |-> rows[i].amount], S)
BY DEF Amounts, SumFunction

\* Totals are natural numbers.
LEMMA AmountsNat ==
    ASSUME NEW S, IsFiniteSet(S), NEW rows, \A i \in S : rows[i].amount \in Nat
    PROVE  Amounts(rows, S) \in Nat
<1> DEFINE f == [i \in S |-> rows[i].amount]
<1>1. \A i \in S : f[i] \in Nat
  OBVIOUS
<1> HIDE DEF f
<1>2. SumFunctionOnSet(f, S) \in Nat
  BY <1>1, SumNat
<1>3. QED
  BY <1>2, AmountsSum DEF f

\* The total depends on the rows only through their amounts.
LEMMA AmountsEqual ==
    ASSUME NEW S, IsFiniteSet(S), NEW a, NEW b, \A i \in S : a[i].amount = b[i].amount
    PROVE  Amounts(a, S) = Amounts(b, S)
<1>1. [i \in S |-> a[i].amount] = [i \in S |-> b[i].amount]
  OBVIOUS
<1>2. QED
  BY <1>1, AmountsSum

\* One row more adds its amount.
LEMMA AmountsAdd ==
    ASSUME NEW S, IsFiniteSet(S), NEW x, x \notin S, NEW rows,
           \A i \in S \cup {x} : rows[i].amount \in Nat
    PROVE  Amounts(rows, S \cup {x}) = Amounts(rows, S) + rows[x].amount
<1> DEFINE T == S \cup {x}
           f == [i \in T |-> rows[i].amount]
           g == [i \in S |-> rows[i].amount]
<1>1. IsFiniteSet(T) /\ x \in T /\ T \ {x} = S
  BY FS_AddElement
<1>2. (\A i \in T : f[i] \in Int) /\ (\A i \in S : f[i] = g[i]) /\ f[x] = rows[x].amount
  OBVIOUS
<1>3. Amounts(rows, T) = SumFunctionOnSet(f, T) /\ Amounts(rows, S) = SumFunctionOnSet(g, S)
  BY AmountsSum
<1>4. rows[x].amount \in Nat /\ Amounts(rows, S) \in Nat
  BY AmountsNat
<1> HIDE DEF T, f, g
<1>5. SumFunctionOnSet(f, T) = f[x] + SumFunctionOnSet(f, S)
  BY <1>1, <1>2, SumRemove
<1>6. SumFunctionOnSet(f, S) = SumFunctionOnSet(g, S)
  BY <1>2, SumEqual
<1>7. Amounts(rows, T) = Amounts(rows, S) + rows[x].amount
  BY <1>2, <1>3, <1>4, <1>5, <1>6
<1>8. QED
  BY <1>7 DEF T

\* More rows, with the same amounts where both have them, add up to no less.
LEMMA AmountsGrow ==
    ASSUME NEW T, IsFiniteSet(T), NEW S \in SUBSET T, NEW a, NEW b,
           \A i \in S : a[i].amount = b[i].amount, \A i \in T : b[i].amount \in Nat
    PROVE  Amounts(a, S) <= Amounts(b, T)
<1> DEFINE f == [i \in S |-> b[i].amount]
           g == [i \in T |-> b[i].amount]
<1>1. IsFiniteSet(S)
  BY FS_Subset
<1>2. Amounts(a, S) = Amounts(b, S)
  BY <1>1, AmountsEqual
<1>3. Amounts(b, S) = SumFunctionOnSet(f, S) /\ Amounts(b, T) = SumFunctionOnSet(g, T)
  BY AmountsSum
<1>4. (\A i \in S : f[i] = g[i]) /\ (\A i \in T : g[i] \in Nat)
  OBVIOUS
<1> HIDE DEF f, g
<1>5. SumFunctionOnSet(f, S) = SumFunctionOnSet(g, S)
  BY <1>1, <1>4, SumEqual
<1>6. SumFunctionOnSet(g, S) <= SumFunctionOnSet(g, T)
  BY <1>4, SumNat
<1>7. QED
  BY <1>2, <1>3, <1>5, <1>6

\* No rows, no money.
LEMMA AmountsEmpty == ASSUME NEW rows PROVE Amounts(rows, {}) = 0
BY AmountsSum, SumEmpty

\* A total of nothing has no row with money in it.
LEMMA AmountsZero ==
    ASSUME NEW S, IsFiniteSet(S), NEW rows, \A i \in S : rows[i].amount \in Nat \ {0},
           Amounts(rows, S) = 0
    PROVE  S = {}
<1> SUFFICES ASSUME NEW x \in S PROVE FALSE
  OBVIOUS
<1>1. {x} \in SUBSET S /\ {x} = {} \cup {x}
  OBVIOUS
<1>2. Amounts(rows, {x}) = rows[x].amount
  <2>1. Amounts(rows, {} \cup {x}) = Amounts(rows, {}) + rows[x].amount
    <3>1. IsFiniteSet({}) /\ \A i \in {} \cup {x} : rows[i].amount \in Nat
      BY FS_EmptySet
    <3>2. QED
      BY <3>1, AmountsAdd
  <2>2. QED
    BY <1>1, <2>1, AmountsEmpty
<1>3. Amounts(rows, {x}) <= Amounts(rows, S)
  BY <1>1, AmountsGrow
<1>4. QED
  BY <1>2, <1>3

\* The tables of payments and refunds are finite.
LEMMA FiniteRows ==
    /\ \A S \in SUBSET Payments : IsFiniteSet(S)
    /\ \A S \in SUBSET Keys : IsFiniteSet(S)
<1>1. IsFiniteSet(Payments)
  BY ConstantsAssumption, FS_Interval DEF Payments
<1>2. QED
  BY <1>1, ConstantsAssumption, FS_Subset

-------------------------------------------------------------------------------
(* What the steps do to the order and its payments.                        *)

\* A payment row carries money, and only an online one is known to the gateway
\* or ever waits for it.
PaymentRowsOK ==
    \A p \in Payments :
        /\ payment[p].status = "none" => payment[p] = NoPayment
        /\ payment[p].status # "none" => payment[p].amount > 0
        /\ ~payment[p].online =>
              /\ gateway[p] = "none" /\ charge[p] = "idle"
              /\ payment[p].status \in {"none", "Success", "Refunded"}

\* The gateway refunds settled payments only, and never nothing.
GatewayRefundsOK ==
    \A k \in Keys :
        \/ gwRefund[k] = NoGwRefund
        \/ /\ gwRefund[k].status # "none" /\ gwRefund[k].amount > 0
           /\ gwRefund[k].payment \in Payments
           /\ gateway[gwRefund[k].payment] = "settlement"

\* A refund row returns money of a payment row.
RefundRowsOK ==
    \A k \in Keys :
        \/ refund[k] = NoRefund
        \/ /\ refund[k].status # "none" /\ refund[k].amount > 0
           /\ refund[k].payment \in Payments
           /\ payment[refund[k].payment].status # "none"

\* What the rows of the three tables look like.
RowsInv == PaymentRowsOK /\ GatewayRefundsOK /\ RefundRowsOK

\* How the order moves when no payment is touched: it is closed while nothing
\* is open or received, it lapses while it is partly paid and nothing is open,
\* or it is served, the first time with half of the bill received.
StatusMove ==
    \/ UNCHANGED status
    \/ /\ status' = "cancelled"
       /\ PendingOnline = {} /\ WithStatus(payment, {"Success"}) = {}
    \/ /\ status' = "cancelled_settlement_expired"
       /\ invoice = "partial" /\ PendingOnline = {}
    \/ /\ status' \in {"in_process", "ready"} \cup CountedSale
       /\ status' = "in_process" => EnoughPaid
       /\ status' # "in_process" => status \in {"in_process", "ready"} \cup CountedSale

\* A payment that the gateway has settled is taken for received.
Settle(p) ==
    /\ payment[p].status = "Pending" /\ gateway[p] = "settlement"
    /\ ApplySuccess(p)

\* A payment that is dead at the gateway is given up.
GiveUp(p) ==
    /\ payment[p].status = "Pending" /\ gateway[p] \in {"deny", "cancel", "expire"}
    /\ ApplyFailure(p)

\* What a step that is not about refunds does to the payments and the order.
OrderStep ==
    \/ \E p \in Payments :
          \/ \E type \in {"dp", "final"} : CreateCharge(p, type)
          \/ Settle(p) \/ GiveUp(p) \/ ChargeRejected(p)
          \/ \E amount \in 1..Total : ManualPayment(p, amount)
    \/ UNCHANGED <<payment, invoice>> /\ StatusMove /\ (status = "refunded" => UNCHANGED status)

\* A status report the handlers act on settles the payment or gives it up.
LEMMA ReportStep ==
    ASSUME TypeOK, NEW p \in Payments, NEW report, ApplyStatus(p, report), Final(report),
           gateway[p] = report \/ report = "pending", payment[p].status # "none"
    PROVE  OrderStep
<1>1. report # "pending" /\ report # "challenge" /\ gateway[p] = report
  BY DEF Final
<1>2. payment[p].status \in PaymentStatuses
  BY DEF TypeOK, PaymentRows
<1>3. ASSUME NEW new \in {"Success", "Failed"}, PaymentTransition(payment[p].status, new)
      PROVE  payment[p].status = "Pending"
  BY <1>2, <1>3, PaymentTable DEF PaymentTransition, PaymentTransitions
<1>4. CASE /\ StatusMap(report) = "Success" /\ ApplySuccess(p)
           /\ PaymentTransition(payment[p].status, StatusMap(report))
  <2>1. report = "settlement"
    BY <1>1, <1>4 DEF StatusMap
  <2>2. Settle(p)
    BY <1>1, <1>3, <1>4, <2>1 DEF Settle
  <2>3. QED
    BY <2>2 DEF OrderStep
<1>5. CASE /\ StatusMap(report) = "Failed" /\ ApplyFailure(p)
           /\ PaymentTransition(payment[p].status, StatusMap(report))
  <2>1. report \in {"deny", "cancel", "expire"}
    BY <1>1, <1>5 DEF StatusMap
  <2>2. GiveUp(p)
    BY <1>1, <1>3, <1>5, <2>1 DEF GiveUp
  <2>3. QED
    BY <2>2 DEF OrderStep
<1>6. CASE UNCHANGED <<payment, status, invoice>>
  BY <1>6 DEF OrderStep, StatusMove
<1>7. QED
  BY <1>4, <1>5, <1>6 DEF ApplyStatus

\* What a step that is not about refunds may do.
LEMMA OrderSteps ==
    ASSUME TypeOK, GatewayInv, RowsInv, [Next]_vars, ~Refunding
    PROVE  OrderStep /\ UNCHANGED <<refund, gwRefund>>
<1> DEFINE Result == OrderStep /\ UNCHANGED <<refund, gwRefund>>
<1>1. ASSUME UNCHANGED <<payment, status, invoice, refund, gwRefund>> PROVE Result
  BY <1>1 DEF OrderStep, StatusMove
<1>2. ASSUME NEW p \in Payments, NEW report \in Reports(p), Final(report), ApplyStatus(p, report),
             UNCHANGED <<refund, gwRefund>>
      PROVE  Result
  <2>1. payment[p].status # "none"
    BY <1>2 DEF Reports, RowsInv, PaymentRowsOK, NoPayment
  <2>2. QED
    BY <1>2, <2>1, ReportStep DEF Reports
<1>3. ASSUME NEW p \in Payments, Charging(p) PROVE Result
  <2>1. CASE Webhook(p) \/ Refresh(p)
    BY <1>2, <2>1 DEF Webhook, Refresh, gatewayVars
  <2>2. CASE \E type \in {"dp", "final"} : CreateCharge(p, type)
    BY <2>2 DEF CreateCharge, OrderStep
  <2>3. CASE ChargeRejected(p)
    BY <2>3 DEF ChargeRejected, OrderStep
  <2>4. CASE ChargeAccepted(p) \/ ChargeUncertain(p) \/ GatewayTakesCharge(p) \/ ChargeLost(p)
             \/ GatewayResolves(p)
    BY <1>1, <2>4 DEF ChargeAccepted, ChargeUncertain, GatewayTakesCharge, ChargeLost,
       GatewayResolves, orderVars
  <2>5. QED
    BY <1>3, <2>1, <2>2, <2>3, <2>4 DEF Charging
<1>4. ASSUME NEW p \in Payments, NEW after, Reconcile(p, after), UNCHANGED <<refund, gwRefund>>
      PROVE  Result
  BY <1>1, <1>2, <1>4 DEF Reconcile
<1>5. CASE Cancelling
  <2>1. CASE CancelCheck
    <3>1. UNCHANGED <<payment, invoice, refund, gwRefund>>
      BY <2>1 DEF CancelCheck, gatewayVars
    <3>2. \/ UNCHANGED status
          \/ status = "pending" /\ status' = "cancelled" /\ PendingOnline = {} /\ Paid = {}
      BY <2>1 DEF CancelCheck
    <3>3. QED
      BY <3>1, <3>2 DEF OrderStep, StatusMove, Paid, WithStatus
  <2>2. ASSUME NEW p \in Payments, CancelStatus(p) PROVE Result
    BY <1>4, <2>2 DEF CancelStatus, gatewayVars
  <2>3. ASSUME NEW p \in Payments, CancelPost(p) PROVE Result
    BY <1>1, <2>3 DEF CancelPost, orderVars
  <2>4. ASSUME NEW p \in Payments, CancelApply(p) PROVE Result
    <3>1. UNCHANGED <<refund, gwRefund>> /\ p \in cancel.todo
      BY <2>4 DEF CancelApply, gatewayVars
    <3>2. CASE cancel.answer = "cancel"
      <4>1. gateway[p] = "cancel" /\ Final("cancel")
        BY <2>4, <3>1, <3>2 DEF CancelApply, GatewayInv, Final
      <4>2. QED
        BY <1>1, <2>4, <3>1, <3>2, <4>1, ReportStep DEF CancelApply
    <3>3. CASE cancel.answer # "cancel"
      BY <1>4, <2>4, <3>1, <3>3 DEF CancelApply
    <3>4. QED
      BY <3>2, <3>3
  <2>5. QED
    BY <1>5, <2>1, <2>2, <2>3, <2>4 DEF Cancelling
<1>6. ASSUME NEW w \in Workers, Working(w) PROVE Result
  <2>1. CASE \E p \in Payments : WorkerRefresh(w, p)
    <3>1. PICK p \in Payments : WorkerRefresh(w, p)
      BY <2>1
    <3>2. UNCHANGED <<refund, gwRefund>>
      BY <3>1 DEF WorkerRefresh, gatewayVars
    <3>3. QED
      BY <1>1, <1>2, <3>1, <3>2 DEF WorkerRefresh
  <2>2. CASE ExpireUnpaid(w)
    <3>1. UNCHANGED <<payment, invoice, refund, gwRefund>>
      BY <2>2 DEF ExpireUnpaid, gatewayVars
    <3>2. \/ UNCHANGED status
          \/ /\ status = "pending" /\ status' = "cancelled"
             /\ PendingOnline = {} /\ WithStatus(payment, {"Success"}) = {}
      BY <2>2 DEF ExpireUnpaid, StillUnpaid, UnpaidExpired
    <3>3. QED
      BY <3>1, <3>2 DEF OrderStep, StatusMove
  <2>3. CASE ExpireSettlement(w)
    <3>1. UNCHANGED <<payment, invoice, refund, gwRefund>>
      BY <2>3 DEF ExpireSettlement, gatewayVars
    <3>2. \/ UNCHANGED status
          \/ /\ status # "refunded" /\ status' = "cancelled_settlement_expired"
             /\ invoice = "partial" /\ PendingOnline = {}
      BY <2>3 DEF ExpireSettlement, SettlementLapsed, SettlementExpired
    <3>3. QED
      BY <3>1, <3>2 DEF OrderStep, StatusMove
  <2>4. CASE ScanSettlements(w) \/ ScanUnpaid(w) \/ ScanOverdue(w) \/ AlertOverdue(w)
    BY <1>1, <2>4 DEF ScanSettlements, ScanUnpaid, ScanOverdue, AlertOverdue, StartScan,
       orderVars, gatewayVars
  <2>5. QED
    BY <1>6, <2>1, <2>2, <2>3, <2>4 DEF Working
<1>7. CASE Selling
  <2>1. ASSUME NEW p \in Payments, NEW amount \in 1..Total, ManualPayment(p, amount) PROVE Result
    BY <2>1 DEF ManualPayment, gatewayVars, OrderStep
  <2>2. ASSUME NEW date \in Dates, UpdateFulfillmentDate(date) PROVE Result
    BY <1>1, <2>2 DEF UpdateFulfillmentDate, gatewayVars
  <2>3. ASSUME NEW new \in OrderStatuses \ {"refunded"}, UpdateStatus(new) PROVE Result
    <3>1. /\ UNCHANGED <<payment, invoice, refund, gwRefund>> /\ status' = new
          /\ new = "in_process" => EnoughPaid
          /\ new = "cancelled" => PendingOnline = {} /\ Paid = {}
      BY <2>3 DEF UpdateStatus, gatewayVars, NothingReceived
    <3>2. /\ status # "refunded"
          /\ new \in {"in_process", "cancelled", "ready", "delivered", "picked_up", "completed"}
          /\ new \in {"ready", "delivered", "picked_up", "completed"} =>
                status \in {"in_process", "ready", "delivered", "picked_up"}
      BY <2>3, OrderTable DEF UpdateStatus, TypeOK
    <3>3. StatusMove
      BY <3>1, <3>2 DEF StatusMove, Paid, WithStatus, CountedSale
    <3>4. QED
      BY <3>1, <3>2, <3>3 DEF OrderStep
  <2>4. QED
    BY <1>7, <2>1, <2>2, <2>3 DEF Selling
<1>8. CASE Restart \/ Tick \/ UNCHANGED vars
  BY <1>1, <1>8 DEF Restart, Tick, vars, orderVars, gatewayVars
<1>9. QED
  BY <1>3, <1>5, <1>6, <1>7, <1>8 DEF Next

\* What the gateway has settled stays settled, and a payment that nobody sends
\* to the gateway does not get there.
LEMMA GatewayMoves ==
    ASSUME TypeOK, [Next]_vars, NEW q \in Payments
    PROVE  /\ gateway[q] = "settlement" => gateway'[q] = "settlement"
           /\ gateway[q] = "none" /\ charge[q] = "idle" =>
                 /\ gateway'[q] = "none"
                 /\ charge'[q] = "idle" \/ \E type \in {"dp", "final"} : CreateCharge(q, type)
<1> DEFINE Result == /\ gateway[q] = "settlement" => gateway'[q] = "settlement"
                     /\ gateway[q] = "none" /\ charge[q] = "idle" =>
                           /\ gateway'[q] = "none"
                           /\ \/ charge'[q] = "idle"
                              \/ \E type \in {"dp", "final"} : CreateCharge(q, type)
<1>1. /\ gateway \in [Payments -> GatewayStates]
      /\ charge \in [Payments -> {"idle", "waiting", "abandoned", "refused"}]
  BY DEF TypeOK
<1>2. ASSUME UNCHANGED <<gateway, charge>> PROVE Result
  BY <1>2
<1>3. ASSUME NEW p \in Payments, Charging(p) PROVE Result
  <2>1. CASE \E type \in {"dp", "final"} : CreateCharge(p, type)
    <3>1. UNCHANGED gateway /\ charge' = [charge EXCEPT ![p] = "waiting"]
      BY <2>1 DEF CreateCharge
    <3>2. QED
      BY <1>1, <2>1, <3>1
  <2>2. CASE ChargeAccepted(p) \/ ChargeRejected(p) \/ ChargeUncertain(p) \/ ChargeLost(p)
    BY <1>1, <2>2 DEF ChargeAccepted, ChargeRejected, ChargeUncertain, ChargeLost
  <2>3. CASE GatewayTakesCharge(p)
    BY <1>1, <2>3 DEF GatewayTakesCharge
  <2>4. CASE GatewayResolves(p)
    BY <1>1, <2>4 DEF GatewayResolves
  <2>5. CASE Webhook(p) \/ Refresh(p)
    BY <1>2, <2>5 DEF Webhook, Refresh, gatewayVars
  <2>6. QED
    BY <1>3, <2>1, <2>2, <2>3, <2>4, <2>5 DEF Charging
<1>4. CASE Cancelling
  BY <1>1, <1>4 DEF Cancelling, CancelCheck, CancelStatus, CancelPost, CancelApply, gatewayVars
<1>5. CASE \E w \in Workers : Working(w)
  BY <1>2, <1>5 DEF Working, ScanSettlements, ScanUnpaid, ScanOverdue, StartScan, WorkerRefresh,
     ExpireSettlement, ExpireUnpaid, AlertOverdue, gatewayVars
<1>6. CASE Selling
  BY <1>2, <1>6 DEF Selling, ManualPayment, UpdateStatus, UpdateFulfillmentDate, gatewayVars
<1>7. CASE Refunding
  BY <1>2, <1>7, RefundingKeeps
<1>8. CASE Restart
  BY <1>1, <1>8 DEF Restart
<1>9. CASE Tick \/ UNCHANGED vars
  BY <1>2, <1>9 DEF Tick, vars, gatewayVars
<1>10. QED
  BY <1>3, <1>4, <1>5, <1>6, <1>7, <1>8, <1>9 DEF Next

-------------------------------------------------------------------------------
(* Totals of payments and of the refund ledger.                            *)

\* The sums over payments and refunds are natural numbers.
LEMMA Totals ==
    ASSUME NEW pay \in [Payments -> PaymentRows], NEW ref \in [Keys -> RefundRows]
    PROVE  /\ \A S : Amounts(pay, WithStatus(pay, S)) \in Nat
           /\ Gross(pay) \in Nat
           /\ RefundedTotal(ref) \in Nat
           /\ \A p : CompletedOf(ref, p) \in Nat
<1>1. ASSUME NEW S \in SUBSET Payments PROVE Amounts(pay, S) \in Nat
  <2>1. \A i \in S : pay[i].amount \in Nat
    BY ConstantsAssumption DEF PaymentRows
  <2>2. QED
    BY <2>1, AmountsNat, FiniteRows
<1>2. ASSUME NEW S \in SUBSET Keys PROVE Amounts(ref, S) \in Nat
  <2>1. \A i \in S : ref[i].amount \in Nat
    BY ConstantsAssumption DEF RefundRows
  <2>2. QED
    BY <2>1, AmountsNat, FiniteRows
<1>3. QED
  BY <1>1, <1>2 DEF WithStatus, Gross, RefundedTotal, CompletedOf

\* One payment changes: the total over the payments of some statuses loses its
\* old part and gains its new one.
LEMMA OnePayment ==
    ASSUME NEW pay \in [Payments -> PaymentRows], NEW new \in [Payments -> PaymentRows],
           NEW p \in Payments, \A q \in Payments \ {p} : new[q] = pay[q], NEW S
    PROVE  Amounts(new, WithStatus(new, S)) =
              (Amounts(pay, WithStatus(pay, S))
                  - (IF pay[p].status \in S THEN pay[p].amount ELSE 0))
                  + (IF new[p].status \in S THEN new[p].amount ELSE 0)
<1> DEFINE B == {q \in Payments \ {p} : pay[q].status \in S}
<1>1. IsFiniteSet(B) /\ B \in SUBSET Payments /\ p \notin B
  BY FiniteRows
<1>2. WithStatus(pay, S) = IF pay[p].status \in S THEN B \cup {p} ELSE B
  BY DEF WithStatus
<1>3. WithStatus(new, S) = IF new[p].status \in S THEN B \cup {p} ELSE B
  BY DEF WithStatus
<1>4. \A q \in B \cup {p} : pay[q].amount \in Nat /\ new[q].amount \in Nat
  BY ConstantsAssumption DEF PaymentRows
<1>5. Amounts(new, B) = Amounts(pay, B)
  <2>1. \A q \in B : new[q].amount = pay[q].amount
    OBVIOUS
  <2> HIDE DEF B
  <2>2. QED
    BY <1>1, <2>1, AmountsEqual
<1> HIDE DEF B
<1>6. /\ Amounts(pay, B \cup {p}) = Amounts(pay, B) + pay[p].amount
      /\ Amounts(new, B \cup {p}) = Amounts(new, B) + new[p].amount
  BY <1>1, <1>4, AmountsAdd
<1>7. Amounts(pay, B) \in Nat /\ Amounts(new, B) \in Nat
  BY <1>1, <1>4, AmountsNat
<1>8. QED
  BY <1>2, <1>3, <1>4, <1>5, <1>6, <1>7

\* Payments that move between statuses that count the same leave the total.
LEMMA SameTotal ==
    ASSUME NEW pay \in [Payments -> PaymentRows], NEW new \in [Payments -> PaymentRows], NEW S,
           \A q \in Payments : /\ new[q].status \in S <=> pay[q].status \in S
                               /\ new[q].amount = pay[q].amount
    PROVE  Amounts(new, WithStatus(new, S)) = Amounts(pay, WithStatus(pay, S))
<1> DEFINE W == WithStatus(pay, S)
<1>1. WithStatus(new, S) = W /\ W \in SUBSET Payments
  BY DEF WithStatus
<1>2. \A q \in W : new[q].amount = pay[q].amount
  BY <1>1
<1>3. IsFiniteSet(W)
  BY <1>1, FiniteRows
<1> HIDE DEF W
<1>4. Amounts(new, W) = Amounts(pay, W)
  BY <1>2, <1>3, AmountsEqual
<1>5. QED
  BY <1>1, <1>4 DEF W

\* Completed refunds stay as they are.
LedgerGrows ==
    \A k \in Keys : refund[k].status = "completed" =>
        /\ refund'[k].status = "completed"
        /\ refund'[k].payment = refund[k].payment /\ refund'[k].amount = refund[k].amount

\* None is added.
LedgerStill == \A k \in Keys : refund'[k].status = "completed" => refund[k].status = "completed"

\* None is added to another payment than p.
LedgerOf(p) ==
    \A k \in Keys : refund'[k].status = "completed" /\ refund'[k].payment # p =>
        refund[k].status = "completed"

\* A growing ledger takes nothing off any total, and leaves those that get no
\* completed refund.
LEMMA LedgerTotals ==
    ASSUME refund \in [Keys -> RefundRows], refund' \in [Keys -> RefundRows], LedgerGrows
    PROVE  /\ RefundedTotal(refund) <= RefundedTotal(refund')
           /\ \A q : CompletedOf(refund, q) <= CompletedOf(refund', q)
           /\ LedgerStill => /\ RefundedTotal(refund') = RefundedTotal(refund)
                             /\ \A q : CompletedOf(refund', q) = CompletedOf(refund, q)
           /\ \A p, q : LedgerOf(p) /\ q # p => CompletedOf(refund', q) = CompletedOf(refund, q)
<1> DEFINE C == {k \in Keys : refund[k].status = "completed"}
           D == {k \in Keys : refund'[k].status = "completed"}
           CP(q) == {k \in Keys : refund[k].status = "completed" /\ refund[k].payment = q}
           DP(q) == {k \in Keys : refund'[k].status = "completed" /\ refund'[k].payment = q}
<1>1. ASSUME NEW T \in SUBSET Keys, NEW S \in SUBSET T, S \subseteq C
      PROVE  Amounts(refund, S) <= Amounts(refund', T)
  <2>1. \A i \in S : refund[i].amount = refund'[i].amount
    BY <1>1 DEF LedgerGrows
  <2>2. \A i \in T : refund'[i].amount \in Nat
    BY <1>1, ConstantsAssumption DEF RefundRows
  <2>3. QED
    BY <2>1, <2>2, FiniteRows, AmountsGrow
<1>2. ASSUME NEW S \in SUBSET C PROVE Amounts(refund', S) = Amounts(refund, S)
  <2>1. \A i \in S : refund'[i].amount = refund[i].amount
    BY DEF LedgerGrows
  <2>2. IsFiniteSet(S)
    BY FiniteRows
  <2> HIDE DEF C
  <2>3. QED
    BY <2>1, <2>2, AmountsEqual
<1>3. C \in SUBSET D /\ \A q : CP(q) \in SUBSET DP(q) /\ CP(q) \subseteq C /\ DP(q) \in SUBSET Keys
  BY DEF LedgerGrows
<1>4. LedgerStill => C = D /\ \A q : CP(q) = DP(q)
  BY DEF LedgerStill, LedgerGrows
<1>5. \A p, q : LedgerOf(p) /\ q # p => CP(q) = DP(q)
  BY DEF LedgerOf, LedgerGrows
<1>6. /\ RefundedTotal(refund) = Amounts(refund, C) /\ RefundedTotal(refund') = Amounts(refund', D)
      /\ \A q : /\ CompletedOf(refund, q) = Amounts(refund, CP(q))
                /\ CompletedOf(refund', q) = Amounts(refund', DP(q))
  BY DEF RefundedTotal, CompletedOf
<1>7. D \in SUBSET Keys
  OBVIOUS
<1> HIDE DEF C, D, CP, DP
<1>8. QED
  BY <1>1, <1>2, <1>3, <1>4, <1>5, <1>6, <1>7

-------------------------------------------------------------------------------
(* The allocation loops.                                                   *)

\* No payment gives more than it has left.
LEMMA AllocationBound ==
    ASSUME NEW left \in [Payments -> Int], NEW requested \in Int, NEW p \in Payments
    PROVE  Allocation(left, requested)[p] <= left[p]
<1>1. p \in Nat /\ 1..(p - 1) \in SUBSET Payments
  BY ConstantsAssumption DEF Payments
<1>2. SumFunctionOnSet(left, 1..(p - 1)) \in Int
  BY <1>1, FiniteRows, SumInt
<1>3. QED
  BY <1>2 DEF Allocation, Least, Positive

\* A request that the payments can meet takes something from one of them.
LEMMA AllocationGives ==
    ASSUME NEW left \in [Payments -> Nat], NEW requested \in Nat \ {0},
           requested <= SumFunction(left)
    PROVE  \E p \in Payments : Allocation(left, requested)[p] > 0
<1> DEFINE Some == {p \in Payments : left[p] > 0}
<1>1. Some # {}
  <2>1. SumFunction(left) = SumFunctionOnSet(left, Payments)
    BY DEF SumFunction
  <2>2. ASSUME Some = {} PROVE FALSE
    <3>1. \A q \in Payments : left[q] = 0
      BY <2>2
    <3>2. SumFunctionOnSet(left, Payments) = 0
      BY <3>1, FiniteRows, SumZero
    <3>3. QED
      BY <2>1, <3>2
  <2>3. QED
    BY <2>2
<1>2. PICK p \in Some : \A q \in Some : p <= q
  <2>1. Some \in SUBSET Nat
    BY DEF Payments
  <2>2. QED
    BY <1>1, <2>1, LeastNumber
<1>3. p \in Payments /\ left[p] \in Nat /\ left[p] > 0
  BY <1>2
<1>4. 1..(p - 1) \in SUBSET Payments /\ \A q \in 1..(p - 1) : left[q] = 0
  <2>1. p \in Nat /\ 1..(p - 1) \in SUBSET Payments /\ \A q \in 1..(p - 1) : ~(p <= q)
    BY <1>3, ConstantsAssumption DEF Payments
  <2>2. QED
    BY <1>2, <2>1
<1>5. SumFunctionOnSet(left, 1..(p - 1)) = 0
  BY <1>4, FiniteRows, SumZero
<1>6. Allocation(left, requested)[p] > 0
  BY <1>3, <1>5 DEF Allocation, Least, Positive
<1>7. QED
  BY <1>3, <1>6

\* What a payment may still give is a whole amount, nothing when it is not paid.
LEMMA LeftToRefund ==
    ASSUME TypeOK
    PROVE  /\ Refundable \in [Payments -> Nat] /\ NotRefunded \in [Payments -> Int]
           /\ \A p \in Payments : Refundable[p] > 0 \/ NotRefunded[p] > 0 => p \in Paid
<1>1. payment \in [Payments -> PaymentRows] /\ refund \in [Keys -> RefundRows]
  BY DEF TypeOK
<1>2. ASSUME NEW p \in Payments
      PROVE  Refundable[p] \in Nat /\ NotRefunded[p] \in Int
             /\ (Refundable[p] > 0 \/ NotRefunded[p] > 0 => p \in Paid)
  <2>1. payment[p].amount \in Nat /\ CompletedOf(refund, p) \in Nat
    BY <1>1, Totals, ConstantsAssumption DEF PaymentRows
  <2> DEFINE S == {k \in Keys : refund[k].payment = p}
  <2>2. Amounts(refund, S) \in Nat
    <3>1. IsFiniteSet(S) /\ \A k \in S : refund[k].amount \in Nat
      BY <1>1, FiniteRows, ConstantsAssumption DEF RefundRows
    <3> HIDE DEF S
    <3>2. QED
      BY <3>1, AmountsNat
  <2>3. Refundable[p] = IF p \notin Paid THEN 0 ELSE Positive(payment[p].amount - Amounts(refund, S))
    BY DEF Refundable
  <2>4. NotRefunded[p] = IF p \notin Paid THEN 0 ELSE payment[p].amount - CompletedOf(refund, p)
    BY DEF NotRefunded
  <2> HIDE DEF S
  <2>5. QED
    BY <2>1, <2>2, <2>3, <2>4 DEF Positive
<1>3. QED
  BY <1>2 DEF Refundable, NotRefunded

\* The rows a refund request or a confirmation writes: one on a free key for
\* each payment that gives a part, and nothing else.
LEMMA NewRows ==
    ASSUME NEW part, NEW key, FreshRows(part, key), NEW state, NEW mode, NEW k \in Keys
    PROVE  \/ NewRefunds(part, key, state, mode)[k] = refund[k]
           \/ /\ refund[k] = NoRefund /\ gwRefund[k] = NoGwRefund
              /\ \E p \in Payments :
                    /\ part[p] > 0 /\ key[p] = k
                    /\ NewRefunds(part, key, state, mode)[k] =
                          [status |-> state, payment |-> p, amount |-> part[p], mode |-> mode[p]]
<1>1. CASE \E p \in Payments : part[p] > 0 /\ key[p] = k
  <2> DEFINE p == CHOOSE q \in Payments : part[q] > 0 /\ key[q] = k
  <2>1. p \in Payments /\ part[p] > 0 /\ key[p] = k
    BY <1>1
  <2>2. NewRefunds(part, key, state, mode)[k] =
           [status |-> state, payment |-> p, amount |-> part[p], mode |-> mode[p]]
    BY <1>1 DEF NewRefunds
  <2> HIDE DEF p
  <2>3. k \in FreeKeys
    BY <2>1 DEF FreshRows
  <2>4. QED
    BY <2>1, <2>2, <2>3 DEF FreeKeys
<1>2. CASE ~ \E p \in Payments : part[p] > 0 /\ key[p] = k
  BY <1>2 DEF NewRefunds
<1>3. QED
  BY <1>1, <1>2

-------------------------------------------------------------------------------
(* What the refund steps do.                                               *)

\* The gateway holds a refund of payment p.
RefundedAtGateway(p) == \E k \in Keys : gwRefund[k].payment = p

\* The payment's money has reached the shop, or the gateway, which refunds it.
Received(p) ==
    \/ payment[p].status = "Success"
    \/ gateway[p] = "settlement" /\ RefundedAtGateway(p)

\* What the refund steps do to the payments, the ledger and the order: they
\* ask for refunds, record and settle one of payment p, or confirm them all.
RefundKinds ==
    \/ /\ UNCHANGED <<payment, invoice>> /\ LedgerStill
       /\ \/ UNCHANGED status
          \/ status # "refunded" /\ status' = "cancelled" /\ PendingOnline = {} /\ status \notin OrderTerminal
    \/ \E p \in Payments : RefreshRefundState(p) /\ LedgerOf(p) /\ Received(p)
    \/ ConfirmRefund

\* A refund row that was there, possibly under another key, is still there; one
\* is there once refunds are asked for, recorded, sent again or confirmed,
\* except that a confirmation may be about payments alone.
HasRefund == \E k \in Keys : refund[k].status # "none"
RefundRecorded ==
    /\ HasRefund => HasRefund'
    /\ \/ UNCHANGED <<payment, status>> \/ HasRefund'
       \/ Paid # {} /\ status' \in {"refunded", status}

\* A refund the database completes on the gateway's word is confirmed there.
ConfirmedStays ==
    \A k \in Keys : refund[k].status = "completed" /\ gwRefund[k].status = "confirmed" =>
        gwRefund'[k].status = "confirmed"
CompletedByBank ==
    \A k \in Keys : refund'[k].status = "completed" =>
        \/ refund'[k] = refund[k]
        \/ refund'[k].mode \notin {"auto", "in_progress"}
        \/ gwRefund'[k].status = "confirmed"

\* The rows of the gateway and of the ledger after the step.
GatewayRowsStep ==
    \A k \in Keys :
        \/ gwRefund'[k] = NoGwRefund
        \/ /\ gwRefund'[k].status # "none" /\ gwRefund'[k].amount > 0
           /\ gwRefund'[k].payment \in Payments
           /\ gateway[gwRefund'[k].payment] = "settlement"
RefundRowsStep ==
    \A k \in Keys :
        \/ refund'[k] = NoRefund
        \/ /\ refund'[k].status # "none" /\ refund'[k].amount > 0
           /\ refund'[k].payment \in Payments
           /\ payment[refund'[k].payment].status # "none"

LedgerStep ==
    /\ LedgerGrows /\ ConfirmedStays /\ CompletedByBank
    /\ GatewayRowsStep /\ RefundRowsStep /\ RefundRecorded

\* A step that leaves the ledger alone.
LEMMA SameLedger ==
    ASSUME TypeOK, RowsInv, UNCHANGED refund, GatewayRowsStep, ConfirmedStays,
           UNCHANGED <<payment, status>> \/ HasRefund
    PROVE  LedgerStep /\ LedgerStill
BY DEF LedgerStep, LedgerGrows, CompletedByBank, RefundRowsStep, RefundRecorded, HasRefund,
   LedgerStill, RowsInv, RefundRowsOK

\* The gateway's refunds are as they were.
LEMMA SameGatewayRefunds ==
    ASSUME RowsInv, UNCHANGED gwRefund PROVE GatewayRowsStep /\ ConfirmedStays
BY DEF GatewayRowsStep, ConfirmedStays, RowsInv, GatewayRefundsOK

\* A refund is asked for of the payments, part by part.
LEMMA RequestRefundStep ==
    ASSUME TypeOK, RowsInv, RequestRefund
    PROVE  /\ LedgerStep /\ RefundKinds
           /\ \A k \in Keys : gwRefund'[k] = gwRefund[k] \/ gwRefund'[k].payment \in Paid
<1>1. PICK requested \in 1..Total, part \in [Payments -> 0..Total], key \in [Payments -> Keys],
           taken \in SUBSET Payments, mode \in [Payments -> {"auto", "in_progress", "manual"}] :
              /\ requested <= SumFunction(Refundable)
              /\ part = Allocation(Refundable, requested)
              /\ SendRefunds(part, key, taken, mode)
  BY DEF RequestRefund
<1>2. /\ FreshRows(part, key) /\ refund' = NewRefunds(part, key, "pending", mode)
      /\ gwRefund' = [k \in Keys |->
            IF \E p \in taken : key[p] = k
            THEN [status |-> "accepted", payment |-> refund'[k].payment,
                  amount |-> refund'[k].amount]
            ELSE gwRefund[k]]
  BY <1>1 DEF SendRefunds
<1>3. \A p \in Payments : part[p] \in Nat /\ (part[p] > 0 => p \in Paid)
  <2>1. requested \in Int /\ Refundable \in [Payments -> Int]
    BY LeftToRefund, ConstantsAssumption
  <2>2. \A p \in Payments : part[p] <= Refundable[p]
    BY <1>1, <2>1, AllocationBound
  <2>3. QED
    BY <1>1, <2>1, <2>2, LeftToRefund, ConstantsAssumption
<1>4. PICK p \in Payments : part[p] > 0
  BY <1>1, LeftToRefund, AllocationGives, ConstantsAssumption
<1>5. ASSUME NEW k \in Keys
      PROVE  \/ refund'[k] = refund[k]
             \/ /\ refund[k] = NoRefund /\ gwRefund[k] = NoGwRefund
                /\ \E q \in Payments :
                      /\ part[q] > 0 /\ key[q] = k
                      /\ refund'[k] = [status |-> "pending", payment |-> q, amount |-> part[q],
                                       mode |-> mode[q]]
  BY <1>2, NewRows
<1>6. ASSUME NEW q \in Payments, part[q] > 0
      PROVE  /\ key[q] \in Keys /\ refund[key[q]] = NoRefund /\ gwRefund[key[q]] = NoGwRefund
             /\ refund'[key[q]] = [status |-> "pending", payment |-> q, amount |-> part[q],
                                   mode |-> mode[q]]
  <2>1. key[q] \in FreeKeys
    BY <1>2, <1>6 DEF FreshRows
  <2>2. \E r \in Payments : part[r] > 0 /\ key[r] = key[q]
    BY <1>6
  <2>3. \A r \in Payments : part[r] > 0 /\ key[r] = key[q] => r = q
    BY <1>2, <1>6 DEF FreshRows
  <2>4. refund'[key[q]] = [status |-> "pending", payment |-> q, amount |-> part[q],
                           mode |-> mode[q]]
    <3> DEFINE r == CHOOSE r \in Payments : part[r] > 0 /\ key[r] = key[q]
    <3>1. refund'[key[q]] = [status |-> "pending", payment |-> r, amount |-> part[r],
                             mode |-> mode[r]]
      BY <1>2, <2>1, <2>2 DEF NewRefunds, FreeKeys
    <3>2. r = q
      BY <2>2, <2>3
    <3> HIDE DEF r
    <3>3. QED
      BY <3>1, <3>2
  <2>5. QED
    BY <2>1, <2>4 DEF FreeKeys
<1>7. ASSUME NEW k \in Keys
      PROVE  \/ refund'[k] = refund[k]
             \/ /\ refund[k].status = "none" /\ refund'[k].status = "pending"
                /\ refund'[k].amount > 0 /\ refund'[k].payment \in Paid
  <2>1. CASE refund'[k] # refund[k]
    <3>1. refund[k].status = "none"
      BY <1>5, <2>1 DEF NoRefund
    <3>2. PICK q \in Payments :
             /\ part[q] > 0
             /\ refund'[k] = [status |-> "pending", payment |-> q, amount |-> part[q],
                              mode |-> mode[q]]
      BY <1>5, <2>1
    <3>3. QED
      BY <1>3, <3>1, <3>2
  <2>2. QED
    BY <2>1
<1>8. LedgerGrows /\ LedgerStill
  <2>1. LedgerGrows
    BY <1>7 DEF LedgerGrows
  <2>2. LedgerStill
    BY <1>7 DEF LedgerStill
  <2>3. QED
    BY <2>1, <2>2
<1>9. ASSUME NEW k \in Keys
      PROVE  \/ gwRefund'[k] = gwRefund[k]
             \/ /\ gwRefund[k].status = "none" /\ gwRefund'[k].status = "accepted"
                /\ gwRefund'[k].amount > 0 /\ gwRefund'[k].payment \in Payments
                /\ gateway[gwRefund'[k].payment] = "settlement"
                /\ gwRefund'[k].payment \in Paid
  <2>1. CASE \E q \in taken : key[q] = k
    <3>1. PICK q \in taken : key[q] = k
      BY <2>1
    <3>2. q \in Payments /\ part[q] > 0 /\ gateway[q] = "settlement"
      BY <1>1, <3>1 DEF SendRefunds, RefundAnswers, GatewayCanRefund
    <3> q \in Paid
      BY <1>3, <3>2
    <3>3. /\ gwRefund[k] = NoGwRefund
          /\ refund'[k] = [status |-> "pending", payment |-> q, amount |-> part[q],
                           mode |-> mode[q]]
      BY <1>6, <3>1, <3>2
    <3>4. gwRefund'[k] = [status |-> "accepted", payment |-> q, amount |-> part[q]]
      BY <1>2, <2>1, <3>3
    <3>5. QED
      BY <3>2, <3>3, <3>4 DEF NoGwRefund
  <2>2. CASE ~ \E q \in taken : key[q] = k
    BY <1>2, <2>2
  <2>3. QED
    BY <2>1, <2>2
<1>10. ConfirmedStays /\ GatewayRowsStep
  <2>1. ConfirmedStays
    BY <1>9 DEF ConfirmedStays
  <2>2. GatewayRowsStep
    BY <1>9 DEF GatewayRowsStep, RowsInv, GatewayRefundsOK
  <2>3. QED
    BY <2>1, <2>2
<1>11. CompletedByBank
  BY <1>7 DEF CompletedByBank
<1>12. RefundRowsStep
  <2>1. \A q \in Paid : q \in Payments /\ payment[q].status # "none"
    BY DEF Paid, WithStatus
  <2>2. QED
    BY <1>7, <2>1 DEF RefundRowsStep, RowsInv, RefundRowsOK
<1>13. HasRefund'
  <2>1. /\ key[p] \in Keys
        /\ refund'[key[p]] = [status |-> "pending", payment |-> p, amount |-> part[p],
                              mode |-> mode[p]]
    BY <1>4, <1>6
  <2>2. refund'[key[p]].status # "none"
    BY <2>1
  <2>3. QED
    BY <2>1, <2>2 DEF HasRefund
<1>14. RefundKinds
  <2>1. status \notin OrderTerminal /\ status # "refunded" /\ PendingOnline = {}
    BY DEF RequestRefund, OrderTerminal
  <2>2. QED
    BY <1>8, <2>1 DEF RefundKinds, RequestRefund
<1>15. QED
  BY <1>8, <1>9, <1>10, <1>11, <1>12, <1>13, <1>14 DEF LedgerStep, RefundRecorded

\* An entry of the gateway for payment p is written to the ledger.
LEMMA RecordRefundStep ==
    ASSUME TypeOK, RowsInv, NEW p \in Payments, NEW k \in Keys, NEW confirmed \in BOOLEAN,
           CompleteRefund(p, k, confirmed)
    PROVE  LedgerStep /\ RefundKinds
<1>1. /\ refund \in [Keys -> RefundRows] /\ p # 0
      /\ UNCHANGED gwRefund /\ RefreshRefundState(p)
      /\ gwRefund[k].payment = p /\ confirmed => gwRefund[k].status = "confirmed"
      /\ RecordRefund(p, k, confirmed)
  BY DEF TypeOK, CompleteRefund, gatewayVars, RefundReport, Payments
<1>2. gwRefund[k].payment = p
  BY DEF CompleteRefund, RefundReport
<1>3. gwRefund[k].amount > 0 /\ gateway[p] = "settlement" /\ RefundedAtGateway(p)
  BY <1>1, <1>2 DEF RowsInv, GatewayRefundsOK, NoGwRefund, RefundedAtGateway
<1>4. payment[p].status # "none"
  BY <1>3 DEF RowsInv, PaymentRowsOK, NoPayment
<1>5. GatewayRowsStep /\ ConfirmedStays
  BY <1>1, SameGatewayRefunds
<1> DEFINE Row(r) == r.status # "none" /\ r.payment = p /\ r.amount > 0
           Fits(r) == r.status = "completed" => gwRefund[k].status = "confirmed"
           Others(j) == refund'[j] = refund[j]
<1>6. ASSUME NEW r, r \in RefundRows, Row(r), r.status = "pending"
      PROVE  Row(Recorded(r, confirmed)) /\ Fits(Recorded(r, confirmed))
             /\ Recorded(r, confirmed).status \in {"pending", "completed"}
  BY <1>1, <1>2, <1>6 DEF Recorded, RefundRows
<1>7. CASE /\ refund[k] # NoRefund /\ refund[k].payment = p
           /\ refund' = [refund EXCEPT ![k] = Recorded(@, confirmed)]
  <2>1. /\ \A j \in Keys \ {k} : Others(j)
        /\ refund'[k] = Recorded(refund[k], confirmed)
    BY <1>1, <1>7
  <2>2. Row(refund[k]) /\ refund[k] \in RefundRows
    BY <1>1, <1>7 DEF RowsInv, RefundRowsOK
  <2>3. /\ Row(refund'[k]) /\ refund'[k].amount = refund[k].amount
        /\ refund'[k] = refund[k] \/ (refund'[k].status = "completed" /\ confirmed)
    BY <2>1, <2>2 DEF Recorded, RefundRows
  <2>4. refund[k].status = "completed" => refund'[k].status = "completed"
    BY <2>3
  <2> HIDE DEF Row
  <2>5. LedgerGrows /\ LedgerOf(p)
    BY <1>7, <2>1, <2>3, <2>4 DEF LedgerGrows, LedgerOf, Row
  <2>6. CompletedByBank
    BY <1>1, <1>2, <1>5, <2>1, <2>3 DEF CompletedByBank
  <2>7. RefundRowsStep
    BY <1>4, <2>1, <2>3 DEF RefundRowsStep, RowsInv, RefundRowsOK, Row
  <2>8. HasRefund'
    BY <2>3 DEF HasRefund, Row
  <2>9. QED
    BY <1>1, <1>3, <1>5, <2>5, <2>6, <2>7, <2>8
       DEF LedgerStep, RefundRecorded, RefundKinds, Received
<1>8. CASE /\ refund[k] = NoRefund
           /\ refund' = [refund EXCEPT ![k] = Recorded([status |-> "pending", payment |-> p,
                            amount |-> gwRefund[k].amount, mode |-> "midtrans"], confirmed)]
  <2> DEFINE new == [status |-> "pending", payment |-> p, amount |-> gwRefund[k].amount,
                     mode |-> "midtrans"]
  <2>1. /\ \A j \in Keys \ {k} : Others(j)
        /\ refund'[k] = Recorded(new, confirmed)
    BY <1>1, <1>8
  <2>2. Recorded(new, confirmed) = [new EXCEPT !.status = IF confirmed THEN "completed" ELSE "pending"]
    BY DEF Recorded
  <2>3. /\ Row(refund'[k]) /\ refund'[k].mode = "midtrans"
        /\ refund[k].status = "none"
    BY <1>3, <1>8, <2>1, <2>2 DEF NoRefund
  <2> HIDE DEF Row, new
  <2>5. LedgerGrows /\ LedgerOf(p)
    BY <2>1, <2>3 DEF LedgerGrows, LedgerOf, Row
  <2>6. CompletedByBank
    BY <2>1, <2>3 DEF CompletedByBank
  <2>7. RefundRowsStep
    BY <1>4, <2>1, <2>3 DEF RefundRowsStep, RowsInv, RefundRowsOK, Row
  <2>8. HasRefund'
    BY <2>3 DEF HasRefund, Row
  <2>9. QED
    BY <1>1, <1>3, <1>5, <2>5, <2>6, <2>7, <2>8
       DEF LedgerStep, RefundRecorded, RefundKinds, Received
<1>9. ASSUME refund[k] = NoRefund, NEW j \in Bindable(p, gwRefund[k].amount),
             refund' = [refund EXCEPT ![k] = Recorded(refund[j], confirmed), ![j] = NoRefund]
      PROVE  LedgerStep /\ RefundKinds
  <2>1. /\ j \in Keys /\ refund[j].status = "pending" /\ refund[j].payment = p
        /\ refund[j].amount > 0 /\ refund[j] \in RefundRows
    BY <1>1, <1>3, <1>9 DEF Bindable
  <2>2. j # k /\ refund[k].status = "none"
    BY <1>9, <2>1 DEF NoRefund
  <2>3. /\ \A i \in Keys \ {j, k} : Others(i)
        /\ refund'[k] = Recorded(refund[j], confirmed) /\ refund'[j] = NoRefund
    BY <1>1, <1>9, <2>1, <2>2
  <2>4. Row(refund'[k]) /\ Fits(refund'[k])
    BY <1>6, <2>1, <2>3
  <2>5. refund'[j].status = "none"
    BY <2>3 DEF NoRefund
  <2> HIDE DEF Row
  <2>6. LedgerGrows /\ LedgerOf(p)
    BY <2>1, <2>2, <2>3, <2>4, <2>5 DEF LedgerGrows, LedgerOf, Row
  <2>7. CompletedByBank
    BY <1>1, <2>3, <2>4, <2>5 DEF CompletedByBank
  <2>8. RefundRowsStep
    BY <1>4, <2>3, <2>4 DEF RefundRowsStep, RowsInv, RefundRowsOK, Row
  <2>9. HasRefund'
    BY <2>4 DEF HasRefund, Row
  <2>10. QED
    BY <1>1, <1>3, <1>5, <2>6, <2>7, <2>8, <2>9
       DEF LedgerStep, RefundRecorded, RefundKinds, Received
<1>10. QED
  BY <1>1, <1>7, <1>8, <1>9 DEF RecordRefund

\* The operator script sends a refund again.
LEMMA RetryRefundStep ==
    ASSUME TypeOK, RowsInv, NEW p \in Payments, NEW k \in Keys, RetryRefund(p, k)
    PROVE  LedgerStep /\ RefundKinds
<1>1. /\ refund \in [Keys -> RefundRows] /\ gwRefund \in [Keys -> GwRefundRows]
      /\ payment[p].status = "Success"
      /\ refund[k].status = "pending" /\ refund[k].payment = p /\ refund[k].amount > 0
  BY DEF TypeOK, RetryRefund, RowsInv, RefundRowsOK, NoRefund
<1>2. HasRefund
  BY <1>1 DEF HasRefund
<1>3. CASE \E confirmed \in BOOLEAN : CompleteRefund(p, k, confirmed)
  BY <1>3, RecordRefundStep
<1>4. ASSUME \A j \in Keys : gwRefund[j].payment # p, GatewayCanRefund(p, refund[k].amount),
             gwRefund' = [gwRefund EXCEPT ![k] =
                [status |-> "accepted", payment |-> p, amount |-> refund[k].amount]],
             UNCHANGED refund,
             UNCHANGED <<payment, status, invoice, reversals>> \/ RefreshRefundState(p),
             UNCHANGED <<fulfillment, settlementDue, soldCount, alerts, createdVia, charge,
                         gateway, processVars, clock>>
      PROVE  LedgerStep /\ RefundKinds
  <2>1. gateway[p] = "settlement"
    BY <1>4 DEF GatewayCanRefund
  <2>2. /\ gwRefund'[k] = [status |-> "accepted", payment |-> p, amount |-> refund[k].amount]
        /\ \A j \in Keys \ {k} : gwRefund'[j] = gwRefund[j]
    BY <1>1, <1>4
  <2>3. GatewayRowsStep
    BY <1>1, <2>1, <2>2 DEF GatewayRowsStep, RowsInv, GatewayRefundsOK
  <2>4. ConfirmedStays
    BY <1>1, <2>2 DEF ConfirmedStays
  <2>5. LedgerStep /\ LedgerStill
    BY <1>2, <1>4, <2>3, <2>4, SameLedger
  <2>6. LedgerOf(p) /\ Received(p)
    BY <1>1, <2>5 DEF LedgerOf, LedgerStill, Received
  <2>7. QED
    BY <1>4, <2>5, <2>6 DEF RefundKinds
<1>5. CASE /\ \E mode \in {"in_progress", "manual"} : refund' = [refund EXCEPT ![k].mode = mode]
           /\ UNCHANGED <<gwRefund, payment, status, invoice, reversals>>
  <2>1. PICK mode \in {"in_progress", "manual"} : refund' = [refund EXCEPT ![k].mode = mode]
    BY <1>5
  <2>2. /\ \A j \in Keys \ {k} : refund'[j] = refund[j]
        /\ refund'[k].status = "pending" /\ refund'[k].payment = p
        /\ refund'[k].amount = refund[k].amount
    BY <1>1, <2>1 DEF RefundRows
  <2>3. LedgerGrows /\ LedgerStill
    BY <1>1, <2>2 DEF LedgerGrows, LedgerStill
  <2>4. CompletedByBank
    BY <2>2 DEF CompletedByBank
  <2>5. RefundRowsStep
    BY <1>1, <2>2 DEF RefundRowsStep, RowsInv, RefundRowsOK
  <2>6. HasRefund'
    BY <2>2 DEF HasRefund
  <2>7. GatewayRowsStep /\ ConfirmedStays
    BY <1>5, SameGatewayRefunds
  <2>8. QED
    BY <1>5, <2>3, <2>4, <2>5, <2>6, <2>7 DEF LedgerStep, RefundRecorded, RefundKinds
<1>6. QED
  BY <1>3, <1>4, <1>5 DEF RetryRefund

\* The seller confirms the refunds.
LEMMA ConfirmRefundStep == ASSUME TypeOK, RowsInv, ConfirmRefund PROVE LedgerStep /\ RefundKinds
<1>1. refund \in [Keys -> RefundRows] /\ UNCHANGED gwRefund
  BY DEF TypeOK, ConfirmRefund, gatewayVars
<1>2. GatewayRowsStep /\ ConfirmedStays
  BY <1>1, SameGatewayRefunds
<1>3. CASE ConfirmPending
  <2>1. \A k \in Keys : refund'[k] = Recorded(refund[k], k \in PendingRefunds)
    BY <1>3 DEF ConfirmPending
  <2>2. ASSUME NEW k \in Keys
        PROVE  \/ refund'[k] = refund[k]
               \/ /\ refund[k].status = "pending" /\ refund'[k].status = "completed"
                  /\ refund[k].mode \notin {"auto", "in_progress"}
                  /\ refund'[k].mode = refund[k].mode
                  /\ refund'[k].payment = refund[k].payment
                  /\ refund'[k].amount = refund[k].amount
    <3>1. CASE k \in PendingRefunds
      <4>1. refund[k].status = "pending" /\ refund[k].mode \notin {"auto", "in_progress"}
        BY <1>3, <3>1 DEF ConfirmPending, PendingRefunds
      <4>2. refund'[k] = [refund[k] EXCEPT !.status = "completed"]
        BY <2>1, <3>1 DEF Recorded
      <4>3. QED
        BY <1>1, <4>1, <4>2 DEF RefundRows
    <3>2. CASE k \notin PendingRefunds
      BY <2>1, <3>2 DEF Recorded
    <3>3. QED
      BY <3>1, <3>2
  <2>3. LedgerGrows
    BY <2>2 DEF LedgerGrows
  <2>4. CompletedByBank
    BY <2>2 DEF CompletedByBank
  <2>5. RefundRowsStep
    BY <2>2 DEF RefundRowsStep, RowsInv, RefundRowsOK, NoRefund
  <2>6. HasRefund'
    <3>1. PICK k \in Keys : refund[k].status = "pending"
      BY <1>3 DEF ConfirmPending, PendingRefunds
    <3>2. QED
      BY <2>2, <3>1 DEF HasRefund
  <2>7. QED
    BY <1>2, <2>3, <2>4, <2>5, <2>6 DEF LedgerStep, RefundRecorded, RefundKinds
<1>4. CASE ConfirmRest
  <2> DEFINE requested == Gross(payment) - RefundedTotal(refund)
  <2>1. PICK part \in [Payments -> 0..Total], key \in [Payments -> Keys] :
           /\ part = Allocation(NotRefunded, requested)
           /\ FreshRows(part, key)
           /\ refund' = NewRefunds(part, key, "completed", [p \in Payments |-> "seller"])
    BY <1>4 DEF ConfirmRest
  <2>2. \A p \in Payments : part[p] \in Nat /\ (part[p] > 0 => p \in Paid)
    <3>1. requested \in Int /\ NotRefunded \in [Payments -> Int]
      BY LeftToRefund, Totals DEF TypeOK
    <3> HIDE DEF requested
    <3>2. \A p \in Payments : part[p] <= NotRefunded[p]
      BY <2>1, <3>1, AllocationBound
    <3>3. QED
      BY <2>1, <3>1, <3>2, LeftToRefund, ConstantsAssumption
  <2> HIDE DEF requested
  <2>3. ASSUME NEW k \in Keys
        PROVE  \/ refund'[k] = refund[k]
               \/ /\ refund[k].status = "none" /\ refund'[k].status = "completed"
                  /\ refund'[k].mode = "seller"
                  /\ refund'[k].amount > 0 /\ refund'[k].payment \in Paid
    <3>1. CASE refund'[k] # refund[k]
      <4> DEFINE mode == [q \in Payments |-> "seller"]
      <4>1. /\ refund[k] = NoRefund
            /\ \E p \in Payments :
                  /\ part[p] > 0
                  /\ refund'[k] = [status |-> "completed", payment |-> p, amount |-> part[p],
                                   mode |-> mode[p]]
        <5>1. refund' = NewRefunds(part, key, "completed", mode)
          BY <2>1
        <5> HIDE DEF mode
        <5>2. FreshRows(part, key)
          BY <2>1
        <5>3. \/ refund'[k] = refund[k]
              \/ /\ refund[k] = NoRefund /\ gwRefund[k] = NoGwRefund
                 /\ \E p \in Payments :
                       /\ part[p] > 0 /\ key[p] = k
                       /\ refund'[k] = [status |-> "completed", payment |-> p,
                                        amount |-> part[p], mode |-> mode[p]]
          BY <5>1, <5>2, NewRows
        <5>4. QED
          BY <3>1, <5>3
      <4>2. PICK p \in Payments :
               /\ part[p] > 0
               /\ refund'[k] = [status |-> "completed", payment |-> p, amount |-> part[p],
                                mode |-> "seller"]
        BY <4>1
      <4>3. refund[k].status = "none"
        BY <4>1 DEF NoRefund
      <4>4. QED
        BY <2>2, <4>2, <4>3
    <3>2. QED
      BY <3>1
  <2>4. LedgerGrows
    BY <2>3 DEF LedgerGrows
  <2>5. CompletedByBank
    BY <2>3 DEF CompletedByBank
  <2>6. RefundRowsStep
    <3>1. \A q \in Paid : q \in Payments /\ payment[q].status # "none"
      BY DEF Paid, WithStatus
    <3>2. QED
      BY <2>3, <3>1 DEF RefundRowsStep, RowsInv, RefundRowsOK
  <2>7. Paid # {}
    <3>1. Gross(payment) # 0
      BY <1>4, Totals DEF ConfirmRest, TypeOK
    <3>2. QED
      BY <3>1, AmountsEmpty DEF Gross, Paid
  <2>8. HasRefund => HasRefund'
    BY <2>3 DEF HasRefund
  <2>9. status' \in {"refunded", status}
    BY DEF ConfirmRefund
  <2>10. QED
    BY <1>2, <2>4, <2>5, <2>6, <2>7, <2>8, <2>9 DEF LedgerStep, RefundRecorded, RefundKinds
<1>5. QED
  BY <1>3, <1>4 DEF ConfirmRefund

\* Every step about refunds.
LEMMA RefundSteps == ASSUME TypeOK, RowsInv, Refunding PROVE LedgerStep /\ RefundKinds
<1>1. ASSUME NEW k \in Keys, GatewaySettlesRefund(k) PROVE LedgerStep /\ RefundKinds
  <2>1. UNCHANGED <<payment, status, invoice, refund>> /\ gwRefund[k].status = "accepted"
    BY <1>1 DEF GatewaySettlesRefund, orderVars
  <2>2. /\ \A j \in Keys \ {k} : gwRefund'[j] = gwRefund[j]
        /\ gwRefund'[k] = NoGwRefund \/ gwRefund'[k] = [gwRefund[k] EXCEPT !.status = "confirmed"]
    BY <1>1 DEF GatewaySettlesRefund, TypeOK
  <2>3. ConfirmedStays
    BY <2>1, <2>2 DEF ConfirmedStays
  <2>4. [gwRefund[k] EXCEPT !.status = "confirmed"] =
           [status |-> "confirmed", payment |-> gwRefund[k].payment, amount |-> gwRefund[k].amount]
    BY DEF TypeOK, GwRefundRows
  <2>5. GatewayRowsStep
    BY <2>1, <2>2, <2>4 DEF GatewayRowsStep, RowsInv, GatewayRefundsOK, NoGwRefund
  <2>6. QED
    BY <2>1, <2>3, <2>5, SameLedger DEF RefundKinds
<1>2. ASSUME NEW p \in Payments, NEW k \in Keys, NEW amount \in 1..Total,
             GatewayOwnRefund(p, k, amount)
      PROVE  LedgerStep /\ RefundKinds
  <2>1. /\ UNCHANGED <<payment, status, invoice, refund>> /\ refund[k] = NoRefund
        /\ gateway[p] = "settlement"
    BY <1>2 DEF GatewayOwnRefund, GatewayCanRefund, orderVars
  <2>2. /\ \A j \in Keys \ {k} : gwRefund'[j] = gwRefund[j]
        /\ gwRefund'[k] = [status |-> "accepted", payment |-> p, amount |-> amount]
    BY <1>2 DEF GatewayOwnRefund, TypeOK
  <2>3. ConfirmedStays
    BY <2>1, <2>2 DEF ConfirmedStays, NoRefund
  <2>4. amount > 0
    BY ConstantsAssumption
  <2>5. GatewayRowsStep
    BY <2>1, <2>2, <2>4 DEF GatewayRowsStep, RowsInv, GatewayRefundsOK
  <2>6. QED
    BY <2>1, <2>3, <2>5, SameLedger DEF RefundKinds
<1>3. ASSUME NEW p \in Payments, NEW k \in Keys, RefundWebhook(p, k) \/ ReconcileRefund(p, k)
      PROVE  LedgerStep /\ RefundKinds
  BY <1>3, RecordRefundStep DEF RefundWebhook, ReconcileRefund
<1>4. QED
  BY <1>1, <1>2, <1>3, RequestRefundStep, RetryRefundStep, ConfirmRefundStep DEF Refunding

-------------------------------------------------------------------------------
(* The rows stay in order.                                                 *)

\* The restated payments keep their amount and their channel, and are Refunded
\* exactly when all of their amount was returned.
LEMMA RestatedRows ==
    ASSUME TypeOK, NEW ref, NEW S, NEW q \in Payments
    PROVE  /\ q \notin S => Restated(payment, ref, S)[q] = payment[q]
           /\ q \in S =>
                 /\ Restated(payment, ref, S)[q].amount = payment[q].amount
                 /\ Restated(payment, ref, S)[q].online = payment[q].online
                 /\ Restated(payment, ref, S)[q].status =
                       IF CompletedOf(ref, q) = payment[q].amount THEN "Refunded" ELSE "Success"
<1>1. payment[q] \in PaymentRows
  BY DEF TypeOK
<1> DEFINE st == IF CompletedOf(ref, q) = payment[q].amount THEN "Refunded" ELSE "Success"
<1>2. Restated(payment, ref, S)[q] = IF q \in S THEN [payment[q] EXCEPT !.status = st] ELSE payment[q]
  BY DEF Restated
<1> HIDE DEF st
<1>3. QED
  BY <1>1, <1>2 DEF PaymentRows, st

\* How a payment row may change: it is made, or its status moves.
PaymentMove(q) ==
    \/ payment'[q] = payment[q]
    \/ /\ payment[q].status = "none"
       /\ payment'[q].status = IF payment'[q].online THEN "Pending" ELSE "Success"
       /\ payment'[q].amount > 0
    \/ /\ payment[q].status # "none"
       /\ payment'[q].amount = payment[q].amount /\ payment'[q].online = payment[q].online
       /\ payment'[q].status \in {"Success", "Refunded"}
          \/ (payment'[q].status = "Failed" /\ payment[q].online)

\* All payment rows change like that.
LEMMA PaymentMoves ==
    ASSUME TypeOK, GatewayInv, RowsInv, [Next]_vars, NEW q \in Payments
    PROVE  PaymentMove(q)
<1>1. payment \in [Payments -> PaymentRows]
  BY DEF TypeOK
<1>2. ASSUME NEW p \in Payments, gateway[p] # "none" \/ charge[p] # "idle"
      PROVE  payment[p].online /\ payment[p].status # "none"
  BY <1>2 DEF RowsInv, PaymentRowsOK, NoPayment
<1>3. CASE Refunding
  <2>1. ASSUME NEW S, payment' = Restated(payment, refund', S), \A p \in S : payment[p].status # "none"
        PROVE  PaymentMove(q)
    <3>1. CASE q \in S
      <4>1. /\ payment[q].status # "none"
            /\ payment'[q].amount = payment[q].amount /\ payment'[q].online = payment[q].online
            /\ payment'[q].status \in {"Success", "Refunded"}
        BY <2>1, <3>1, RestatedRows
      <4>2. QED
        BY <4>1 DEF PaymentMove
    <3>2. CASE q \notin S
      BY <2>1, <3>2, RestatedRows DEF PaymentMove
    <3>3. QED
      BY <3>1, <3>2
  <2>2. CASE UNCHANGED payment
    BY <2>2 DEF PaymentMove
  <2>3. ASSUME NEW p \in Payments, RefreshRefundState(p), Received(p) PROVE PaymentMove(q)
    <3>1. payment[p].status # "none" /\ payment' = Restated(payment, refund', {p})
      BY <1>2, <2>3 DEF Received, RefreshRefundState
    <3>2. QED
      BY <2>1, <3>1
  <2>4. CASE ConfirmRefund
    <3>1. payment' = Restated(payment, refund', Rows) /\ \A p \in Rows : payment[p].status # "none"
      BY <2>4 DEF ConfirmRefund, Rows
    <3>2. QED
      BY <2>1, <3>1
  <2>5. QED
    BY <1>3, <2>2, <2>3, <2>4, RefundSteps DEF RefundKinds
<1>4. CASE ~Refunding
  <2>1. ASSUME NEW p \in Payments, NEW type \in {"dp", "final"}, CreateCharge(p, type)
        PROVE  PaymentMove(q)
    <3>1. PICK amount \in 1..Total :
             payment' = [payment EXCEPT ![p] = [status |-> "Pending", type |-> type,
                                                amount |-> amount, online |-> TRUE]]
      BY <2>1 DEF CreateCharge
    <3>2. payment[p].status = "none" /\ amount > 0
      BY <2>1, ConstantsAssumption DEF CreateCharge, IsNext
    <3>3. CASE q = p
      <4>1. payment'[q] = [status |-> "Pending", type |-> type, amount |-> amount, online |-> TRUE]
        BY <1>1, <3>1, <3>3
      <4>2. QED
        BY <3>2, <3>3, <4>1 DEF PaymentMove
    <3>4. CASE q # p
      BY <1>1, <3>1, <3>4 DEF PaymentMove
    <3>5. QED
      BY <3>3, <3>4
  <2>2. ASSUME NEW p \in Payments, NEW amount \in 1..Total, ManualPayment(p, amount)
        PROVE  PaymentMove(q)
    <3>1. /\ payment' = [payment EXCEPT ![p] = [status |-> "Success", type |-> "final",
                                                amount |-> amount, online |-> FALSE]]
          /\ payment[p].status = "none" /\ amount > 0
      BY <2>2, ConstantsAssumption DEF ManualPayment, IsNext
    <3>2. CASE q = p
      <4>1. payment'[q] = [status |-> "Success", type |-> "final", amount |-> amount,
                           online |-> FALSE]
        BY <1>1, <3>1, <3>2
      <4>2. /\ payment'[q].online = FALSE /\ payment'[q].status = "Success"
            /\ payment'[q].amount = amount
        BY <4>1
      <4>3. QED
        BY <3>1, <3>2, <4>2 DEF PaymentMove
    <3>3. CASE q # p
      BY <1>1, <3>1, <3>3 DEF PaymentMove
    <3>4. QED
      BY <3>2, <3>3
  <2>3. ASSUME NEW p \in Payments, NEW st, payment' = [payment EXCEPT ![p].status = st],
               payment[p].status # "none", st = "Success" \/ (st = "Failed" /\ payment[p].online)
        PROVE  PaymentMove(q)
    <3>1. CASE q = p
      <4>1. /\ payment'[q].status = st /\ payment'[q].amount = payment[q].amount
            /\ payment'[q].online = payment[q].online
        BY <1>1, <2>3, <3>1 DEF PaymentRows
      <4>2. QED
        BY <2>3, <3>1, <4>1 DEF PaymentMove
    <3>2. CASE q # p
      BY <1>1, <2>3, <3>2 DEF PaymentMove
    <3>3. QED
      BY <3>1, <3>2
  <2>4. ASSUME NEW p \in Payments, Settle(p) PROVE PaymentMove(q)
    BY <2>3, <2>4 DEF Settle, ApplySuccess
  <2>5. ASSUME NEW p \in Payments, GiveUp(p) PROVE PaymentMove(q)
    <3>1. payment[p].online
      BY <1>2, <2>5 DEF GiveUp
    <3>2. QED
      BY <2>3, <2>5, <3>1 DEF GiveUp, ApplyFailure
  <2>6. ASSUME NEW p \in Payments, ChargeRejected(p) PROVE PaymentMove(q)
    <3>1. payment[p].online /\ payment[p].status # "none"
      BY <1>2, <2>6 DEF ChargeRejected
    <3>2. QED
      BY <2>3, <2>6, <3>1 DEF ChargeRejected
  <2>7. CASE UNCHANGED payment
    BY <2>7 DEF PaymentMove
  <2>8. QED
    BY <1>4, <2>1, <2>2, <2>4, <2>5, <2>6, <2>7, OrderSteps DEF OrderStep
<1>5. QED
  BY <1>3, <1>4

\* Every step keeps the rows of the payments, the ledger and the gateway.
LEMMA RowsStep == TypeOK /\ GatewayInv /\ RowsInv /\ [Next]_vars => RowsInv'
<1> SUFFICES ASSUME TypeOK, GatewayInv, RowsInv, [Next]_vars PROVE RowsInv'
  OBVIOUS
<1>1. PaymentRowsOK'
  <2> SUFFICES ASSUME NEW q \in Payments
               PROVE  /\ payment'[q].status = "none" => payment'[q] = NoPayment
                      /\ payment'[q].status # "none" => payment'[q].amount > 0
                      /\ ~payment'[q].online =>
                            /\ gateway'[q] = "none" /\ charge'[q] = "idle"
                            /\ payment'[q].status \in {"none", "Success", "Refunded"}
    BY DEF PaymentRowsOK
  <2>1. PaymentMove(q)
    BY PaymentMoves
  <2>2. /\ payment[q].status = "none" => payment[q] = NoPayment
        /\ payment[q].status # "none" => payment[q].amount > 0
        /\ ~payment[q].online =>
              /\ gateway[q] = "none" /\ charge[q] = "idle"
              /\ payment[q].status \in {"none", "Success", "Refunded"}
    BY DEF RowsInv, PaymentRowsOK
  <2>3. ASSUME NEW type \in {"dp", "final"}, CreateCharge(q, type) PROVE payment'[q].online
    BY <2>3 DEF CreateCharge, TypeOK
  <2>4. ~payment'[q].online => ~payment[q].online
    BY <2>1, <2>2 DEF PaymentMove, NoPayment
  <2>5. ~payment'[q].online => gateway'[q] = "none" /\ charge'[q] = "idle"
    BY <2>2, <2>3, <2>4, GatewayMoves
  <2>6. QED
    BY <2>1, <2>2, <2>5 DEF PaymentMove
<1>2. GatewayRowsStep /\ RefundRowsStep
  <2>1. CASE Refunding
    BY <2>1, RefundSteps DEF LedgerStep
  <2>2. CASE ~Refunding
    <3>1. UNCHANGED <<refund, gwRefund>>
      BY <2>2, OrderSteps
    <3>2. QED
      BY <3>1, SameGatewayRefunds DEF RefundRowsStep, RowsInv, RefundRowsOK
  <2>3. QED
    BY <2>1, <2>2
<1>3. GatewayRefundsOK'
  BY <1>2, GatewayMoves DEF GatewayRefundsOK, GatewayRowsStep
<1>4. RefundRowsOK'
  <2>1. \A q \in Payments : payment[q].status # "none" => payment'[q].status # "none"
    BY PaymentMoves DEF PaymentMove
  <2>2. QED
    BY <1>2, <2>1 DEF RefundRowsOK, RefundRowsStep
<1>5. QED
  BY <1>1, <1>3, <1>4 DEF RowsInv

\* A new order has no rows.
LEMMA RowsInit == Init => RowsInv
BY DEF Init, RowsInv, PaymentRowsOK, GatewayRefundsOK, RefundRowsOK, NoPayment, NoRefund, NoGwRefund

-------------------------------------------------------------------------------
(* The ledger agrees with the payments, the orders and the bank.           *)

\* An order that somebody cancelled, or that lapsed, has nothing open.
DeadNoPending == status \in {"cancelled", "cancelled_settlement_expired"} => PendingOnline = {}

\* What the ledger, the payments and the order keep, whatever happens.
LedgerInv ==
    /\ RowsInv /\ DeadNoPending
    /\ RefundsMatchPayments /\ CancelledHasRefund /\ GatewayRefundNeedsBank

\* A payment with refunds completed for all of its amount has a refund row.
LEMMA RefundedHasRefund ==
    ASSUME TypeOK, RowsInv, RefundsMatchPayments, NEW p \in Payments,
           payment[p].status = "Refunded"
    PROVE  HasRefund
<1>1. CompletedOf(refund, p) # 0
  BY DEF RefundsMatchPayments, RowsInv, PaymentRowsOK
<1>2. {k \in Keys : refund[k].status = "completed" /\ refund[k].payment = p} # {}
  BY <1>1, AmountsEmpty DEF CompletedOf
<1>3. QED
  BY <1>2 DEF HasRefund

\* Where a step leaves an order closed to payments, nothing is open.
LEMMA DeadNoPendingStep ==
    ASSUME TypeOK, GatewayInv, RowsInv, DeadNoPending, [Next]_vars
    PROVE  DeadNoPending'
<1> USE DEF DeadNoPending
<1>1. ASSUME PendingOnline = {}, \A q \in Payments : payment'[q].status = "Pending" => Open(q)
      PROVE  DeadNoPending'
  BY <1>1 DEF PendingOnline, WithStatus, Open
<1>2. CASE Refunding
  <2>1. \A q \in Payments : payment'[q].status = "Pending" => Open(q)
    BY <1>2, RefundingKeeps DEF Settles
  <2>2. CASE PendingOnline = {}
    BY <1>1, <2>1, <2>2
  <2>3. CASE PendingOnline # {}
    <3>1. status' \in {"refunded", status}
      BY <1>2, <2>3, RefundSteps DEF RefundKinds, RefreshRefundState, ConfirmRefund
    <3>2. QED
      BY <2>3, <3>1
  <2>4. QED
    BY <2>2, <2>3
<1>3. CASE ~Refunding
  <2>1. ASSUME NEW p \in Payments, GiveUp(p) PROVE DeadNoPending'
    <3>1. /\ payment' = [payment EXCEPT ![p].status = "Failed"]
          /\ UNCHANGED status \/ PendingOnline \ {p} = {}
      BY <2>1 DEF GiveUp, ApplyFailure
    <3>2. \A q \in Payments : payment'[q].status = "Pending" => q # p /\ payment[q].status = "Pending"
      BY <3>1 DEF TypeOK, PaymentRows
    <3>3. QED
      BY <3>1, <3>2 DEF PendingOnline, WithStatus
  <2>2. ASSUME NEW p \in Payments, Settle(p) \/ ChargeRejected(p) PROVE DeadNoPending'
    <3>1. UNCHANGED status /\ \E st \in {"Success", "Failed"} :
             payment' = [payment EXCEPT ![p].status = st]
      BY <2>2 DEF Settle, ApplySuccess, ChargeRejected, orderVars
    <3>2. \A q \in Payments : payment'[q].status = "Pending" => payment[q].status = "Pending"
      BY <3>1 DEF TypeOK, PaymentRows
    <3>3. QED
      BY <3>1, <3>2 DEF PendingOnline, WithStatus
  <2>3. ASSUME NEW p \in Payments,
               \/ \E type \in {"dp", "final"} : CreateCharge(p, type)
               \/ \E amount \in 1..Total : ManualPayment(p, amount)
        PROVE  DeadNoPending'
    BY <2>3 DEF CreateCharge, ChargeAllowed, ManualPayment, ClosedToPayment
  <2>4. CASE UNCHANGED payment /\ StatusMove
    <3>1. PendingOnline' = PendingOnline
      BY <2>4 DEF PendingOnline, WithStatus
    <3>2. QED
      BY <2>4, <3>1 DEF StatusMove, CountedSale
  <2>5. QED
    BY <1>3, <2>1, <2>2, <2>3, <2>4, OrderSteps DEF OrderStep
<1>4. QED
  BY <1>2, <1>3

\* No step returns more of a payment than it brought in.
LEMMA RefundsMatchStep ==
    ASSUME TypeOK, TypeOK', GatewayInv, RowsInv, RowsInv', RefundsMatchPayments, [Next]_vars
    PROVE  RefundsMatchPayments'
<1> DEFINE Match(q) ==
       /\ CompletedOf(refund', q) <= payment'[q].amount
       /\ payment'[q].status = "Refunded" => CompletedOf(refund', q) = payment'[q].amount
<1> SUFFICES ASSUME NEW q \in Payments PROVE Match(q)
  BY DEF RefundsMatchPayments
<1>1. /\ refund \in [Keys -> RefundRows] /\ refund' \in [Keys -> RefundRows]
      /\ CompletedOf(refund, q) <= payment[q].amount
      /\ payment[q].status = "Refunded" => CompletedOf(refund, q) = payment[q].amount
  BY DEF TypeOK, RefundsMatchPayments
<1>2. ASSUME NEW ref \in [Keys -> RefundRows], \A k \in Keys : ref[k].payment # q
      PROVE  CompletedOf(ref, q) = 0
  <2>1. {k \in Keys : ref[k].status = "completed" /\ ref[k].payment = q} = {}
    BY <1>2
  <2>2. QED
    BY <2>1, AmountsEmpty DEF CompletedOf
<1>3. payment'[q].amount \in Nat
  BY ConstantsAssumption DEF TypeOK, PaymentRows
<1>4. ASSUME LedgerGrows, LedgerStill, payment'[q].status = "Refunded" => payment'[q] = payment[q]
      PROVE  Match(q)
  <2>1. CompletedOf(refund', q) = CompletedOf(refund, q)
    BY <1>1, <1>4, LedgerTotals
  <2>2. CASE payment[q].status # "none"
    <3>1. payment'[q].amount = payment[q].amount
      BY <2>2, PaymentMoves DEF PaymentMove
    <3>2. QED
      BY <1>1, <1>4, <2>1, <3>1
  <2>3. CASE payment[q].status = "none"
    <3>1. \A k \in Keys : refund[k].payment # q
      BY <2>3 DEF RowsInv, RefundRowsOK, NoRefund, Payments
    <3>2. payment'[q].status # "Refunded"
      BY <1>4, <2>3
    <3>3. QED
      BY <1>1, <1>2, <1>3, <2>1, <3>1, <3>2
  <2>4. QED
    BY <2>2, <2>3
<1>5. CASE ~Refunding
  <2>1. UNCHANGED refund
    BY <1>5, OrderSteps
  <2>2. payment'[q].status = "Refunded" => payment'[q] = payment[q]
    <3>1. ASSUME NEW p \in Payments, NEW st \in {"Success", "Failed"},
                 payment' = [payment EXCEPT ![p].status = st]
          PROVE  payment'[q].status = "Refunded" => payment'[q] = payment[q]
      BY <3>1 DEF TypeOK, PaymentRows
    <3>2. ASSUME NEW p \in Payments, NEW row, row.status # "Refunded",
                 payment' = [payment EXCEPT ![p] = row]
          PROVE  payment'[q].status = "Refunded" => payment'[q] = payment[q]
      BY <3>2 DEF TypeOK
    <3>3. ASSUME NEW p \in Payments, Settle(p) \/ GiveUp(p) \/ ChargeRejected(p)
          PROVE  payment'[q].status = "Refunded" => payment'[q] = payment[q]
      BY <3>1, <3>3 DEF Settle, ApplySuccess, GiveUp, ApplyFailure, ChargeRejected
    <3>4. ASSUME NEW p \in Payments, NEW type, CreateCharge(p, type)
          PROVE  payment'[q].status = "Refunded" => payment'[q] = payment[q]
      BY <3>2, <3>4 DEF CreateCharge
    <3>5. ASSUME NEW p \in Payments, NEW amount, ManualPayment(p, amount)
          PROVE  payment'[q].status = "Refunded" => payment'[q] = payment[q]
      BY <3>2, <3>5 DEF ManualPayment
    <3>6. QED
      BY <1>5, <3>3, <3>4, <3>5, OrderSteps DEF OrderStep
  <2>3. QED
    BY <1>4, <2>1, <2>2 DEF LedgerGrows, LedgerStill
<1>6. CASE Refunding
  <2>1. LedgerGrows
    BY <1>6, RefundSteps DEF LedgerStep
  <2>2. CASE UNCHANGED payment /\ LedgerStill
    BY <1>4, <2>1, <2>2
  <2>3. ASSUME NEW p \in Payments, RefreshRefundState(p), LedgerOf(p) PROVE Match(q)
    <3>1. payment' = Restated(payment, refund', {p}) /\ CompletedOf(refund', p) <= payment[p].amount
      BY <2>3 DEF RefreshRefundState
    <3>2. CASE q = p
      BY <3>1, <3>2, RestatedRows
    <3>3. CASE q # p
      <4>1. payment'[q] = payment[q]
        BY <3>1, <3>3, RestatedRows
      <4>2. CompletedOf(refund', q) = CompletedOf(refund, q)
        BY <1>1, <2>1, <2>3, <3>3, LedgerTotals
      <4>3. QED
        BY <1>1, <4>1, <4>2
    <3>4. QED
      BY <3>2, <3>3
  <2>4. CASE ConfirmRefund
    <3>1. /\ payment' = Restated(payment, refund', Rows)
          /\ \A p \in Rows : CompletedOf(refund', p) <= payment[p].amount
      BY <2>4 DEF ConfirmRefund
    <3>2. CASE q \in Rows
      BY <3>1, <3>2, RestatedRows
    <3>3. CASE q \notin Rows
      <4>1. payment'[q] = payment[q] /\ payment[q].status = "none"
        BY <3>1, <3>3, RestatedRows DEF Rows
      <4>2. \A k \in Keys : refund'[k].payment # q
        BY <4>1 DEF RowsInv, RefundRowsOK, NoRefund, Payments
      <4>3. QED
        BY <1>1, <1>2, <1>3, <4>1, <4>2
    <3>4. QED
      BY <3>2, <3>3
  <2>5. QED
    BY <1>6, <2>2, <2>3, <2>4, RefundSteps DEF RefundKinds
<1>7. QED
  BY <1>5, <1>6

\* No step cancels a paid order, or takes money for a cancelled one, without a
\* refund on record.
LEMMA CancelledHasRefundStep ==
    ASSUME TypeOK, GatewayInv, LedgerInv, [Next]_vars
    PROVE  CancelledHasRefund'
<1> SUFFICES ASSUME status' = "cancelled", NEW q \in Paid' PROVE HasRefund'
  BY DEF CancelledHasRefund, HasRefund
<1>1. /\ q \in Payments /\ payment'[q].status \in {"Success", "Refunded"}
      /\ payment \in [Payments -> PaymentRows]
  BY DEF Paid, WithStatus, TypeOK
<1>2. status = "cancelled" /\ Paid # {} => HasRefund
  BY DEF LedgerInv, CancelledHasRefund, HasRefund
<1>3. status = "cancelled" => \A p \in Payments : payment[p].status # "Pending"
  BY DEF LedgerInv, DeadNoPending, PendingOnline, WithStatus
<1>4. ASSUME payment'[q] = payment[q], status = "cancelled" PROVE HasRefund
  BY <1>1, <1>2, <1>4 DEF Paid, WithStatus
<1>5. ASSUME payment'[q] = payment[q], WithStatus(payment, {"Success"}) = {} PROVE HasRefund
  <2>1. payment[q].status = "Refunded"
    BY <1>1, <1>5 DEF WithStatus
  <2>2. QED
    BY <1>1, <2>1, RefundedHasRefund DEF LedgerInv
<1>6. CASE Refunding
  <2>1. RefundRecorded
    BY <1>6, RefundSteps DEF LedgerInv, LedgerStep
  <2>2. CASE UNCHANGED <<payment, status>>
    BY <1>4, <2>1, <2>2 DEF RefundRecorded
  <2>3. CASE Paid # {} /\ status' \in {"refunded", status}
    BY <1>2, <2>1, <2>3 DEF RefundRecorded
  <2>4. QED
    BY <2>1, <2>2, <2>3 DEF RefundRecorded
<1>7. CASE ~Refunding
  <2>1. UNCHANGED refund /\ OrderStep
    BY <1>7, OrderSteps DEF LedgerInv
  <2>2. HasRefund => HasRefund'
    BY <2>1 DEF HasRefund
  <2>3. ASSUME NEW p \in Payments,
               \/ \E type \in {"dp", "final"} : CreateCharge(p, type)
               \/ \E amount \in 1..Total : ManualPayment(p, amount)
        PROVE  FALSE
    BY <2>3 DEF CreateCharge, ChargeAllowed, ManualPayment, ClosedToPayment
  <2>4. ASSUME NEW p \in Payments, Settle(p) PROVE FALSE
    BY <1>3, <2>4 DEF Settle, ApplySuccess
  <2>5. ASSUME NEW p \in Payments, payment' = [payment EXCEPT ![p].status = "Failed"]
        PROVE  payment'[q] = payment[q]
    BY <1>1, <2>5 DEF PaymentRows
  <2>6. ASSUME NEW p \in Payments, GiveUp(p) PROVE HasRefund
    <3>1. payment'[q] = payment[q]
      BY <2>5, <2>6 DEF GiveUp, ApplyFailure
    <3>2. CASE UNCHANGED status
      BY <1>4, <3>1, <3>2
    <3>3. CASE WithStatus(payment, {"Success"}) = {}
      BY <1>5, <3>1, <3>3
    <3>4. QED
      BY <2>6, <3>2, <3>3 DEF GiveUp, ApplyFailure
  <2>7. ASSUME NEW p \in Payments, ChargeRejected(p) PROVE HasRefund
    <3>1. payment'[q] = payment[q] /\ UNCHANGED status
      BY <2>5, <2>7 DEF ChargeRejected, orderVars
    <3>2. QED
      BY <1>4, <3>1
  <2>8. ASSUME UNCHANGED payment, StatusMove PROVE HasRefund
    <3>1. status = "cancelled" \/ WithStatus(payment, {"Success"}) = {}
      BY <2>8 DEF StatusMove, CountedSale
    <3>2. QED
      BY <1>4, <1>5, <2>8, <3>1
  <2>9. QED
    BY <2>1, <2>2, <2>3, <2>4, <2>6, <2>7, <2>8 DEF OrderStep
<1>8. QED
  BY <1>6, <1>7

\* No step completes a refund that the gateway is expected to make before the
\* bank has confirmed it.
LEMMA BankStep ==
    ASSUME TypeOK, GatewayInv, LedgerInv, [Next]_vars
    PROVE  GatewayRefundNeedsBank'
<1>1. RowsInv /\ GatewayRefundNeedsBank
  BY DEF LedgerInv
<1>2. CompletedByBank /\ ConfirmedStays
  <2>1. CASE Refunding
    BY <1>1, <2>1, RefundSteps DEF LedgerStep
  <2>2. CASE ~Refunding
    <3>1. UNCHANGED <<refund, gwRefund>>
      BY <1>1, <2>2, OrderSteps
    <3>2. QED
      BY <1>1, <3>1, SameGatewayRefunds DEF CompletedByBank
  <2>3. QED
    BY <2>1, <2>2
<1>3. QED
  BY <1>1, <1>2 DEF GatewayRefundNeedsBank, CompletedByBank, ConfirmedStays

\* The ledger invariant is inductive, next to types and reservations.
LEMMA LedgerStepKeeps ==
    TypeOK /\ RoundsLeft /\ GatewayInv /\ LedgerInv /\ [Next]_vars => LedgerInv'
<1> SUFFICES ASSUME TypeOK, RoundsLeft, GatewayInv, LedgerInv, [Next]_vars PROVE LedgerInv'
  OBVIOUS
<1>1. TypeOK' /\ RowsInv'
  BY TypeStep, RowsStep DEF LedgerInv
<1>2. QED
  BY <1>1, DeadNoPendingStep, RefundsMatchStep, CancelledHasRefundStep, BankStep DEF LedgerInv

\* It holds of a new order.
LEMMA LedgerInit == Init => LedgerInv
<1> SUFFICES ASSUME Init PROVE LedgerInv
  OBVIOUS
<1>1. TypeOK /\ RowsInv
  BY TypeInit, RowsInit
<1>2. /\ \A p \in Payments : payment[p].status = "none" /\ payment[p].amount = 0
      /\ \A k \in Keys : refund[k].status = "none"
  BY DEF Init, NoPayment, NoRefund
<1>3. \A p \in Payments : CompletedOf(refund, p) = 0
  <2>1. \A p : {k \in Keys : refund[k].status = "completed" /\ refund[k].payment = p} = {}
    BY <1>2
  <2>2. QED
    BY <2>1, AmountsEmpty DEF CompletedOf
<1>4. DeadNoPending /\ CancelledHasRefund
  BY DEF Init, DeadNoPending, CancelledHasRefund
<1>5. RefundsMatchPayments /\ GatewayRefundNeedsBank
  BY <1>2, <1>3 DEF RefundsMatchPayments, GatewayRefundNeedsBank
<1>6. QED
  BY <1>1, <1>4, <1>5 DEF LedgerInv

\* The strengthening, as an invariant of the specification.
LEMMA LedgerInvariant == Spec => [](TypeOK /\ GatewayInv /\ LedgerInv)
<1>1. Init => TypeOK /\ RoundsLeft /\ GatewayInv /\ LedgerInv
  <2>1. Init => GatewayInv
    BY DEF Init, GatewayInv, OneOpen, Open, Idle, NoPayment
  <2>2. QED
    BY <2>1, TypeInit, LedgerInit
<1>2. TypeOK /\ RoundsLeft /\ GatewayInv /\ LedgerInv /\ [Next]_vars =>
          (TypeOK /\ RoundsLeft /\ GatewayInv /\ LedgerInv)'
  BY TypeStep, GatewayStep, LedgerStepKeeps
<1>3. QED
  BY <1>1, <1>2, PTL DEF Spec

\* The refund ledger never records more money returned than a payment brought
\* in, and a payment is Refunded exactly when all of it was returned, however
\* requests, gateway entries, retries and confirmations are mixed.
THEOREM RefundsMatch == Spec => []RefundsMatchPayments
BY LedgerInvariant, PTL DEF LedgerInv

\* A paid order is never cancelled without a refund on record, by anybody, and
\* no money reaches a cancelled order without one.
THEOREM CancelledIsRefunded == Spec => []CancelledHasRefund
BY LedgerInvariant, PTL DEF LedgerInv

\* A refund that the gateway makes is completed only once the bank has confirmed
\* it, also when its row was written for another key or is sent again.
THEOREM BankConfirms == Spec => []GatewayRefundNeedsBank
BY LedgerInvariant, PTL DEF LedgerInv

-------------------------------------------------------------------------------
(* The money, as long as refunds are made of received payments only.       *)

\* No payment of the order is open or failed when the seller confirms its
\* refunds, and nobody refunds at the gateway a payment that is Failed here.
\* (Where one is, _refresh_refund_payment_state turns it into a received one:
\* update_order_status calls it for every payment of the invoice,
\* complete_refund_notification for the one refunded, whatever its status.)
CarefulRefunds ==
    /\ ConfirmRefund => Rows = Paid
    /\ \A p \in Payments, k \in Keys, amount \in 1..Total :
          GatewayOwnRefund(p, k, amount) => payment[p].status # "Failed"

\* The specification with refunds of received payments only.
CarefulSpec == Spec /\ [][CarefulRefunds]_vars

\* The gateway refunds no payment that is Failed here.
RefundsStand == \A p \in Payments : RefundedAtGateway(p) => payment[p].status # "Failed"

\* A payment that the gateway settled is not given up, nor refused.
LEMMA SettledNotFailed ==
    ASSUME TypeOK, GatewayInv, RowsInv, [Next]_vars, NEW p \in Payments,
           gateway[p] = "settlement", payment[p].status # "Failed"
    PROVE  payment'[p].status # "Failed"
<1>1. payment \in [Payments -> PaymentRows]
  BY DEF TypeOK
<1>2. CASE Refunding
  BY <1>2, RefundingKeeps
<1>3. CASE ~Refunding
  <2>1. ASSUME NEW q \in Payments, GiveUp(q) \/ ChargeRejected(q) PROVE payment'[p].status # "Failed"
    <3>1. q # p /\ payment' = [payment EXCEPT ![q].status = "Failed"]
      BY <2>1 DEF GiveUp, ApplyFailure, ChargeRejected
    <3>2. QED
      BY <1>1, <3>1
  <2>2. ASSUME NEW q \in Payments, \/ \E type \in {"dp", "final"} : CreateCharge(q, type)
                                   \/ \E amount \in 1..Total : ManualPayment(q, amount)
                                   \/ Settle(q)
        PROVE  payment'[p].status # "Failed"
    BY <1>1, <2>2 DEF CreateCharge, ManualPayment, Settle, ApplySuccess, PaymentRows
  <2>3. QED
    BY <1>3, <2>1, <2>2, OrderSteps DEF OrderStep
<1>4. QED
  BY <1>2, <1>3

\* A refund at the gateway is one it had, one of a received payment, or one the
\* shop has no row for.
LEMMA GatewayRefundSource ==
    ASSUME TypeOK, GatewayInv, RowsInv, [Next]_vars, NEW p \in Payments, NEW k \in Keys,
           gwRefund'[k].payment = p
    PROVE  \/ gwRefund[k].payment = p \/ p \in Paid
           \/ \E amount \in 1..Total : GatewayOwnRefund(p, k, amount)
<1> DEFINE Source == \/ gwRefund[k].payment = p \/ p \in Paid
                     \/ \E amount \in 1..Total : GatewayOwnRefund(p, k, amount)
<1>1. gwRefund \in [Keys -> GwRefundRows] /\ p # 0
  BY DEF TypeOK, Payments
<1>2. ASSUME UNCHANGED gwRefund PROVE Source
  BY <1>2
<1>3. CASE ~Refunding
  BY <1>2, <1>3, OrderSteps
<1>4. CASE RequestRefund
  BY <1>2, <1>4, RequestRefundStep
<1>5. CASE ConfirmRefund
  BY <1>2, <1>5 DEF ConfirmRefund, gatewayVars
<1>6. ASSUME NEW j \in Keys, GatewaySettlesRefund(j) PROVE Source
  <2>1. /\ \A i \in Keys \ {j} : gwRefund'[i] = gwRefund[i]
        /\ gwRefund'[j] = [gwRefund[j] EXCEPT !.status = "confirmed"] \/ gwRefund'[j] = NoGwRefund
    BY <1>1, <1>6 DEF GatewaySettlesRefund
  <2>2. gwRefund'[j].payment \in {gwRefund[j].payment, 0}
    BY <1>1, <2>1 DEF NoGwRefund, GwRefundRows
  <2>3. QED
    BY <1>1, <2>1, <2>2
<1>7. ASSUME NEW q \in Payments, NEW j \in Keys, NEW amount \in 1..Total,
             GatewayOwnRefund(q, j, amount)
      PROVE  Source
  <2>1. /\ gwRefund'[j].payment = q
        /\ \A i \in Keys \ {j} : gwRefund'[i] = gwRefund[i]
    BY <1>1, <1>7 DEF GatewayOwnRefund
  <2>2. QED
    BY <1>7, <2>1
<1>8. ASSUME NEW q \in Payments, NEW j \in Keys, NEW confirmed \in BOOLEAN,
             CompleteRefund(q, j, confirmed)
      PROVE  Source
  BY <1>2, <1>8 DEF CompleteRefund, gatewayVars
<1>9. ASSUME NEW q \in Payments, NEW j \in Keys, RetryRefund(q, j) PROVE Source
  <2>1. q \in Paid
    BY <1>9 DEF RetryRefund, Paid, WithStatus
  <2>2. CASE \E confirmed \in BOOLEAN : CompleteRefund(q, j, confirmed)
    BY <1>8, <2>2
  <2>3. CASE gwRefund' = [gwRefund EXCEPT ![j] =
                [status |-> "accepted", payment |-> q, amount |-> refund[j].amount]]
    BY <1>1, <2>1, <2>3
  <2>4. QED
    BY <1>2, <1>9, <2>2, <2>3 DEF RetryRefund
<1>10. QED
  BY <1>3, <1>4, <1>5, <1>6, <1>7, <1>8, <1>9 DEF Refunding, RefundWebhook, ReconcileRefund

\* Where nobody refunds a Failed payment, no refunded payment becomes Failed.
LEMMA RefundsStandInvariant == CarefulSpec => []RefundsStand
<1> DEFINE Inv == TypeOK /\ GatewayInv /\ LedgerInv
<1>1. Init => RefundsStand
  BY DEF Init, RefundsStand, RefundedAtGateway, NoGwRefund, Payments
<1>2. Inv /\ RefundsStand /\ [Next]_vars /\ [CarefulRefunds]_vars => RefundsStand'
  <2> SUFFICES ASSUME Inv, RefundsStand, [Next]_vars, [CarefulRefunds]_vars,
                      NEW p \in Payments, NEW k \in Keys, gwRefund'[k].payment = p
               PROVE  payment'[p].status # "Failed"
    BY DEF RefundsStand, RefundedAtGateway
  <2>1. CASE UNCHANGED vars
    BY <2>1 DEF RefundsStand, RefundedAtGateway, vars, gatewayVars
  <2>2. CASE CarefulRefunds
    <3>1. CASE gwRefund[k].payment = p
      <4>1. gateway[p] = "settlement" /\ payment[p].status # "Failed"
        BY <3>1 DEF LedgerInv, RowsInv, GatewayRefundsOK, NoGwRefund, Payments, RefundsStand,
           RefundedAtGateway
      <4>2. QED
        BY <4>1, SettledNotFailed DEF LedgerInv
    <3>2. CASE p \in Paid /\ gwRefund[k].payment # p
      <4>1. Refunding
        BY <3>2, OrderSteps DEF LedgerInv
      <4>2. QED
        BY <3>2, <4>1, RefundingKeeps DEF Paid, WithStatus
    <3>3. ASSUME NEW amount \in 1..Total, GatewayOwnRefund(p, k, amount)
          PROVE  payment'[p].status # "Failed"
      BY <2>2, <3>3 DEF CarefulRefunds, GatewayOwnRefund
    <3>4. QED
      BY <3>1, <3>2, <3>3, GatewayRefundSource DEF LedgerInv
  <2>3. QED
    BY <2>1, <2>2
<1>3. Spec => []Inv
  BY LedgerInvariant
<1> HIDE DEF Inv
<1>4. QED
  BY <1>1, <1>2, <1>3, PTL DEF Spec, CarefulSpec

\* Money received, money returned, and money reserved.
Got == Gross(payment)
Back == RefundedTotal(refund)
Reserved == Amounts(payment, PendingOnline)

\* What was received online is settled at the gateway.
ReceivedIsSettled == \A p \in Paid : payment[p].online => gateway[p] = "settlement"

\* An order whose money was all returned is a refunded one.
RefundedCloses == FullyRefunded(payment, refund) => status = "refunded"

MoneyInv ==
    /\ ReceivedIsSettled /\ RefundedCloses
    /\ WithinTotal /\ InvoiceAgrees /\ ProductionIsFunded /\ OnlyPartlyPaidExpire

\* The sums are natural numbers, before and after a step.
LEMMA MoneyType ==
    /\ TypeOK => Got \in Nat /\ Back \in Nat /\ Reserved \in Nat
    /\ TypeOK' => Got' \in Nat /\ Back' \in Nat /\ Reserved' \in Nat
BY Totals DEF TypeOK, Got, Back, Reserved, PendingOnline

\* The properties, in terms of the three sums.
LEMMA MoneyTerms ==
    /\ Net(payment, refund) = Got - Back
    /\ FullyRefunded(payment, refund) <=> Got > 0 /\ Back = Got
    /\ Net(payment', refund') = Got' - Back'
    /\ FullyRefunded(payment', refund') <=> Got' > 0 /\ Back' = Got'
BY DEF Net, FullyRefunded, Got, Back

\* Nothing received or reserved changes, and the order moves or does not.
Quiet ==
    /\ Got' = Got /\ Back' = Back /\ Reserved' <= Reserved /\ UNCHANGED invoice
    /\ StatusMove \/ status' = "cancelled"
    /\ status = "refunded" => UNCHANGED status

\* The last open payment failed, and closed its order.
CloseUnpaid ==
    /\ Got' = Got /\ Back' = Back /\ Reserved' <= Reserved
    /\ status = "pending" /\ WithStatus(payment, {"Success"}) = {}
    /\ status' = "cancelled" /\ invoice' = "unpaid"

\* A payment is reserved within the rest of the bill.
Reserve ==
    /\ Got' = Got /\ Back' = Back /\ (Got - Back) + Reserved' <= Total
    /\ UNCHANGED <<status, invoice>>

\* Money comes in.
Receive ==
    /\ Got' > Got /\ Back' = Back /\ (Got' - Back') + Reserved' <= Total
    /\ status # "cancelled_settlement_expired" /\ UNCHANGED status
    /\ invoice' = IF Got' - Back' >= Total THEN "paid" ELSE "partial"

\* Money is returned, or a payment is settled on the way.
Return ==
    /\ Got' >= Got /\ Back' >= Back /\ Got' - Back' >= 0 /\ (Got' - Back') + Reserved' <= Total
    /\ invoice' = InvoiceAfter(payment', refund')
    /\ status' = IF FullyRefunded(payment', refund') THEN "refunded" ELSE status
    /\ status = "cancelled_settlement_expired" =>
          Got' = Got /\ ~FullyRefunded(payment', refund')

\* One payment changes: what that does to the sums.
LEMMA OneChange ==
    ASSUME payment \in [Payments -> PaymentRows], payment' \in [Payments -> PaymentRows],
           NEW p \in Payments, \A q \in Payments \ {p} : payment'[q] = payment[q]
    PROVE  /\ Got' = (Got - (IF payment[p].status \in {"Success", "Refunded"}
                             THEN payment[p].amount ELSE 0))
                     + (IF payment'[p].status \in {"Success", "Refunded"}
                        THEN payment'[p].amount ELSE 0)
           /\ Reserved' = (Reserved - (IF payment[p].status \in {"Pending"}
                                       THEN payment[p].amount ELSE 0))
                          + (IF payment'[p].status \in {"Pending"}
                             THEN payment'[p].amount ELSE 0)
<1>1. ASSUME NEW S
      PROVE  Amounts(payment', WithStatus(payment', S)) =
                (Amounts(payment, WithStatus(payment, S))
                    - (IF payment[p].status \in S THEN payment[p].amount ELSE 0))
                    + (IF payment'[p].status \in S THEN payment'[p].amount ELSE 0)
  <2> DEFINE new == payment'
  <2>1. new \in [Payments -> PaymentRows] /\ \A q \in Payments \ {p} : new[q] = payment[q]
    OBVIOUS
  <2> HIDE DEF new
  <2>2. Amounts(new, WithStatus(new, S)) =
           (Amounts(payment, WithStatus(payment, S))
               - (IF payment[p].status \in S THEN payment[p].amount ELSE 0))
               + (IF new[p].status \in S THEN new[p].amount ELSE 0)
    BY <2>1, OnePayment
  <2>3. QED
    BY <2>2 DEF new
<1> DEFINE T == {"Success", "Refunded"}
           U == {"Pending"}
<1>2. /\ Got = Amounts(payment, WithStatus(payment, T))
      /\ Got' = Amounts(payment', WithStatus(payment', T))
  BY DEF Got, Gross
<1>3. /\ Reserved = Amounts(payment, WithStatus(payment, U))
      /\ Reserved' = Amounts(payment', WithStatus(payment', U))
  BY DEF Reserved, PendingOnline
<1> HIDE DEF T, U
<1>4. Got' = (Got - (IF payment[p].status \in T THEN payment[p].amount ELSE 0))
             + (IF payment'[p].status \in T THEN payment'[p].amount ELSE 0)
  BY <1>1, <1>2
<1>5. Reserved' = (Reserved - (IF payment[p].status \in U THEN payment[p].amount ELSE 0))
                  + (IF payment'[p].status \in U THEN payment'[p].amount ELSE 0)
  BY <1>1, <1>3
<1>6. QED
  BY <1>4, <1>5 DEF T, U

\* The sums, when the status of payment p becomes st.
LEMMA OneStatus ==
    ASSUME TypeOK, NEW p \in Payments, NEW st \in {"Success", "Failed"},
           payment' = [payment EXCEPT ![p].status = st]
    PROVE  /\ payment[p].amount \in Nat
           /\ Got' = (Got - (IF payment[p].status \in {"Success", "Refunded"}
                             THEN payment[p].amount ELSE 0))
                     + (IF st = "Success" THEN payment[p].amount ELSE 0)
           /\ Reserved' = Reserved - (IF payment[p].status = "Pending" THEN payment[p].amount ELSE 0)
<1> DEFINE row == [payment[p] EXCEPT !.status = st]
<1>1. /\ payment \in [Payments -> PaymentRows] /\ payment[p].amount \in Nat
      /\ row \in PaymentRows /\ row.status = st /\ row.amount = payment[p].amount
  BY PaymentTable, ConstantsAssumption DEF TypeOK, PaymentRows
<1>2. payment' = [payment EXCEPT ![p] = row]
  OBVIOUS
<1> HIDE DEF row
<1>3. /\ payment' \in [Payments -> PaymentRows] /\ payment'[p] = row
      /\ \A q \in Payments \ {p} : payment'[q] = payment[q]
  BY <1>1, <1>2
<1>4. /\ Got' = (Got - (IF payment[p].status \in {"Success", "Refunded"}
                        THEN payment[p].amount ELSE 0))
                + (IF row.status \in {"Success", "Refunded"} THEN row.amount ELSE 0)
      /\ Reserved' = (Reserved - (IF payment[p].status \in {"Pending"}
                                  THEN payment[p].amount ELSE 0))
                     + (IF row.status \in {"Pending"} THEN row.amount ELSE 0)
  BY <1>1, <1>3, OneChange
<1>5. Got \in Nat /\ Reserved \in Nat
  BY MoneyType
<1>6. QED
  BY <1>1, <1>4, <1>5

\* A payment that was not received fails: nothing received is lost.
LEMMA FailedStatus ==
    ASSUME TypeOK, NEW p \in Payments, payment[p].status \notin {"Success", "Refunded"},
           payment' = [payment EXCEPT ![p].status = "Failed"]
    PROVE  Got' = Got /\ Reserved' <= Reserved
<1>1. /\ payment[p].amount \in Nat
      /\ Got' = (Got - (IF payment[p].status \in {"Success", "Refunded"}
                        THEN payment[p].amount ELSE 0)) + 0
      /\ Reserved' = Reserved - (IF payment[p].status = "Pending" THEN payment[p].amount ELSE 0)
  BY OneStatus
<1>2. Got \in Nat /\ Reserved \in Nat
  BY MoneyType
<1>3. QED
  BY <1>1, <1>2

\* The sums, when payment row p is made.
LEMMA OneRow ==
    ASSUME TypeOK, NEW p \in Payments, payment[p].status = "none",
           NEW st \in {"Success", "Pending"}, NEW type \in {"dp", "final"},
           NEW amount \in 1..Total, NEW online \in BOOLEAN,
           payment' = [payment EXCEPT ![p] = [status |-> st, type |-> type, amount |-> amount,
                                              online |-> online]]
    PROVE  /\ Got' = Got + (IF st = "Success" THEN amount ELSE 0)
           /\ Reserved' = Reserved + (IF st = "Pending" THEN amount ELSE 0)
<1> DEFINE row == [status |-> st, type |-> type, amount |-> amount, online |-> online]
<1>1. /\ row \in PaymentRows /\ row.status = st /\ row.amount = amount /\ amount \in Nat
  BY PaymentTable, ConstantsAssumption DEF PaymentRows
<1>2. payment' = [payment EXCEPT ![p] = row] /\ payment \in [Payments -> PaymentRows]
  BY DEF TypeOK
<1> HIDE DEF row
<1>3. /\ payment' \in [Payments -> PaymentRows]
      /\ payment'[p] = row /\ \A q \in Payments \ {p} : payment'[q] = payment[q]
  BY <1>1, <1>2
<1>4. /\ Got' = (Got - (IF payment[p].status \in {"Success", "Refunded"}
                        THEN payment[p].amount ELSE 0))
                + (IF row.status \in {"Success", "Refunded"} THEN row.amount ELSE 0)
      /\ Reserved' = (Reserved - (IF payment[p].status \in {"Pending"}
                                  THEN payment[p].amount ELSE 0))
                     + (IF row.status \in {"Pending"} THEN row.amount ELSE 0)
  BY <1>2, <1>3, OneChange
<1>5. Got \in Nat /\ Reserved \in Nat
  BY MoneyType
<1>6. QED
  BY <1>1, <1>4, <1>5

\* Every step is one of these.
Effect == Quiet \/ CloseUnpaid \/ Reserve \/ Receive \/ Return

\* What a step that is not about refunds does to the money.
LEMMA OrderEffect ==
    ASSUME TypeOK, TypeOK', GatewayInv, LedgerInv, MoneyInv, [Next]_vars, ~Refunding
    PROVE  Effect
<1>1. OrderStep /\ UNCHANGED refund /\ Back' = Back
  BY OrderSteps DEF LedgerInv, Back
<1>2. /\ Got \in Nat /\ Back \in Nat /\ Reserved \in Nat /\ Total \in Nat /\ Total > 0
      /\ Got' \in Nat /\ Reserved' \in Nat
  BY MoneyType, ConstantsAssumption
<1>3. Got - Back >= 0 /\ (Got - Back) + Reserved <= Total
  BY <1>2, MoneyTerms DEF MoneyInv, WithinTotal, Reserved
<1>4. PendingOnline = {} => Reserved = 0
  BY AmountsEmpty DEF Reserved
<1>5. Remaining = Total - (Got - Back)
  BY MoneyTerms DEF Remaining
<1>6. ASSUME NEW p \in Payments, NEW type \in {"dp", "final"}, CreateCharge(p, type) PROVE Effect
  <2>1. /\ payment[p].status = "none" /\ PendingOnline = {}
        /\ UNCHANGED <<status, invoice>>
    BY <1>6 DEF CreateCharge, ChargeAllowed, IsNext
  <2>2. PICK amount \in 1..Total :
           /\ amount <= Remaining
           /\ payment' = [payment EXCEPT ![p] = [status |-> "Pending", type |-> type,
                                                 amount |-> amount, online |-> TRUE]]
    BY <1>6 DEF CreateCharge
  <2>3. Got' = Got /\ Reserved' = Reserved + amount
    <3>1. \A st \in {"Success", "Pending"}, online \in BOOLEAN :
             payment' = [payment EXCEPT ![p] = [status |-> st, type |-> type, amount |-> amount,
                                                online |-> online]] =>
                /\ Got' = Got + (IF st = "Success" THEN amount ELSE 0)
                /\ Reserved' = Reserved + (IF st = "Pending" THEN amount ELSE 0)
      BY <2>1, OneRow
    <3>2. Got' = Got + 0 /\ Reserved' = Reserved + amount
      BY <2>2, <3>1
    <3>3. QED
      BY <1>2, <3>2
  <2>4. Reserve
    BY <1>1, <1>2, <1>4, <1>5, <2>1, <2>2, <2>3 DEF Reserve
  <2>5. QED
    BY <2>4 DEF Effect
<1>7. ASSUME NEW p \in Payments, NEW amount \in 1..Total, ManualPayment(p, amount) PROVE Effect
  <2>1. /\ payment[p].status = "none" /\ PendingOnline = {} /\ amount <= Remaining
        /\ UNCHANGED status /\ status # "cancelled_settlement_expired"
        /\ payment' = [payment EXCEPT ![p] = [status |-> "Success", type |-> "final",
                                              amount |-> amount, online |-> FALSE]]
        /\ invoice' = IF Net(payment', refund) >= Total THEN "paid"
                      ELSE IF Net(payment', refund) > 0 THEN "partial" ELSE "unpaid"
    BY <1>7 DEF ManualPayment, IsNext, ClosedToPayment
  <2>2. Got' = Got + amount /\ Reserved' = Reserved
    <3>1. \A st \in {"Success", "Pending"}, online \in BOOLEAN :
             payment' = [payment EXCEPT ![p] = [status |-> st, type |-> "final",
                                                amount |-> amount, online |-> online]] =>
                /\ Got' = Got + (IF st = "Success" THEN amount ELSE 0)
                /\ Reserved' = Reserved + (IF st = "Pending" THEN amount ELSE 0)
      BY <2>1, OneRow
    <3>2. Got' = Got + amount /\ Reserved' = Reserved + 0
      BY <2>1, <3>1
    <3>3. QED
      BY <1>2, <3>2
  <2>3. Net(payment', refund) = Got' - Back'
    BY <1>1, MoneyTerms
  <2>4. Got' - Back' > 0
    BY <1>1, <1>2, <1>3, <2>2
  <2>5. Receive
    BY <1>1, <1>2, <1>3, <1>4, <1>5, <2>1, <2>2, <2>3, <2>4 DEF Receive
  <2>6. QED
    BY <2>5 DEF Effect
<1>8. ASSUME NEW p \in Payments, Settle(p) PROVE Effect
  <2>1. /\ payment[p].status = "Pending" /\ payment' = [payment EXCEPT ![p].status = "Success"]
        /\ UNCHANGED status
        /\ invoice' = IF Net(payment', refund) >= Total THEN "paid" ELSE "partial"
    BY <1>8 DEF Settle, ApplySuccess
  <2>2. Got' = Got + payment[p].amount /\ Reserved' = Reserved - payment[p].amount
    <3>1. /\ payment[p].amount \in Nat
          /\ Got' = (Got - (IF payment[p].status \in {"Success", "Refunded"}
                            THEN payment[p].amount ELSE 0)) + payment[p].amount
          /\ Reserved' = Reserved - (IF payment[p].status = "Pending"
                                     THEN payment[p].amount ELSE 0)
      BY <2>1, OneStatus
    <3>2. QED
      BY <1>2, <2>1, <3>1
  <2>3. payment[p].amount \in Nat /\ payment[p].amount > 0
    BY <2>1, OneStatus DEF LedgerInv, RowsInv, PaymentRowsOK
  <2>4. Net(payment', refund) = Got' - Back'
    BY <1>1, MoneyTerms
  <2>5. status # "cancelled_settlement_expired"
    BY <2>1 DEF LedgerInv, DeadNoPending, PendingOnline, WithStatus
  <2>6. Receive
    BY <1>1, <1>2, <1>3, <2>1, <2>2, <2>3, <2>4, <2>5 DEF Receive
  <2>7. QED
    BY <2>6 DEF Effect
<1>9. ASSUME NEW p \in Payments, GiveUp(p) PROVE Effect
  <2>1. /\ payment[p].status = "Pending" /\ payment' = [payment EXCEPT ![p].status = "Failed"]
        /\ \/ UNCHANGED <<status, invoice>>
           \/ /\ WithStatus(payment, {"Success"}) = {} /\ status = "pending"
              /\ status' = "cancelled" /\ invoice' = "unpaid"
    BY <1>9 DEF GiveUp, ApplyFailure
  <2>2. Got' = Got /\ Reserved' <= Reserved
    BY <1>2, <2>1, FailedStatus
  <2>3. Quiet \/ CloseUnpaid
    BY <1>1, <2>1, <2>2 DEF Quiet, CloseUnpaid, StatusMove
  <2>4. QED
    BY <2>3 DEF Effect
<1>10. ASSUME NEW p \in Payments, ChargeRejected(p) PROVE Effect
  <2>1. /\ gateway[p] \notin {"none", "settlement"} /\ UNCHANGED <<status, invoice>>
        /\ payment' = [payment EXCEPT ![p].status = "Failed"]
    BY <1>10 DEF ChargeRejected, orderVars
  <2>2. payment[p].online
    BY <2>1 DEF LedgerInv, RowsInv, PaymentRowsOK
  <2>3. payment[p].status \notin {"Success", "Refunded"}
    BY <2>1, <2>2 DEF MoneyInv, ReceivedIsSettled, Paid, WithStatus
  <2>4. Got' = Got /\ Reserved' <= Reserved
    BY <1>2, <2>1, <2>3, FailedStatus
  <2>5. Quiet
    BY <1>1, <2>1, <2>4 DEF Quiet, StatusMove
  <2>6. QED
    BY <2>5 DEF Effect
<1>11. CASE UNCHANGED <<payment, invoice>> /\ StatusMove /\ (status = "refunded" => UNCHANGED status)
  <2>1. Got' = Got /\ Reserved' = Reserved
    BY <1>11 DEF Got, Reserved, PendingOnline, WithStatus
  <2>2. Quiet
    BY <1>1, <1>2, <1>11, <2>1 DEF Quiet
  <2>3. QED
    BY <2>2 DEF Effect
<1>12. QED
  BY <1>1, <1>6, <1>7, <1>8, <1>9, <1>10, <1>11 DEF OrderStep

\* Restating paid payments moves no money.
LEMMA RestatePaid ==
    ASSUME TypeOK, NEW ref, NEW S \in SUBSET Paid
    PROVE  /\ Gross(Restated(payment, ref, S)) = Got
           /\ Amounts(Restated(payment, ref, S),
                      WithStatus(Restated(payment, ref, S), {"Pending"})) = Reserved
<1> DEFINE new == Restated(payment, ref, S)
<1>1. payment \in [Payments -> PaymentRows] /\ new \in [Payments -> PaymentRows]
  BY RestatedType DEF TypeOK
<1>2. ASSUME NEW q \in Payments
      PROVE  /\ new[q].amount = payment[q].amount
             /\ new[q].status = payment[q].status
                \/ (/\ new[q].status \in {"Success", "Refunded"}
                    /\ payment[q].status \in {"Success", "Refunded"})
  <2>1. q \in S => payment[q].status \in {"Success", "Refunded"}
    BY DEF Paid, WithStatus
  <2>2. QED
    BY <2>1, RestatedRows
<1> HIDE DEF new
<1> DEFINE T == {"Success", "Refunded"}
           U == {"Pending"}
<1>3. \A q \in Payments : new[q].amount = payment[q].amount
                          /\ (new[q].status \in T <=> payment[q].status \in T)
                          /\ (new[q].status \in U <=> payment[q].status \in U)
  BY <1>2
<1>4. /\ Gross(new) = Amounts(new, WithStatus(new, T))
      /\ Got = Amounts(payment, WithStatus(payment, T))
      /\ Reserved = Amounts(payment, WithStatus(payment, U))
  BY DEF Got, Gross, Reserved, PendingOnline
<1> HIDE DEF T, U
<1>5. Amounts(new, WithStatus(new, T)) = Amounts(payment, WithStatus(payment, T))
  BY <1>1, <1>3, SameTotal
<1>6. Amounts(new, WithStatus(new, U)) = Amounts(payment, WithStatus(payment, U))
  BY <1>1, <1>3, SameTotal
<1>7. Gross(new) = Got /\ Amounts(new, WithStatus(new, U)) = Reserved
  BY <1>4, <1>5, <1>6
<1>8. QED
  BY <1>7 DEF new, U

\* A seller's confirmation needs a payment to restate.
LEMMA ConfirmHasRows == ASSUME TypeOK, RowsInv, ConfirmRefund PROVE Rows # {}
<1>1. CASE ConfirmPending
  <2>1. PICK k \in Keys : refund[k].status = "pending"
    BY <1>1 DEF ConfirmPending, PendingRefunds
  <2>2. refund[k].payment \in Payments /\ payment[refund[k].payment].status # "none"
    BY <2>1 DEF RowsInv, RefundRowsOK, NoRefund
  <2>3. QED
    BY <2>2 DEF Rows
<1>2. CASE ConfirmRest
  <2>1. Gross(payment) # 0
    <3>1. Gross(payment) > RefundedTotal(refund)
      BY <1>2 DEF ConfirmRest
    <3>2. Gross(payment) \in Nat /\ RefundedTotal(refund) \in Nat
      BY Totals DEF TypeOK
    <3>3. QED
      BY <3>1, <3>2
  <2>2. WithStatus(payment, {"Success", "Refunded"}) # {}
    BY <2>1, AmountsEmpty DEF Gross
  <2>3. QED
    BY <2>2 DEF Rows, WithStatus
<1>3. QED
  BY <1>1, <1>2 DEF ConfirmRefund

\* What a step about refunds does to the money.
LEMMA RefundEffect ==
    ASSUME TypeOK, TypeOK', GatewayInv, LedgerInv, MoneyInv, Refunding, CarefulRefunds,
           RefundsStand
    PROVE  Effect
<1>1. LedgerGrows /\ RefundKinds
  BY RefundSteps DEF LedgerInv, LedgerStep
<1>2. /\ Got \in Nat /\ Back \in Nat /\ Reserved \in Nat /\ Total \in Nat /\ Total > 0
      /\ Got' \in Nat /\ Back' \in Nat /\ Reserved' \in Nat
  BY MoneyType, ConstantsAssumption
<1>3. Got - Back >= 0 /\ (Got - Back) + Reserved <= Total
  BY <1>2, MoneyTerms DEF MoneyInv, WithinTotal, Reserved
<1>4. Back' >= Back /\ (LedgerStill => Back' = Back)
  BY <1>1, <1>2, LedgerTotals DEF TypeOK, Back
<1>5. status \in OrderStatuses
  BY DEF TypeOK
<1>10. Back' >= Back
  BY <1>4
<1>6. CASE /\ UNCHANGED <<payment, invoice>> /\ LedgerStill
           /\ \/ UNCHANGED status
              \/ status # "refunded" /\ status' = "cancelled"
  <2>1. Got' = Got /\ Reserved' = Reserved
    BY <1>6 DEF Got, Reserved, PendingOnline, WithStatus
  <2>2. Quiet
    BY <1>2, <1>4, <1>6, <2>1 DEF Quiet, StatusMove
  <2>3. QED
    BY <2>2 DEF Effect
<1>7. ASSUME NEW p \in Payments, RefreshRefundState(p), Received(p) PROVE Effect
  <2>1. /\ payment' = Restated(payment, refund', {p})
        /\ Net(payment', refund') \in 0..Total
        /\ FullyRefunded(payment', refund') => status = "refunded" \/ OrderTransition(status, "refunded")
        /\ invoice' = InvoiceAfter(payment', refund')
        /\ status' = IF FullyRefunded(payment', refund') THEN "refunded" ELSE status
    BY <1>7 DEF RefreshRefundState, InBounds
  <2>2. Got' - Back' >= 0
    <3>1. Net(payment', refund') = Got' - Back'
      BY MoneyTerms
    <3>2. Net(payment', refund') \in 0..Total
      BY <2>1
    <3> DEFINE n == Net(payment', refund')
               got == Got'
               back == Back'
    <3>3. n = got - back /\ n \in 0..Total /\ got \in Nat /\ back \in Nat
      BY <1>2, <3>1, <3>2
    <3> HIDE DEF n, got, back
    <3>4. got - back >= 0
      BY <3>3
    <3>5. QED
      BY <3>4 DEF got, back
  <2>3. payment[p].status \in {"Pending", "Success", "Refunded"}
    <3>1. payment[p].status \in PaymentStatuses \cup {"none"}
      BY DEF TypeOK, PaymentRows
    <3>2. payment[p].status # "Failed"
      BY <1>7 DEF Received, RefundsStand
    <3>3. payment[p].status # "none"
      BY <1>7 DEF Received, LedgerInv, RowsInv, PaymentRowsOK, NoPayment
    <3>4. QED
      BY <3>1, <3>2, <3>3, PaymentTable
  <2>4. /\ payment'[p].status \in {"Success", "Refunded"}
        /\ payment'[p].amount = payment[p].amount /\ payment[p].amount \in Nat
        /\ \A q \in Payments \ {p} : payment'[q] = payment[q]
        /\ payment \in [Payments -> PaymentRows] /\ payment' \in [Payments -> PaymentRows]
    <3>1. payment \in [Payments -> PaymentRows] /\ payment' \in [Payments -> PaymentRows]
      BY DEF TypeOK
    <3>2. payment[p].amount \in Nat
      BY <3>1, ConstantsAssumption DEF PaymentRows
    <3>3. p \in {p} /\ \A q \in Payments \ {p} : q \notin {p}
      OBVIOUS
    <3> DEFINE S == {p}
               new == Restated(payment, refund', S)
    <3>4. p \in S /\ \A q \in Payments \ {p} : q \notin S
      BY <3>3
    <3> HIDE DEF S
    <3>5. new[p].status \in {"Success", "Refunded"} /\ new[p].amount = payment[p].amount
      BY <3>4, RestatedRows
    <3>6. \A q \in Payments \ {p} : new[q] = payment[q]
      BY <3>4, RestatedRows
    <3>7. payment' = new
      BY <2>1 DEF S
    <3> HIDE DEF new
    <3>8. QED
      BY <3>1, <3>2, <3>5, <3>6, <3>7
  <2>5. /\ Got' = (Got - (IF payment[p].status \in {"Success", "Refunded"}
                          THEN payment[p].amount ELSE 0))
                  + (IF payment'[p].status \in {"Success", "Refunded"}
                     THEN payment'[p].amount ELSE 0)
        /\ Reserved' = (Reserved - (IF payment[p].status \in {"Pending"}
                                    THEN payment[p].amount ELSE 0))
                       + (IF payment'[p].status \in {"Pending"} THEN payment'[p].amount ELSE 0)
    BY <2>4, OneChange
  <2>6. Got' >= Got /\ Got' + Reserved' = Got + Reserved
    BY <1>2, <2>3, <2>4, <2>5
  <2>7. ASSUME status = "cancelled_settlement_expired"
        PROVE  Got' = Got /\ ~FullyRefunded(payment', refund')
    <3>1. payment[p].status # "Pending"
      BY <2>7 DEF LedgerInv, DeadNoPending, PendingOnline, WithStatus
    <3>2. Got' = Got
      BY <1>2, <2>3, <2>4, <2>5, <3>1
    <3>3. ~OrderTransition("cancelled_settlement_expired", "refunded")
      BY DEF OrderTransition, OrderTransitions
    <3>4. QED
      BY <2>1, <2>7, <3>2, <3>3
  <2>8. (Got' - Back') + Reserved' <= Total
    <3> DEFINE got == Got'
               back == Back'
               reserved == Reserved'
    <3>1. /\ got \in Nat /\ back \in Nat /\ reserved \in Nat
          /\ back >= Back /\ got + reserved = Got + Reserved
      BY <1>2, <1>10, <2>6
    <3> HIDE DEF got, back, reserved
    <3>2. (got - back) + reserved <= Total
      BY <1>2, <1>3, <3>1
    <3>3. QED
      BY <3>2 DEF got, back, reserved
  <2>9. Return
    BY <1>10, <2>1, <2>2, <2>6, <2>7, <2>8 DEF Return
  <2>10. QED
    BY <2>9 DEF Effect
<1>8. CASE ConfirmRefund
  <2>1. Rows = Paid /\ Rows # {} /\ IsFiniteSet(Rows)
    BY <1>8, ConfirmHasRows, FiniteRows DEF CarefulRefunds, LedgerInv, Paid, WithStatus
  <2>2. Cardinality(Rows) \in Nat /\ Cardinality(Rows) >= 1
    BY <2>1, FS_CardinalityType, FS_EmptySet
  <2>3. PICK o \in Orderings :
           LET after(i) == Restated(payment, refund', {o[j] : j \in 1..i}) IN
           /\ \A i \in DOMAIN o : InBounds(after(i), refund')
           /\ status' = IF \E i \in DOMAIN o : FullyRefunded(after(i), refund')
                        THEN "refunded" ELSE status
    BY <1>8 DEF ConfirmRefund
  <2> DEFINE after(i) == Restated(payment, refund', {o[j] : j \in 1..i})
  <2>4. DOMAIN o = 1..Cardinality(Rows) /\ 1 \in DOMAIN o
        /\ \A i \in DOMAIN o : {o[j] : j \in 1..i} \in SUBSET Paid
    BY <2>1, <2>2 DEF Orderings
  <2>5. \A i \in DOMAIN o : Gross(after(i)) = Got
    BY <2>4, RestatePaid
  <2>6. payment' = Restated(payment, refund', Rows) /\ invoice' = InvoiceAfter(payment', refund')
        /\ OrderTransition(status, "refunded")
    BY <1>8 DEF ConfirmRefund
  <2>7. Got' = Got /\ Reserved' = Reserved
    <3> DEFINE new == Restated(payment, refund', Rows)
    <3>1. Gross(new) = Got /\ Amounts(new, WithStatus(new, {"Pending"})) = Reserved
      BY <2>1, RestatePaid
    <3>2. payment' = new
      BY <2>6
    <3> HIDE DEF new
    <3>3. Got' = Gross(new)
      BY <3>2 DEF Got
    <3>4. Reserved' = Amounts(new, WithStatus(new, {"Pending"}))
      BY <3>2 DEF Reserved, PendingOnline
    <3>5. QED
      BY <3>1, <3>3, <3>4
  <2>8. Got' - Back' >= 0
    <3>1. Net(after(1), refund') \in 0..Total
      BY <2>3, <2>4 DEF InBounds
    <3>2. Net(after(1), refund') = Got - Back'
      BY <2>4, <2>5 DEF Net, Back
    <3> DEFINE n == Net(after(1), refund')
    <3> DEFINE got == Got'
               back == Back'
    <3>3. n \in 0..Total /\ n = got - back /\ got \in Nat /\ back \in Nat
      BY <1>2, <2>7, <3>1, <3>2
    <3> HIDE DEF after, n, got, back
    <3>4. got - back >= 0
      BY <3>3
    <3>5. QED
      BY <3>4 DEF got, back
  <2>9. status' = IF FullyRefunded(payment', refund') THEN "refunded" ELSE status
    <3>1. \A i \in DOMAIN o : FullyRefunded(after(i), refund') <=> Got > 0 /\ Back' = Got
      BY <2>5 DEF FullyRefunded, Back
    <3>2. FullyRefunded(payment', refund') <=> Got > 0 /\ Back' = Got
      BY <2>7, MoneyTerms
    <3>3. status' = IF \E i \in DOMAIN o : FullyRefunded(after(i), refund')
                    THEN "refunded" ELSE status
      BY <2>3
    <3> HIDE DEF after
    <3>4. QED
      BY <2>4, <3>1, <3>2, <3>3
  <2>10. status # "cancelled_settlement_expired"
    BY <2>6 DEF OrderTransition, OrderTransitions
  <2>11. (Got' - Back') + Reserved' <= Total
    <3> DEFINE got == Got'
               back == Back'
               reserved == Reserved'
    <3>1. /\ got = Got /\ reserved = Reserved /\ back \in Nat /\ back >= Back
      BY <1>2, <1>10, <2>7
    <3> HIDE DEF got, back, reserved
    <3>2. (got - back) + reserved <= Total
      BY <1>2, <1>3, <3>1
    <3>3. QED
      BY <3>2 DEF got, back, reserved
  <2>13. Got' >= Got
    BY <1>2, <2>7
  <2> HIDE DEF after
  <2>14. Return
    BY <1>10, <2>6, <2>8, <2>9, <2>10, <2>11, <2>13 DEF Return
  <2>12. QED
    BY <2>14 DEF Effect
<1>9. QED
  BY <1>1, <1>6, <1>7, <1>8 DEF RefundKinds

\* When every paid payment was refunded, as much came back as was received.
LEMMA NothingLeft ==
    ASSUME TypeOK, RowsInv, RefundsMatchPayments, WithStatus(payment, {"Success"}) = {}
    PROVE  Got <= Back
<1> DEFINE K == {k \in Keys : refund[k].status = "completed"}
           m == [k \in K |-> refund[k].payment]
           w == [k \in K |-> refund[k].amount]
           g == [p \in Payments |-> CompletedOf(refund, p)]
           h == [p \in Paid |-> payment[p].amount]
<1>1. /\ IsFiniteSet(K) /\ IsFiniteSet(Payments) /\ IsFiniteSet(Paid) /\ Paid \in SUBSET Payments
      /\ K \in SUBSET Keys
  BY FiniteRows DEF Paid, WithStatus
<1>2. \A k \in K : m[k] \in Payments /\ w[k] \in Int
  <2>1. \A k \in K : refund[k].payment \in Payments
    BY DEF RowsInv, RefundRowsOK, NoRefund
  <2>2. \A k \in K : refund[k].amount \in Int
    BY ConstantsAssumption DEF TypeOK, RefundRows
  <2>3. QED
    BY <2>1, <2>2
<1>3. \A p \in Payments : g[p] \in Nat
  BY Totals DEF TypeOK
<1>4. ASSUME NEW p \in Payments PROVE g[p] = SumFunctionOnSet(w, {k \in K : m[k] = p})
  <2> DEFINE S == {k \in Keys : refund[k].status = "completed" /\ refund[k].payment = p}
             u == [k \in S |-> refund[k].amount]
  <2>1. S = {k \in K : m[k] = p} /\ IsFiniteSet(S)
    BY FiniteRows
  <2>2. g[p] = SumFunctionOnSet(u, S)
    BY AmountsSum DEF CompletedOf
  <2>3. \A k \in S : u[k] = w[k]
    OBVIOUS
  <2> HIDE DEF S, u, w, m, g, K
  <2>4. SumFunctionOnSet(u, S) = SumFunctionOnSet(w, S)
    BY <2>1, <2>3, SumEqual
  <2>5. QED
    BY <2>1, <2>2, <2>4
<1>5. Back = SumFunctionOnSet(w, K)
  BY AmountsSum DEF Back, RefundedTotal
<1>6. Got = SumFunctionOnSet(h, Paid)
  BY AmountsSum DEF Got, Gross, Paid
<1>7. \A p \in Paid : h[p] = g[p]
  <2>1. ASSUME NEW p \in Paid PROVE payment[p].status = "Refunded" /\ p \in Payments
    BY DEF Paid, WithStatus
  <2>2. QED
    BY <2>1 DEF RefundsMatchPayments
<1> HIDE DEF K, m, w, g, h
<1>8. SumFunctionOnSet(g, Payments) = SumFunctionOnSet(w, K)
  <2>1. IsFiniteSet(K) /\ IsFiniteSet(Payments)
    BY <1>1
  <2>2. (\A k \in K : m[k] \in Payments) /\ (\A k \in K : w[k] \in Int)
    BY <1>2
  <2>3. \A p \in Payments : g[p] = SumFunctionOnSet(w, {k \in K : m[k] = p})
    BY <1>4
  <2> DEFINE P == Payments
  <2>4. IsFiniteSet(P) /\ (\A k \in K : m[k] \in P)
           /\ (\A p \in P : g[p] = SumFunctionOnSet(w, {k \in K : m[k] = p}))
    BY <2>1, <2>2, <2>3
  <2> HIDE DEF P
  <2>5. SumFunctionOnSet(g, P) = SumFunctionOnSet(w, K)
    BY ONLY <2>1, <2>2, <2>4, SumByGroup
  <2>6. QED
    BY <2>5 DEF P
<1>9. SumFunctionOnSet(h, Paid) = SumFunctionOnSet(g, Paid)
  BY <1>1, <1>7, SumEqual
<1>10. SumFunctionOnSet(g, Paid) <= SumFunctionOnSet(g, Payments)
  BY <1>1, <1>3, SumNat
<1>11. QED
  BY <1>5, <1>6, <1>8, <1>9, <1>10

\* What was received online stays settled at the gateway, and what is received
\* next is settled there.
LEMMA ReceivedStep ==
    ASSUME TypeOK, GatewayInv, LedgerInv, MoneyInv, [Next]_vars, CarefulRefunds
    PROVE  ReceivedIsSettled'
<1> SUFFICES ASSUME NEW q \in Paid', payment'[q].online PROVE gateway'[q] = "settlement"
  BY DEF ReceivedIsSettled
<1>1. /\ q \in Payments /\ payment'[q].status \in {"Success", "Refunded"}
      /\ payment \in [Payments -> PaymentRows]
  BY DEF Paid, WithStatus, TypeOK
<1>2. SUFFICES gateway[q] = "settlement"
  BY <1>1, <1>2, GatewayMoves
<1>3. payment[q].online /\ payment[q].status # "none"
  <2>1. PaymentMove(q)
    BY <1>1, PaymentMoves DEF LedgerInv
  <2>2. payment[q].status = "none" => payment[q] = NoPayment
    BY <1>1 DEF LedgerInv, RowsInv, PaymentRowsOK
  <2>3. QED
    BY <1>1, <2>1, <2>2 DEF PaymentMove, NoPayment
<1>4. ASSUME payment[q].status \in {"Success", "Refunded"} PROVE gateway[q] = "settlement"
  BY <1>1, <1>3, <1>4 DEF MoneyInv, ReceivedIsSettled, Paid, WithStatus
<1>5. CASE payment'[q] = payment[q]
  BY <1>1, <1>4, <1>5
<1>6. CASE Refunding /\ payment'[q] # payment[q]
  <2>1. ASSUME NEW p \in Payments, RefreshRefundState(p), Received(p) PROVE gateway[q] = "settlement"
    <3>1. payment' = Restated(payment, refund', {p})
      BY <2>1 DEF RefreshRefundState
    <3>2. q \in {p}
      BY <1>1, <1>6, <3>1, RestatedRows
    <3>3. QED
      BY <1>4, <2>1, <3>2 DEF Received
  <2>2. CASE ConfirmRefund
    <3>1. payment' = Restated(payment, refund', Rows) /\ Rows = Paid
      BY <2>2 DEF ConfirmRefund, CarefulRefunds
    <3>2. q \in Paid
      BY <1>1, <1>6, <3>1, RestatedRows
    <3>3. QED
      BY <1>4, <3>2 DEF Paid, WithStatus
  <2>3. QED
    BY <1>6, <2>1, <2>2, RefundSteps DEF RefundKinds, LedgerInv
<1>7. CASE ~Refunding /\ payment'[q] # payment[q]
  <2>1. ASSUME NEW p \in Payments, NEW st, payment' = [payment EXCEPT ![p].status = st],
               p = q => st # "Failed" /\ gateway[p] = "settlement"
        PROVE  gateway[q] = "settlement"
    BY <1>1, <1>7, <2>1
  <2>2. ASSUME NEW p \in Payments, payment' = [payment EXCEPT ![p].status = "Failed"] PROVE FALSE
    BY <1>1, <1>7, <2>2 DEF PaymentRows
  <2>3. ASSUME NEW p \in Payments, Settle(p) PROVE gateway[q] = "settlement"
    BY <2>1, <2>3 DEF Settle, ApplySuccess
  <2>4. ASSUME NEW p \in Payments, GiveUp(p) \/ ChargeRejected(p) PROVE FALSE
    BY <2>2, <2>4 DEF GiveUp, ApplyFailure, ChargeRejected
  <2>5. ASSUME NEW p \in Payments, payment[p].status = "none",
               \A r \in Payments \ {p} : payment'[r] = payment[r]
        PROVE  FALSE
    BY <1>1, <1>3, <1>7, <2>5
  <2>6. ASSUME NEW p \in Payments, NEW type \in {"dp", "final"}, CreateCharge(p, type) PROVE FALSE
    BY <1>1, <2>5, <2>6 DEF CreateCharge, IsNext
  <2>7. ASSUME NEW p \in Payments, NEW amount \in 1..Total, ManualPayment(p, amount) PROVE FALSE
    BY <1>1, <2>5, <2>7 DEF ManualPayment, IsNext
  <2>8. QED
    BY <1>7, <2>3, <2>4, <2>6, <2>7, OrderSteps DEF OrderStep, LedgerInv
<1>8. QED
  BY <1>5, <1>6, <1>7

\* The money invariant, but for ReceivedIsSettled, in terms of the three sums
\* and the statuses of order and invoice.
Producing == {"in_process", "ready"} \cup CountedSale
Balanced(got, back, reserved, st, inv) ==
    /\ got - back >= 0 /\ (got - back) + reserved <= Total
    /\ inv = "paid" <=> got - back >= Total
    /\ inv = "partial" <=> got - back > 0 /\ got - back < Total
    /\ inv = "refunded" <=> got > 0 /\ got - back = 0
    /\ got > 0 /\ back = got => st = "refunded"
    /\ st \in Producing => 2 * got >= Total
    /\ st = "cancelled_settlement_expired" => got - back > 0 /\ got - back < Total

\* The parts of MoneyInv say that the sums are balanced.
LEMMA BalancedNow == TypeOK /\ MoneyInv => Balanced(Got, Back, Reserved, status, invoice)
<1> SUFFICES ASSUME TypeOK, MoneyInv PROVE Balanced(Got, Back, Reserved, status, invoice)
  OBVIOUS
<1>1. Got \in Nat /\ Back \in Nat /\ Reserved \in Nat /\ Total \in Nat /\ Total > 0
  BY MoneyType, ConstantsAssumption
<1>2. /\ Net(payment, refund) = Got - Back
      /\ FullyRefunded(payment, refund) <=> Got > 0 /\ Back = Got
      /\ Gross(payment) = Got /\ Amounts(payment, PendingOnline) = Reserved
  BY MoneyTerms DEF Got, Reserved
<1>3. Got - Back >= 0 /\ (Got - Back) + Reserved <= Total
  BY <1>1, <1>2 DEF MoneyInv, WithinTotal
<1>4. /\ invoice = "paid" <=> Got - Back >= Total
      /\ invoice = "partial" <=> Got - Back > 0 /\ Got - Back < Total
      /\ invoice = "refunded" <=> Got > 0 /\ Got - Back = 0
  BY <1>1, <1>2 DEF MoneyInv, InvoiceAgrees
<1>5. Got > 0 /\ Back = Got => status = "refunded"
  BY <1>2 DEF MoneyInv, RefundedCloses
<1>6. status \in Producing => 2 * Got >= Total
  BY <1>2 DEF MoneyInv, ProductionIsFunded, Producing
<1>7. status = "cancelled_settlement_expired" => Got - Back > 0 /\ Got - Back < Total
  BY <1>1, <1>2 DEF MoneyInv, OnlyPartlyPaidExpire
<1>8. QED
  BY <1>3, <1>4, <1>5, <1>6, <1>7 DEF Balanced

\* And the other way round.
LEMMA BalancedThen ==
    TypeOK /\ ReceivedIsSettled /\ Balanced(Got, Back, Reserved, status, invoice) => MoneyInv
<1> SUFFICES ASSUME TypeOK, ReceivedIsSettled, Balanced(Got, Back, Reserved, status, invoice)
             PROVE  MoneyInv
  OBVIOUS
<1>1. Got \in Nat /\ Back \in Nat /\ Reserved \in Nat /\ Total \in Nat /\ Total > 0
  BY MoneyType, ConstantsAssumption
<1>2. /\ Net(payment, refund) = Got - Back
      /\ FullyRefunded(payment, refund) <=> Got > 0 /\ Back = Got
      /\ Gross(payment) = Got /\ Amounts(payment, PendingOnline) = Reserved
  BY MoneyTerms DEF Got, Reserved
<1>3. WithinTotal
  BY <1>1, <1>2 DEF Balanced, WithinTotal
<1>4. InvoiceAgrees
  BY <1>1, <1>2 DEF Balanced, InvoiceAgrees
<1>5. RefundedCloses
  BY <1>2 DEF Balanced, RefundedCloses
<1>6. ProductionIsFunded
  BY <1>2 DEF Balanced, ProductionIsFunded, Producing
<1>7. OnlyPartlyPaidExpire
  BY <1>1, <1>2 DEF Balanced, OnlyPartlyPaidExpire
<1>8. QED
  BY <1>3, <1>4, <1>5, <1>6, <1>7 DEF MoneyInv

\* The same of the state after a step.
LEMMA BalancedAfter ==
    (TypeOK /\ ReceivedIsSettled /\ Balanced(Got, Back, Reserved, status, invoice)
        => MoneyInv)'
BY BalancedThen, PTL

\* The effects, as relations between the sums and statuses before and after.
LEMMA Balances ==
    ASSUME NEW g \in Nat, NEW b \in Nat, NEW r \in Nat, NEW st, NEW inv,
           NEW g2 \in Nat, NEW b2 \in Nat, NEW r2 \in Nat, NEW st2, NEW inv2,
           Balanced(g, b, r, st, inv)
    PROVE  /\ /\ g2 = g /\ b2 = b /\ r2 <= r /\ inv2 = inv
              /\ st = "refunded" => st2 = st
              /\ st2 \in Producing => st \in Producing \/ 2 * (g - b) >= Total
              /\ st2 = "cancelled_settlement_expired" => st2 = st \/ inv = "partial"
              => Balanced(g2, b2, r2, st2, inv2)
           /\ /\ g2 = g /\ b2 = b /\ r2 <= r /\ g <= b /\ st # "refunded"
              /\ st2 = "cancelled" /\ inv2 = "unpaid"
              => Balanced(g2, b2, r2, st2, inv2)
           /\ /\ g2 = g /\ b2 = b /\ (g - b) + r2 <= Total /\ st2 = st /\ inv2 = inv
              => Balanced(g2, b2, r2, st2, inv2)
           /\ /\ g2 > g /\ b2 = b /\ (g2 - b2) + r2 <= Total
              /\ st # "cancelled_settlement_expired" /\ st2 = st
              /\ inv2 = IF g2 - b2 >= Total THEN "paid" ELSE "partial"
              => Balanced(g2, b2, r2, st2, inv2)
           /\ /\ g2 >= g /\ b2 >= b /\ g2 - b2 >= 0 /\ (g2 - b2) + r2 <= Total
              /\ inv2 = IF g2 > 0 /\ b2 = g2 THEN "refunded"
                        ELSE IF g2 - b2 >= Total THEN "paid"
                        ELSE IF g2 - b2 > 0 THEN "partial" ELSE "unpaid"
              /\ st2 = IF g2 > 0 /\ b2 = g2 THEN "refunded" ELSE st
              /\ st = "cancelled_settlement_expired" => g2 = g /\ ~(g2 > 0 /\ b2 = g2)
              => Balanced(g2, b2, r2, st2, inv2)
<1>1. Total \in Nat /\ Total > 0
  BY ConstantsAssumption
<1>2. "refunded" \notin Producing /\ "cancelled" \notin Producing
  BY DEF Producing, CountedSale
<1>3. ASSUME g2 = g, b2 = b, r2 <= r, inv2 = inv, st = "refunded" => st2 = st,
             st2 \in Producing => st \in Producing \/ 2 * (g - b) >= Total,
             st2 = "cancelled_settlement_expired" => st2 = st \/ inv = "partial"
      PROVE  Balanced(g2, b2, r2, st2, inv2)
  BY <1>1, <1>3 DEF Balanced
<1>4. ASSUME g2 = g, b2 = b, r2 <= r, g <= b, st # "refunded", st2 = "cancelled", inv2 = "unpaid"
      PROVE  Balanced(g2, b2, r2, st2, inv2)
  BY <1>1, <1>2, <1>4 DEF Balanced
<1>5. ASSUME g2 = g, b2 = b, (g - b) + r2 <= Total, st2 = st, inv2 = inv
      PROVE  Balanced(g2, b2, r2, st2, inv2)
  BY <1>1, <1>5 DEF Balanced
<1>6. ASSUME g2 > g, b2 = b, (g2 - b2) + r2 <= Total, st # "cancelled_settlement_expired",
             st2 = st, inv2 = IF g2 - b2 >= Total THEN "paid" ELSE "partial"
      PROVE  Balanced(g2, b2, r2, st2, inv2)
  BY <1>1, <1>6 DEF Balanced
<1>7. ASSUME g2 >= g, b2 >= b, g2 - b2 >= 0, (g2 - b2) + r2 <= Total,
             inv2 = IF g2 > 0 /\ b2 = g2 THEN "refunded"
                    ELSE IF g2 - b2 >= Total THEN "paid"
                    ELSE IF g2 - b2 > 0 THEN "partial" ELSE "unpaid",
             st2 = IF g2 > 0 /\ b2 = g2 THEN "refunded" ELSE st,
             st = "cancelled_settlement_expired" => g2 = g /\ ~(g2 > 0 /\ b2 = g2)
      PROVE  Balanced(g2, b2, r2, st2, inv2)
  BY <1>1, <1>2, <1>7 DEF Balanced
<1>8. QED
  BY <1>3, <1>4, <1>5, <1>6, <1>7

\* Every step keeps the money invariant.
LEMMA MoneyStep ==
    ASSUME TypeOK, TypeOK', GatewayInv, LedgerInv, MoneyInv, [Next]_vars, CarefulRefunds,
           RefundsStand
    PROVE  MoneyInv'
<1>1. Effect
  BY OrderEffect, RefundEffect
<1> DEFINE g == Got'
           b == Back'
           r == Reserved'
           st == status'
           inv == invoice'
<1>2. /\ Got \in Nat /\ Back \in Nat /\ Reserved \in Nat
      /\ g \in Nat /\ b \in Nat /\ r \in Nat
  BY MoneyType
<1>3. Balanced(Got, Back, Reserved, status, invoice)
  BY BalancedNow
<1>4. EnoughPaid <=> 2 * (Got - Back) >= Total
  BY MoneyTerms DEF EnoughPaid
<1>5. (FullyRefunded(payment', refund') <=> g > 0 /\ b = g) /\ Net(payment', refund') = g - b
  BY MoneyTerms
<1>6. ASSUME Quiet PROVE Balanced(g, b, r, st, inv)
  <2>1. g = Got /\ b = Back /\ r <= Reserved /\ inv = invoice
    BY <1>6 DEF Quiet
  <2>2. /\ status = "refunded" => st = status
        /\ st \in Producing => status \in Producing \/ 2 * (Got - Back) >= Total
        /\ st = "cancelled_settlement_expired" => st = status \/ invoice = "partial"
    BY <1>4, <1>6 DEF Quiet, StatusMove, Producing, CountedSale
  <2> HIDE DEF g, b, r, st, inv
  <2>3. Balanced(g, b, r, st, inv)
    BY <1>2, <1>3, <2>1, <2>2, Balances
  <2>4. QED
    BY <2>3
<1>7. ASSUME CloseUnpaid PROVE Balanced(g, b, r, st, inv)
  <2>1. /\ g = Got /\ b = Back /\ r <= Reserved /\ Got <= Back
        /\ status # "refunded" /\ st = "cancelled" /\ inv = "unpaid"
    BY <1>7, NothingLeft DEF CloseUnpaid, LedgerInv
  <2> HIDE DEF g, b, r, st, inv
  <2>2. Balanced(g, b, r, st, inv)
    BY <1>2, <1>3, <2>1, Balances
  <2>3. QED
    BY <2>2
<1>8. ASSUME Reserve PROVE Balanced(g, b, r, st, inv)
  <2>1. g = Got /\ b = Back /\ (Got - Back) + r <= Total /\ st = status /\ inv = invoice
    BY <1>8 DEF Reserve
  <2> HIDE DEF g, b, r, st, inv
  <2>2. Balanced(g, b, r, st, inv)
    BY <1>2, <1>3, <2>1, Balances
  <2>3. QED
    BY <2>2
<1>9. ASSUME Receive PROVE Balanced(g, b, r, st, inv)
  <2>1. /\ g > Got /\ b = Back /\ (g - b) + r <= Total
        /\ status # "cancelled_settlement_expired" /\ st = status
        /\ inv = IF g - b >= Total THEN "paid" ELSE "partial"
    BY <1>9 DEF Receive
  <2> HIDE DEF g, b, r, st, inv
  <2>2. Balanced(g, b, r, st, inv)
    BY <1>2, <1>3, <2>1, Balances
  <2>3. QED
    BY <2>2
<1>10. ASSUME Return PROVE Balanced(g, b, r, st, inv)
  <2>1. /\ g >= Got /\ b >= Back /\ g - b >= 0 /\ (g - b) + r <= Total
        /\ inv = InvoiceAfter(payment', refund')
        /\ st = IF FullyRefunded(payment', refund') THEN "refunded" ELSE status
        /\ status = "cancelled_settlement_expired" =>
              g = Got /\ ~FullyRefunded(payment', refund')
    BY <1>10 DEF Return
  <2> HIDE DEF g, b, r, st, inv
  <2>2. /\ inv = IF g > 0 /\ b = g THEN "refunded"
                 ELSE IF g - b >= Total THEN "paid"
                 ELSE IF g - b > 0 THEN "partial" ELSE "unpaid"
        /\ st = IF g > 0 /\ b = g THEN "refunded" ELSE status
        /\ status = "cancelled_settlement_expired" => g = Got /\ ~(g > 0 /\ b = g)
    BY <1>5, <2>1 DEF InvoiceAfter
  <2>3. Balanced(g, b, r, st, inv)
    BY <1>2, <1>3, <2>1, <2>2, Balances
  <2>4. QED
    BY <2>3
<1>11. Balanced(g, b, r, st, inv)
  BY <1>1, <1>6, <1>7, <1>8, <1>9, <1>10 DEF Effect
<1>12. ReceivedIsSettled'
  BY ReceivedStep
<1>13. (Balanced(Got, Back, Reserved, status, invoice))'
  BY <1>11 DEF Balanced
<1>14. QED
  BY <1>12, <1>13, BalancedAfter

\* A new order owes everything.
LEMMA MoneyInit == Init => MoneyInv
<1> SUFFICES ASSUME Init PROVE MoneyInv
  OBVIOUS
<1>1. TypeOK /\ status = "pending" /\ invoice = "unpaid" /\ Total \in Nat /\ Total > 0
  BY TypeInit, ConstantsAssumption DEF Init
<1>2. /\ \A S \in SUBSET {"Success", "Refunded", "Pending"} : WithStatus(payment, S) = {}
      /\ {k \in Keys : refund[k].status = "completed"} = {}
  BY DEF Init, NoPayment, NoRefund, WithStatus
<1>3. Got = 0 /\ Back = 0 /\ Reserved = 0 /\ Paid = {}
  BY <1>2, AmountsEmpty DEF Got, Gross, Back, RefundedTotal, Reserved, PendingOnline, Paid
<1>4. ReceivedIsSettled
  BY <1>3 DEF ReceivedIsSettled
<1>5. Balanced(Got, Back, Reserved, status, invoice)
  BY <1>1, <1>3 DEF Balanced, Producing, CountedSale
<1>6. QED
  BY <1>1, <1>4, <1>5, BalancedThen

\* A stuttering step keeps it.
LEMMA MoneyStutter == MoneyInv /\ UNCHANGED vars => MoneyInv'
<1> SUFFICES ASSUME MoneyInv, UNCHANGED vars PROVE MoneyInv'
  OBVIOUS
<1>1. UNCHANGED <<status, invoice, payment, refund, gateway>>
  BY DEF vars, orderVars, gatewayVars
<1>2. ReceivedIsSettled' /\ RefundedCloses'
  BY <1>1 DEF MoneyInv, ReceivedIsSettled, RefundedCloses, Paid, WithStatus
<1>3. WithinTotal'
  BY <1>1 DEF MoneyInv, WithinTotal, PendingOnline, WithStatus
<1>4. InvoiceAgrees' /\ ProductionIsFunded' /\ OnlyPartlyPaidExpire'
  BY <1>1 DEF MoneyInv, InvoiceAgrees, ProductionIsFunded, OnlyPartlyPaidExpire
<1>5. QED
  BY <1>2, <1>3, <1>4 DEF MoneyInv

\* The strengthening, as an invariant of that specification.
LEMMA MoneyInvariant == CarefulSpec => [](TypeOK /\ GatewayInv /\ LedgerInv /\ MoneyInv)
<1> DEFINE Inv == TypeOK /\ GatewayInv /\ LedgerInv /\ RefundsStand
<1>1. Inv /\ Inv' /\ MoneyInv /\ [Next]_vars /\ [CarefulRefunds]_vars => MoneyInv'
  <2>1. ASSUME Inv, Inv', MoneyInv, [Next]_vars, CarefulRefunds PROVE MoneyInv'
    BY <2>1, MoneyStep
  <2>2. QED
    BY <2>1, MoneyStutter
<1>2. CarefulSpec => []Inv
  BY LedgerInvariant, RefundsStandInvariant, PTL DEF CarefulSpec
<1>3. Init => MoneyInv
  BY MoneyInit
<1> HIDE DEF Inv
<1>4. CarefulSpec => [](Inv /\ MoneyInv)
  BY <1>1, <1>2, <1>3, PTL DEF Spec, CarefulSpec
<1>5. QED
  BY <1>4, PTL DEF Inv

\* Received money and the open reservation never exceed the bill, and returned
\* money never exceeds what was received.
THEOREM WithinBill == CarefulSpec => []WithinTotal
BY MoneyInvariant, PTL DEF MoneyInv

\* The invoice status that five handlers write is the one the payments and the
\* refund ledger imply, at all times.
THEOREM InvoiceStaysTrue == CarefulSpec => []InvoiceAgrees
BY MoneyInvariant, PTL DEF MoneyInv

\* An order is in production or served only once half of its bill came in.
THEOREM ProductionPaid == CarefulSpec => []ProductionIsFunded
BY MoneyInvariant, PTL DEF MoneyInv

\* The settlement deadline closes partly paid orders only, and they stay partly
\* paid, however long before its recheck the worker selected the order.
THEOREM ExpiredIsPartlyPaid == CarefulSpec => []OnlyPartlyPaidExpire
BY MoneyInvariant, PTL DEF MoneyInv

\* What counts as received online was settled by the gateway.
THEOREM ReceivedWasSettled == CarefulSpec => []SuccessIsSettled
<1>1. MoneyInv => SuccessIsSettled
  BY DEF MoneyInv, ReceivedIsSettled, SuccessIsSettled, Paid, WithStatus
<1>2. QED
  BY <1>1, MoneyInvariant, PTL

\* A cancelled or lapsed order has no charge that is alive at the gateway or on
\* its way there, whatever was in flight when it closed, save one that the
\* gateway itself answered with an error.
THEOREM DeadTakesNoMoney == CarefulSpec => []DeadOrderTakesNoMoney
<1>1. TypeOK /\ GatewayInv /\ LedgerInv /\ MoneyInv => DeadOrderTakesNoMoney
  <2> SUFFICES ASSUME TypeOK, GatewayInv, LedgerInv, MoneyInv, NEW p \in Payments,
                      charge[p] # "refused",
                      status \in {"cancelled", "cancelled_settlement_expired"}
               PROVE  /\ gateway[p] \notin {"pending", "challenge"}
                      /\ gateway[p] = "none" => charge[p] = "idle" /\ payment[p].status # "Pending"
    BY DEF DeadOrderTakesNoMoney
  <2>1. payment[p].status \in {"none", "Success", "Failed", "Refunded"}
    <3>1. payment[p].status \in PaymentStatuses \cup {"none"}
      BY DEF TypeOK, PaymentRows
    <3>2. payment[p].status # "Pending"
      BY DEF LedgerInv, DeadNoPending, PendingOnline, WithStatus
    <3>3. QED
      BY <3>1, <3>2, PaymentTable
  <2>2. ~payment[p].online => gateway[p] = "none" /\ charge[p] = "idle"
    BY DEF LedgerInv, RowsInv, PaymentRowsOK
  <2>3. payment[p].status = "none" => ~payment[p].online
    BY DEF LedgerInv, RowsInv, PaymentRowsOK, NoPayment
  <2>4. payment[p].status = "Failed" => gateway[p] \in {"rejected", "deny", "cancel", "expire"}
    BY DEF GatewayInv, Dead
  <2>5. payment[p].status \in {"Success", "Refunded"} /\ payment[p].online =>
            gateway[p] = "settlement"
    BY DEF MoneyInv, ReceivedIsSettled, Paid, WithStatus
  <2>6. QED
    BY <2>1, <2>2, <2>3, <2>4, <2>5
<1>2. QED
  BY <1>1, MoneyInvariant, PTL

\* One payment moves forward in one step.
LEMMA ForwardStep ==
    ASSUME TypeOK, TypeOK', GatewayInv, LedgerInv, MoneyInv, [Next]_vars, CarefulRefunds,
           RefundsStand, NEW p \in Payments
    PROVE  /\ payment[p].status \in {"Failed", "Refunded"} =>
                 payment'[p].status = payment[p].status
           /\ payment[p].status = "Success" => payment'[p].status \in {"Success", "Refunded"}
<1> DEFINE Forward ==
       /\ payment[p].status \in {"Failed", "Refunded"} => payment'[p].status = payment[p].status
       /\ payment[p].status = "Success" => payment'[p].status \in {"Success", "Refunded"}
<1>1. payment \in [Payments -> PaymentRows]
  BY DEF TypeOK
<1>2. ASSUME payment'[p] = payment[p] PROVE Forward
  BY <1>2
<1>3. CASE Refunding
  <2>1. ASSUME NEW S, payment' = Restated(payment, refund', S),
               p \in S => /\ payment[p].status # "Failed"
                          /\ CompletedOf(refund', p) <= payment[p].amount
        PROVE  Forward
    <3>1. CASE p \in S
      <4>1. payment'[p].status = IF CompletedOf(refund', p) = payment[p].amount
                                 THEN "Refunded" ELSE "Success"
        BY <2>1, <3>1, RestatedRows
      <4>2. ASSUME payment[p].status = "Refunded"
            PROVE  CompletedOf(refund', p) = payment[p].amount
        <5>1. CompletedOf(refund, p) = payment[p].amount
          BY <4>2 DEF LedgerInv, RefundsMatchPayments
        <5>2. LedgerGrows /\ refund \in [Keys -> RefundRows] /\ refund' \in [Keys -> RefundRows]
          BY <1>3, RefundSteps DEF LedgerInv, LedgerStep, TypeOK
        <5>3. CompletedOf(refund, p) <= CompletedOf(refund', p)
          BY <5>2, LedgerTotals
        <5>4. payment[p].amount \in Nat
          BY <1>1, ConstantsAssumption DEF PaymentRows
        <5>5. CompletedOf(refund', p) \in Nat
          <6> DEFINE new == refund'
          <6>1. new \in [Keys -> RefundRows]
            BY <5>2
          <6> HIDE DEF new
          <6>2. CompletedOf(new, p) \in Nat
            BY <1>1, <6>1, Totals
          <6>3. QED
            BY <6>2 DEF new
        <5> DEFINE n == CompletedOf(refund', p)
        <5>6. n \in Nat /\ payment[p].amount <= n /\ n <= payment[p].amount
          BY <2>1, <3>1, <5>1, <5>3, <5>5
        <5> HIDE DEF n
        <5>7. n = payment[p].amount
          BY <5>4, <5>6
        <5>8. QED
          BY <5>7 DEF n
      <4>3. QED
        BY <2>1, <3>1, <4>1, <4>2
    <3>2. CASE p \notin S
      BY <1>2, <2>1, <3>2, RestatedRows
    <3>3. QED
      BY <3>1, <3>2
  <2>2. ASSUME NEW q \in Payments, RefreshRefundState(q), Received(q) PROVE Forward
    <3>1. /\ payment' = Restated(payment, refund', {q})
          /\ CompletedOf(refund', q) <= payment[q].amount
      BY <2>2 DEF RefreshRefundState
    <3>2. payment[q].status # "Failed"
      BY <2>2 DEF Received, RefundsStand
    <3>3. QED
      BY <2>1, <3>1, <3>2
  <2>3. CASE ConfirmRefund
    <3>1. /\ payment' = Restated(payment, refund', Rows) /\ Rows = Paid
          /\ \A q \in Rows : CompletedOf(refund', q) <= payment[q].amount
      BY <2>3 DEF ConfirmRefund, CarefulRefunds
    <3>2. p \in Paid => payment[p].status # "Failed"
      BY DEF Paid, WithStatus
    <3>3. QED
      BY <2>1, <3>1, <3>2
  <2>4. QED
    BY <1>2, <1>3, <2>2, <2>3, RefundSteps DEF RefundKinds, LedgerInv
<1>4. CASE ~Refunding
  <2>1. ASSUME NEW q \in Payments, payment[q].status \in {"none", "Pending"},
               \A r \in Payments \ {q} : payment'[r] = payment[r]
        PROVE  Forward
    BY <1>2, <2>1
  <2>2. ASSUME NEW q \in Payments, \/ \E type \in {"dp", "final"} : CreateCharge(q, type)
                                   \/ \E amount \in 1..Total : ManualPayment(q, amount)
                                   \/ Settle(q) \/ GiveUp(q)
        PROVE  Forward
    <3>1. payment[q].status \in {"none", "Pending"}
      BY <2>2 DEF CreateCharge, ManualPayment, IsNext, Settle, GiveUp
    <3>2. \A r \in Payments \ {q} : payment'[r] = payment[r]
      BY <1>1, <2>2 DEF CreateCharge, ManualPayment, Settle, GiveUp, ApplySuccess, ApplyFailure
    <3>3. QED
      BY <2>1, <3>1, <3>2
  <2>3. ASSUME NEW q \in Payments, ChargeRejected(q) PROVE Forward
    <3>1. /\ gateway[q] \notin {"none", "settlement"}
          /\ payment' = [payment EXCEPT ![q].status = "Failed"]
      BY <2>3 DEF ChargeRejected
    <3>2. payment[q].online
      BY <3>1 DEF LedgerInv, RowsInv, PaymentRowsOK
    <3>3. payment[q].status \notin {"Success", "Refunded"}
      BY <3>1, <3>2 DEF MoneyInv, ReceivedIsSettled, Paid, WithStatus
    <3>4. CASE p = q
      <4>1. payment'[p].status = "Failed"
        BY <1>1, <3>1, <3>4 DEF PaymentRows
      <4>2. QED
        BY <3>3, <3>4, <4>1
    <3>5. CASE p # q
      BY <1>1, <1>2, <3>1, <3>5
    <3>6. QED
      BY <3>4, <3>5
  <2>4. QED
    BY <1>2, <1>4, <2>2, <2>3, OrderSteps DEF OrderStep, LedgerInv
<1>5. QED
  BY <1>3, <1>4

\* A payment never moves backwards, although one handler writes Failed without
\* a lock and the confirmations of refunds restate payments.
THEOREM ForwardOnly == CarefulSpec => PaymentsForward
<1> DEFINE Inv == TypeOK /\ GatewayInv /\ LedgerInv /\ MoneyInv /\ RefundsStand
           Forward ==
              \A p \in Payments :
                 /\ payment[p].status \in {"Failed", "Refunded"} =>
                       payment'[p].status = payment[p].status
                 /\ payment[p].status = "Success" => payment'[p].status \in {"Success", "Refunded"}
<1>1. Inv /\ Inv' /\ [Next]_vars /\ [CarefulRefunds]_vars => [Forward]_vars
  <2>1. ASSUME Inv, Inv', [Next]_vars, CarefulRefunds PROVE Forward
    BY <2>1, ForwardStep
  <2>2. QED
    BY <2>1
<1>2. CarefulSpec => []Inv
  BY MoneyInvariant, RefundsStandInvariant, PTL
<1>3. PaymentsForward <=> [][Forward]_vars
  BY DEF PaymentsForward
<1> HIDE DEF Inv, Forward
<1>4. CarefulSpec => [][Forward]_vars
  BY <1>1, <1>2, PTL DEF Spec, CarefulSpec
<1>5. QED
  BY <1>3, <1>4

\* An order without refunds needs no such care: nothing can be confirmed.
THEOREM WithoutRefunds ==
    Keys = {} => (Spec => /\ [](WithinTotal /\ InvoiceAgrees /\ ProductionIsFunded)
                          /\ [](OnlyPartlyPaidExpire /\ SuccessIsSettled /\ DeadOrderTakesNoMoney)
                          /\ PaymentsForward)
<1> DEFINE All == /\ [](WithinTotal /\ InvoiceAgrees /\ ProductionIsFunded)
                  /\ [](OnlyPartlyPaidExpire /\ SuccessIsSettled /\ DeadOrderTakesNoMoney)
                  /\ PaymentsForward
<1> SUFFICES ASSUME Keys = {} PROVE Spec => All
  OBVIOUS
<1>1. CarefulRefunds
  <2>1. Payments # {} /\ [Payments -> Keys] = {}
    BY ConstantsAssumption DEF Payments
  <2>2. QED
    BY <2>1 DEF CarefulRefunds, ConfirmRefund, ConfirmPending, ConfirmRest,
       PendingRefunds
<1>2. Spec => CarefulSpec
  BY <1>1, PTL DEF CarefulSpec
<1>3. CarefulSpec => All
  BY WithinBill, InvoiceStaysTrue, ProductionPaid, ExpiredIsPartlyPaid, ReceivedWasSettled,
     DeadTakesNoMoney, ForwardOnly, PTL
<1>4. QED
  BY <1>2, <1>3
===============================================================================
