---------------------------- MODULE MCOrderPayment ----------------------------
(***************************************************************************)
(* Instances of OrderPayment for TLC: start states, fairness, and the      *)
(* statements of the repository's comments and documents that the code     *)
(* does not keep.                                                          *)
(***************************************************************************)
EXTENDS OrderPayment, TLC

KeySymmetry == Permutations(Keys)

\* The states of the run without refunds, up to what its steps can tell apart:
\* every report of a charge that ended unpaid is a failure (StatusMap), and no
\* report reaches the payment of a refused charge, which stays Failed.
GatewayClass(p) ==
    IF charge[p] = "refused" /\ payment[p].status = "Failed" THEN "refused"
    ELSE IF gateway[p] \in {"deny", "cancel", "expire"} THEN "ended" ELSE gateway[p]

ChargeView == <<orderVars, createdVia, payment, refund, charge, gwRefund, processVars, clock,
                [p \in Payments |-> GatewayClass(p)]>>

-------------------------------------------------------------------------------
(* Orders already paid, so that runs about refunds start there. Each start  *)
(* state is reachable from Init by charges, settlements and cash payments. *)

Row(s, t, a, o) == [status |-> s, type |-> t, amount |-> a, online |-> o]
DpPaid == Row("Success", "dp", Total \div 2, TRUE)
AllPaid == Row("Success", "final", Total, TRUE)
RestPaid(online) == Row("Success", "final", Total - Total \div 2, online)

StartedWith(rows) ==
    /\ payment = [p \in Payments |-> IF p \in DOMAIN rows THEN rows[p] ELSE NoPayment]
    /\ gateway = [p \in Payments |->
            IF p \in DOMAIN rows /\ rows[p].online THEN "settlement" ELSE "none"]
    /\ createdVia = "customer"
    /\ fulfillment = NoDate
    /\ status = "pending"
    /\ settlementDue = NoDate
    /\ reversals = 0
    /\ soldCount = 0
    /\ alerts = 0
    /\ refund = [k \in Keys |-> NoRefund]
    /\ charge = [p \in Payments |-> "idle"]
    /\ gwRefund = [k \in Keys |-> NoGwRefund]
    /\ cancel = Idle
    /\ scan = [w \in Workers |-> NoScan]
    /\ clock = 1
    /\ invoice = InvoiceAfter(payment, refund)

\* Partly paid, or paid at once: new charges may still come.
PaidSpec == (StartedWith(<<DpPaid>>) \/ StartedWith(<<AllPaid>>)) /\ [][Next]_vars

\* Paid in two payments, the second online or in cash: none is open or failed.
SettledSpec == (\E online \in BOOLEAN : StartedWith(<<DpPaid, RestPaid(online)>>)) /\ [][Next]_vars

-------------------------------------------------------------------------------
(* Fairness. The lifecycle worker polls for ever and survives restarts, so   *)
(* a pass that is possible again and again is made; a status query that can *)
(* be answered again and again is answered; the gateway ends every live     *)
(* transaction (custom_expiry), and every charge request ends in an answer, *)
(* a time-out or nowhere.                                                  *)

RefreshAnswered(w, p) == WorkerRefresh(w, p) /\ payment' # payment

WorkerFairness ==
    /\ \A w \in Workers :
          /\ SF_vars(ScanUnpaid(w)) /\ SF_vars(ExpireUnpaid(w))
          /\ WF_vars(ExpireSettlement(w) \/ AlertOverdue(w))
    /\ \A w \in Workers, p \in Payments :
          SF_vars(WorkerRefresh(w, p)) /\ SF_vars(RefreshAnswered(w, p))

GatewayFairness ==
    \A p \in Payments :
        /\ WF_vars(GatewayResolves(p))
        /\ WF_vars(GatewayTakesCharge(p) \/ ChargeLost(p))
        /\ WF_vars(ChargeAccepted(p) \/ ChargeRejected(p) \/ ChargeUncertain(p))

ExpirySpec == Spec /\ WorkerFairness /\ GatewayFairness

\* A customer's order whose payment deadline has passed with nothing received.
PastDeadline ==
    status = "pending" /\ createdVia = "customer" /\ invoice = "unpaid" /\ clock >= ExpiresAt
Settled == status # "pending" \/ invoice # "unpaid"

KnownToGateway(p) == gateway[p] \notin {"none", "rejected"}

\* An order past its payment deadline is closed, or turns out to be paid, if
\* the gateway knows its open reservation: refresh_if_pending and the recheck
\* of _expire_unpaid_candidates get there whatever answers and restarts do.
UnpaidOrdersEnd ==
    (PastDeadline /\ \A p \in PendingOnline : KnownToGateway(p)) ~> Settled

\* README.md, "Order, payment, and refund lifecycle": customer checkouts expire
\* as unpaid after the time-out. Not kept: a reservation whose charge never
\* reached the gateway stays Pending and blocks the expiry for ever.
EveryCheckoutExpires == PastDeadline ~> Settled

-------------------------------------------------------------------------------
(* Statements of the documentation that the code does not keep (README).     *)

\* API_ENDPOINT.md, on charges: when the outcome is uncertain the reservation is
\* kept. Not kept: an answer whose body carries a 5xx code under an HTTP status
\* below 500 sets Failed a payment whose charge the gateway may hold, and the
\* buyer can still pay it.
LiveChargeReserved ==
    \A p \in Payments :
        gateway[p] \in {"pending", "challenge", "settlement"} => payment[p].status # "Failed"

\* README.md: a payment becomes Success by a gateway settlement. Not kept: a
\* seller's refund confirmation turns a reservation nobody has paid into one.
SuccessNeedsSettlement == SuccessIsSettled

\* The comment above the stock reversal of update_order_status: stock goes back
\* when the order becomes cancelled or refunded. Not kept: a confirmation that
\* does not refund everything gives the stock back and leaves the order open.
StockGoesBackOnClosing ==
    [][reversals' # reversals => status' \in Contract!Closed]_vars

\* The comment above the refund confirmation of update_order_status: gateway
\* refunds await their signed callbacks. Not kept: a refund the gateway took,
\* whose answer was lost, is marked manual and completed by the seller.
GatewayRefundAwaitsCallback ==
    [][\A k \in Keys :
          gwRefund[k].status = "accepted" /\ refund[k].status = "pending" =>
              refund'[k].status # "completed"]_vars

\* API_ENDPOINT.md: settlement_due_date is the day before fulfillment_date. Not
\* kept: update_order_fulfillment_date moves one without the other, and the
\* worker closes the order by the old deadline.
ExpiryHonoursFulfillment ==
    [][status' = "cancelled_settlement_expired" /\ status # status' /\ fulfillment # NoDate
       => clock >= fulfillment - 1]_vars
===============================================================================
