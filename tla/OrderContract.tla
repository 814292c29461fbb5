----------------------------- MODULE OrderContract -----------------------------
(***************************************************************************)
(* What the life of one order promises to the stock room and to the sales  *)
(* figures, with no money in it: the order moves along the transition      *)
(* table (or is closed by the settlement deadline), gives its ingredients  *)
(* back once, when it closes without being served, and is counted as sold  *)
(* once, when it is served.                                                *)
(***************************************************************************)
EXTENDS OrderStates, Naturals

VARIABLES status,    \* Order.status
          reversals, \* REVERSAL entries in the stock ledger
          soldCount  \* additions to Product.sold_count

vars == <<status, reversals, soldCount>>

Closed == {"cancelled", "refunded", "cancelled_settlement_expired"}

Init == status = "pending" /\ reversals = 0 /\ soldCount = 0

Close(new) ==
    /\ \/ OrderTransition(status, new)
       \/ new = "cancelled_settlement_expired" /\ status \in {"pending", "in_process"}
    /\ new \in Closed
    /\ status' = new
    /\ reversals' = 1
    /\ UNCHANGED soldCount

Advance(new) ==
    /\ OrderTransition(status, new)
    /\ new \notin Closed
    /\ status' = new
    /\ soldCount' = IF new \in CountedSale THEN 1 ELSE soldCount
    /\ UNCHANGED reversals

\* The seller confirmed a refund that did not close the order: the ingredients
\* are given back although the order goes on.
ReleaseEarly ==
    /\ status \in {"pending", "in_process", "ready"}
    /\ reversals' = 1
    /\ UNCHANGED <<status, soldCount>>

Move == \E new \in OrderStatuses : Close(new) \/ Advance(new)

\* Without refunds.
Spec == Init /\ [][Move]_vars

\* With refunds.
RefundableSpec == Init /\ [][Move \/ ReleaseEarly]_vars
===============================================================================
