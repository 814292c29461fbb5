------------------------------ MODULE MCCheckout ------------------------------
(***************************************************************************)
(* Instances of Checkout for TLC, and two statements the code does not keep. *)
(***************************************************************************)
EXTENDS Checkout, TLC

CONSTANTS c1, b1, t1, t2, t3

Number == [b \in Buyers |-> c1]

\* Recipes and accessories, in units of 0.005 per portion.
OneTwo == [i \in Ingredients |-> i]
TwoZero == [i \in Ingredients |-> IF i = 1 THEN 2 ELSE 0]
OneOnly == [i \in Ingredients |-> IF i = 1 THEN 1 ELSE 0]
EditedRecipe == {OneTwo, TwoZero}
BothRows == {OneTwo}
OddRecipe == {OneOnly}

Loss == {-1}
Delivery == {4}

\* Requests of one customer, on each channel.
Chatbot(k) == [kind |-> "chatbot", customer |-> c1, key |-> k, qty |-> 1, extra |-> Nothing]
Web(k) == [kind |-> "buyer", buyer |-> b1, key |-> k, qty |-> 1, extra |-> Nothing]
Seller == [kind |-> "seller", customer |-> c1, key |-> NoKey, qty |-> 1, extra |-> OneOnly]
Twice(k) == [Web(k) EXCEPT !.qty = 2]
EveryChannel ==
    {Chatbot(k) : k \in Keys} \cup {Web(k) : k \in Keys} \cup {Twice(k) : k \in Keys}
        \cup {Seller} \cup Releases
ChatbotOnly == {Chatbot(NoKey)} \cup Releases

\* The transactions differ in nothing, so they begin in the order t1, t2, t3.
\* This prunes like a symmetry, and leaves the fairness of FairSpec alone.
InOrder ==
    /\ pc[t2] # "idle" => pc[t1] # "idle"
    /\ pc[t3] # "idle" => pc[t2] # "idle"

OrderedSpec == Init /\ [][Next /\ InOrder']_vars /\ Fairness

-------------------------------------------------------------------------------
(* Statements of the documentation that the code does not keep (README).     *)

\* README.md, "Order, payment, and refund lifecycle": a cancelled order's stock
\* is reversed from its ORDER movements. Not kept to the hundredth: taking half
\* a hundredth leaves the NUMERIC(10,2) row as it was, giving it back adds one.
CancellingRestoresStock ==
    (\A o \in Txs : orders[o] # NoOrder => orders[o].status = "cancelled")
        => \A i \in Ingredients : stock[i].qty = 2 * Opening

\* README.md: the preflight verifies ledger balances. It replays the movements
\* by created_at, which is when the transaction began: an order that waited for
\* a delivery's row lock is replayed before the delivery that it lives on.
Earlier(m, n) == m.at < n.at
AuditAcceptsLedger ==
    \A i \in Ingredients : ~Overdrawn(SortSeq(ledger[i], Earlier))
===============================================================================
