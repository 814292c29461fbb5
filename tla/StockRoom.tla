------------------------------- MODULE StockRoom -------------------------------
(***************************************************************************)
(* What the services promise of the stock master, with no transactions in    *)
(* it: a request that changes stock does so at once, on the rows as they are *)
(* at that moment. A purchase is received whole and once; each change of a   *)
(* row is one movement of its ledger; a row that goes had no movements. How  *)
(* costs are averaged and rounded is a parameter.                            *)
(***************************************************************************)
EXTENDS Integers, Sequences

CONSTANTS Stocks, Purchases, \* ids of stock rows and of purchases
          Orderable,         \* lists of items, of a row each
          Deliveries,        \* adjustments: [qty, unit]
          Openings,          \* rows created: [qty, cost]
          Absent,            \* a row that does not exist
          Opened(_),         \* the ledger a row is opened with
          HalfUp(_, _),      \* a unit cost: total and quantity
          Averaged(_, _, _), \* a row that receives a quantity for a total
          Adjusted(_, _, _)  \* a row adjusted by a quantity, at a unit cost

VARIABLES stock,    \* the rows
          moves,    \* their ledgers
          received  \* the purchases received

vars == <<stock, moves, received>>

Init ==
    /\ stock \in [Stocks -> Openings \cup {Absent}]
    /\ moves = [i \in Stocks |-> Opened(stock[i])]
    /\ received = {}

\* The item of the list that is of row i.
Asks(list, i) == \E n \in DOMAIN list : list[n].stock = i
ItemOf(list, i) == list[CHOOSE n \in DOMAIN list : list[n].stock = i]

Receive(p, list) ==
    /\ p \notin received /\ received' = received \cup {p}
    /\ \A n \in DOMAIN list : stock[list[n].stock] # Absent
    /\ stock' = [i \in Stocks |->
            IF Asks(list, i) THEN Averaged(stock[i], ItemOf(list, i).qty, ItemOf(list, i).total)
            ELSE stock[i]]
    /\ moves' = [i \in Stocks |->
            IF Asks(list, i)
            THEN Append(moves[i], [kind |-> "PURCHASE", qty |-> ItemOf(list, i).qty,
                                   unit |-> HalfUp(ItemOf(list, i).total, ItemOf(list, i).qty), ref |-> p])
            ELSE moves[i]]

Adjust(i, d) ==
    /\ stock[i] # Absent /\ stock[i].qty + d.qty >= 0
    /\ stock' = [stock EXCEPT ![i] = Adjusted(stock[i], d.qty, d.unit)]
    /\ moves' = [moves EXCEPT ![i] = Append(@,
            [kind |-> IF d.qty > 0 THEN "ADJUSTMENT_IN" ELSE "ADJUSTMENT_OUT", qty |-> d.qty, ref |-> "none",
             unit |-> IF d.qty > 0 THEN d.unit ELSE stock[i].cost])]
    /\ UNCHANGED received

\* An order takes one.
Take(i) ==
    /\ stock[i] # Absent /\ stock[i].qty >= 1
    /\ stock' = [stock EXCEPT ![i].qty = @ - 1]
    /\ moves' = [moves EXCEPT ![i] = Append(@, [kind |-> "ORDER", qty |-> -1, unit |-> 0, ref |-> "none"])]
    /\ UNCHANGED received

Open(i, o) ==
    /\ stock[i] = Absent
    /\ stock' = [stock EXCEPT ![i] = o]
    /\ moves' = [moves EXCEPT ![i] = Opened(o)]
    /\ UNCHANGED received

Close(i) ==
    /\ stock[i] # Absent /\ stock[i].qty = 0 /\ moves[i] = <<>>
    /\ stock' = [stock EXCEPT ![i] = Absent]
    /\ UNCHANGED <<moves, received>>

\* A request may be refused, or change something else.
Next ==
    \/ UNCHANGED vars
    \/ \E p \in Purchases, list \in Orderable : Receive(p, list)
    \/ \E i \in Stocks, d \in Deliveries : Adjust(i, d)
    \/ \E i \in Stocks : Take(i) \/ Close(i) \/ (\E o \in Openings : Open(i, o))

Spec == Init /\ [][Next]_vars
===============================================================================
