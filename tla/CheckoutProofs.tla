---------------------------- MODULE CheckoutProofs ----------------------------
(***************************************************************************)
(* Theorems about Checkout, for any number of transactions, customers,      *)
(* buyers, keys and ingredients. They rest on the row locks: a request that *)
(* found no open bill and no order with its key holds the rows under which  *)
(* either could appear, and no two transactions hold the same row. The      *)
(* second half is about stock: the balance of a ledger is a recursion along *)
(* it, so it starts with what one more movement does to a balance.          *)
(***************************************************************************)
EXTENDS Checkout, SumTheorems

Placing == {"resolved", "locked", "clear", "priced"}

Typed ==
    /\ orders \in [Txs -> Orders \cup {NoOrder}]
    /\ call \in [Txs -> Calls \cup {NoCall}]
    /\ pc \in [Txs -> Phases]
    /\ held = [t \in Txs |-> held[t]]
    /\ answer \in [Txs -> Txs \cup {"none", "refused", "failed"}]

Exclusive == \A t, u \in Txs : t # u => held[t] \cap held[u] = {}

\* What a transaction is doing is what it was asked to do, and the rows it
\* needs for that are locked.
WorksOn ==
    \A t \in Txs :
        /\ orders[t] # NoOrder => pc[t] = "done"
        /\ pc[t] # "idle" => call[t] # NoCall
        /\ pc[t] = "idle" => answer[t] = "none"
        /\ call[t].kind = "release" => orders[call[t].order] # NoOrder
        /\ pc[t] \in Placing => /\ Places(t)
                                /\ call[t].kind = "buyer" => BuyerRow(call[t].buyer) \in held[t]
        /\ pc[t] \in Placing \ {"resolved"} => CustomerRow(Party(t)) \in held[t]
        /\ pc[t] \in {"returning", "swapping"} => call[t].kind = "release"

\* What CheckRequest found out still holds.
StillClear == \A t \in Txs : pc[t] \in {"clear", "priced"} => ~HasOpenOrder(t) /\ Previous(t) = {}

\* A request that was answered with an order was answered with its own.
AnsweredOwn ==
    \A t \in Txs : Places(t) /\ answer[t] \in Txs =>
        /\ orders[answer[t]] # NoOrder
        /\ orders[answer[t]].key = call[t].key
        /\ orders[answer[t]].scope = Scope(t)
        /\ orders[answer[t]].qty = call[t].qty

CheckoutInv == Typed /\ Exclusive /\ WorksOn /\ StillClear /\ OneOpenBill /\ KeyOnce /\ AnsweredOwn

-------------------------------------------------------------------------------
\* Rows of different tables, or with different ids, are different rows.
LEMMA RowsDiffer ==
  /\ \A c \in Customers, d \in Customers : CustomerRow(c) = CustomerRow(d) => c = d
  /\ \A b \in Buyers, d \in Buyers : BuyerRow(b) = BuyerRow(d) => b = d
  BY DEF CustomerRow, BuyerRow

LEMMA CheckoutInit == Init => CheckoutInv
<1> SUFFICES ASSUME Init PROVE CheckoutInv
  OBVIOUS
<1>1. Typed
  <2>2. orders \in [Txs -> Orders \cup {NoOrder}] /\ call \in [Txs -> Calls \cup {NoCall}]
    BY DEF Init
  <2>3. pc \in [Txs -> Phases]
    BY DEF Init, Phases
  <2>4. held = [t \in Txs |-> held[t]]
    BY DEF Init
  <2>5. answer \in [Txs -> Txs \cup {"none", "refused", "failed"}]
    BY DEF Init
  <2>6. QED
    BY <2>2, <2>3, <2>4, <2>5 DEF Typed
<1>2. Exclusive /\ WorksOn
  BY DEF Init, Exclusive, WorksOn, NoCall, Placing
<1>3. StillClear /\ OneOpenBill /\ KeyOnce
  BY DEF Init, StillClear, OneOpenBill, KeyOnce
<1>4. AnsweredOwn
  BY CheckoutAssumption DEF Init, AnsweredOwn
<1>5. QED
  BY <1>1, <1>2, <1>3, <1>4 DEF CheckoutInv

\* Parties and scopes depend on the call alone.
LEMMA SameCall ==
  ASSUME NEW t \in Txs, call'[t] = call[t]
  PROVE  Party(t)' = Party(t) /\ Scope(t)' = Scope(t) /\ Places(t)' = Places(t)
  BY DEF Party, Scope, Places

\* As long as no order and no call changes, what was found clear is clear.
LEMMA SameOrders ==
  ASSUME UNCHANGED <<orders, call>>, OneOpenBill, KeyOnce
  PROVE  /\ OneOpenBill' /\ KeyOnce'
         /\ \A t \in Txs : HasOpenOrder(t)' = HasOpenOrder(t) /\ Previous(t)' = Previous(t)
  BY DEF OneOpenBill, KeyOnce, IsOpen, HasOpenOrder, Previous, Party, Scope

\* A transaction that ends without having written anything.
LEMMA RollbackStep ==
  ASSUME CheckoutInv, NEW t \in Txs, NEW how \in Txs \cup {"refused", "failed"},
         Rollback(t, how), pc[t] # "idle",
         how \in Txs /\ Places(t) => /\ orders[how] # NoOrder
                                    /\ orders[how].key = call[t].key
                                    /\ orders[how].scope = Scope(t)
                                    /\ orders[how].qty = call[t].qty
  PROVE  CheckoutInv'
<1> USE DEF Rollback, Ends, data
<1>1. UNCHANGED <<orders, call>>
  OBVIOUS
<1>2. Typed'
  <2>1. orders' \in [Txs -> Orders \cup {NoOrder}] /\ call' \in [Txs -> Calls \cup {NoCall}]
    BY <1>1 DEF CheckoutInv, Typed
  <2>2. pc' \in [Txs -> Phases]
    BY DEF CheckoutInv, Typed, Phases
  <2>3. held' = [u \in Txs |-> held'[u]]
    BY DEF CheckoutInv, Typed
  <2>4. answer' \in [Txs -> Txs \cup {"none", "refused", "failed"}]
    BY DEF CheckoutInv, Typed
  <2>5. QED
    BY <2>1, <2>2, <2>3, <2>4 DEF Typed
<1>3. Exclusive'
  BY DEF CheckoutInv, Typed, Exclusive
<1>4. WorksOn'
  BY DEF CheckoutInv, Typed, WorksOn, Placing, Places, Party
<1>5. StillClear'
  BY <1>1, SameOrders DEF CheckoutInv, Typed, StillClear
<1>6. OneOpenBill' /\ KeyOnce'
  BY <1>1, SameOrders DEF CheckoutInv
<1>7. AnsweredOwn'
  BY <1>1, CheckoutAssumption DEF CheckoutInv, Typed, AnsweredOwn, Places, Scope
<1>8. QED
  BY <1>2, <1>3, <1>4, <1>5, <1>6, <1>7 DEF CheckoutInv

\* A transaction that moves on and writes no order: what it locks is free, it
\* stays in its line of work, and it is clear only if it found out so.
LEMMA WorkStep ==
  ASSUME CheckoutInv, NEW t \in Txs, NEW next \in Phases \ {"idle", "done"}, NEW rows,
         UNCHANGED <<orders, call, answer>>,
         pc' = [pc EXCEPT ![t] = next],
         held' = [held EXCEPT ![t] = @ \cup rows],
         \A row \in rows : Unlocked(row),
         orders[t] = NoOrder, call[t] # NoCall,
         next \in Placing =>
            /\ Places(t)
            /\ call[t].kind = "buyer" => BuyerRow(call[t].buyer) \in held[t] \cup rows
            /\ next # "resolved" => CustomerRow(Party(t)) \in held[t] \cup rows,
         next \in {"returning", "swapping"} => call[t].kind = "release",
         next \in {"clear", "priced"} => ~HasOpenOrder(t) /\ Previous(t) = {}
  PROVE  CheckoutInv'
<1>2. Typed'
  BY DEF CheckoutInv, Typed
<1>3. Exclusive'
  BY DEF CheckoutInv, Typed, Exclusive, Unlocked
<1>4. WorksOn'
  BY DEF CheckoutInv, Typed, WorksOn, Placing, Places, Party
<1>5. StillClear'
  BY SameOrders DEF CheckoutInv, Typed, StillClear
<1>6. OneOpenBill' /\ KeyOnce'
  BY SameOrders DEF CheckoutInv
<1>7. AnsweredOwn'
  BY DEF CheckoutInv, Typed, AnsweredOwn, Places, Scope
<1>8. QED
  BY <1>2, <1>3, <1>4, <1>5, <1>6, <1>7 DEF CheckoutInv

\* A request begins: its transaction has placed no order and holds no row.
LEMMA BeginStep ==
  ASSUME CheckoutInv, NEW t \in Txs, NEW c \in Requests, Begin(t, c)
  PROVE  CheckoutInv'
<1>1. c \in Calls /\ c # NoCall
  BY RequestAssumption DEF Calls, ChatbotCalls, BuyerCalls, SellerCalls, Releases, NoCall
<1>2. Typed'
  BY <1>1 DEF Begin, CheckoutInv, Typed, Phases
<1>3. Exclusive' /\ OneOpenBill' /\ KeyOnce'
  BY DEF Begin, CheckoutInv, Exclusive, OneOpenBill, KeyOnce, IsOpen
<1>4. WorksOn'
  BY <1>1 DEF Begin, CheckoutInv, Typed, WorksOn, Placing, Places, Party
<1>5. StillClear'
  BY DEF Begin, CheckoutInv, Typed, StillClear, HasOpenOrder, Previous, Party, Scope, IsOpen
<1>6. AnsweredOwn'
  <2>1. answer[t] \notin Txs
    BY CheckoutAssumption DEF Begin, CheckoutInv, WorksOn
  <2>2. QED
    BY <2>1 DEF Begin, CheckoutInv, Typed, AnsweredOwn, Places, Scope
<1>7. QED
  BY <1>2, <1>3, <1>4, <1>5, <1>6 DEF CheckoutInv

\* The steps of a request that placed nothing yet.
LEMMA RequestStep ==
  ASSUME CheckoutInv, NEW t \in Txs,
         Resolve(t) \/ LockCustomer(t) \/ CheckRequest(t) \/ ReadCatalogue(t) \/ LockStock(t)
  PROVE  CheckoutInv'
<1> USE DEF data
<1>0. /\ pc[t] # "idle" => call[t] # NoCall
      /\ pc[t] # "done" => orders[t] = NoOrder
      /\ call[t] \in Calls \cup {NoCall} /\ pc[t] \in Phases
      /\ pc[t] \in Placing => /\ Places(t)
                              /\ call[t].kind = "buyer" => BuyerRow(call[t].buyer) \in held[t]
      /\ pc[t] \in Placing \ {"resolved"} => CustomerRow(Party(t)) \in held[t]
  BY DEF CheckoutInv, WorksOn, Typed
<1>2. CASE Resolve(t)
  <2>1. Wanted(t) = IF call[t].kind = "buyer" THEN {BuyerRow(call[t].buyer)} ELSE {}
    BY <1>2 DEF Resolve, Wanted, Places
  <2>2. QED
    BY <1>0, <1>2, <2>1, WorkStep DEF Resolve, Placing, Phases
<1>3. CASE LockCustomer(t)
  <2>1. CASE ~saw[t] /\ Party(t) \in known
    BY <1>3, <2>1, RollbackStep, CheckoutAssumption DEF LockCustomer
  <2>2. CASE ~(~saw[t] /\ Party(t) \in known)
    <3> DEFINE rows == {CustomerRow(Party(t))}
    <3>1. /\ UNCHANGED <<orders, call, answer>>
          /\ pc' = [pc EXCEPT ![t] = "locked"] /\ held' = [held EXCEPT ![t] = @ \cup rows]
          /\ \A row \in rows : Unlocked(row)
      BY <1>3, <2>2 DEF LockCustomer
    <3>2. Places(t) /\ CustomerRow(Party(t)) \in held[t] \cup rows
          /\ (call[t].kind = "buyer" => BuyerRow(call[t].buyer) \in held[t])
          /\ orders[t] = NoOrder /\ call[t] # NoCall
      BY <1>0, <1>3 DEF LockCustomer, Placing
    <3> HIDE DEF rows
    <3>3. QED
      BY <3>1, <3>2, WorkStep DEF Placing, Phases
  <2>3. QED
    BY <2>1, <2>2
<1>4. CASE CheckRequest(t)
  <2>1. CASE \E o \in Previous(t) : orders[o].qty # call[t].qty
    BY <1>4, <2>1, RollbackStep, CheckoutAssumption DEF CheckRequest
  <2>2. CASE ~(\E o \in Previous(t) : orders[o].qty # call[t].qty) /\ Previous(t) # {}
    <3>1. PICK o \in Previous(t) : Rollback(t, o)
      BY <1>4, <2>2 DEF CheckRequest
    <3>2. QED
      BY <1>4, <2>2, <3>1, RollbackStep DEF Previous, CheckRequest
  <2>3. CASE Previous(t) = {} /\ HasOpenOrder(t)
    BY <1>4, <2>3, RollbackStep, CheckoutAssumption DEF CheckRequest
  <2>4. CASE Previous(t) = {} /\ ~HasOpenOrder(t)
    <3>1. held' = [held EXCEPT ![t] = @ \cup {}]
      BY <1>4, <2>4 DEF CheckRequest, CheckoutInv, Typed
    <3>2. QED
      BY <1>0, <1>4, <2>4, <3>1, WorkStep DEF CheckRequest, Placing, Phases
  <2>5. QED
    BY <2>1, <2>2, <2>3, <2>4
<1>5. CASE ReadCatalogue(t)
  <2>1. CASE ~onSale
    BY <1>5, <2>1, RollbackStep, CheckoutAssumption DEF ReadCatalogue
  <2>2. CASE onSale
    <3>1. held' = [held EXCEPT ![t] = @ \cup {}]
      BY <1>5, <2>2 DEF ReadCatalogue, CheckoutInv, Typed
    <3>2. ~HasOpenOrder(t) /\ Previous(t) = {}
      BY <1>5 DEF ReadCatalogue, CheckoutInv, StillClear
    <3>3. QED
      BY <1>0, <1>5, <2>2, <3>1, <3>2, WorkStep DEF ReadCatalogue, Placing, Phases
  <2>3. QED
    BY <2>1, <2>2
<1>6. CASE LockStock(t)
  <2>1. pc' = [pc EXCEPT ![t] = "priced"]
    BY <1>6 DEF LockStock, CheckoutInv, Typed
  <2>2. ~HasOpenOrder(t) /\ Previous(t) = {}
    BY <1>6 DEF LockStock, CheckoutInv, StillClear
  <2> DEFINE rows == {StockRow(Smallest(todo[t]))}
  <2>3. /\ UNCHANGED <<orders, call, answer>> /\ held' = [held EXCEPT ![t] = @ \cup rows]
        /\ \A row \in rows : Unlocked(row)
    BY <1>6 DEF LockStock
  <2>4. /\ Places(t) /\ CustomerRow(Party(t)) \in held[t]
        /\ call[t].kind = "buyer" => BuyerRow(call[t].buyer) \in held[t]
        /\ orders[t] = NoOrder /\ call[t] # NoCall
    BY <1>0, <1>6 DEF LockStock, Placing
  <2> HIDE DEF rows
  <2>5. QED
    BY <2>1, <2>2, <2>3, <2>4, WorkStep DEF Placing, Phases
<1>7. QED
  BY <1>2, <1>3, <1>4, <1>5, <1>6

\* Placing the order: by the customer's lock nobody else is about to, for this
\* customer, and by the lock of the key's scope nobody else with this key.
LEMMA PlaceStep ==
  ASSUME CheckoutInv, NEW t \in Txs, PlaceOrder(t)
  PROVE  CheckoutInv'
<1>0. /\ pc[t] = "priced" /\ Places(t) /\ orders[t] = NoOrder /\ call[t] # NoCall
      /\ ~HasOpenOrder(t) /\ Previous(t) = {}
      /\ CustomerRow(Party(t)) \in held[t]
      /\ call[t].kind = "buyer" => BuyerRow(call[t].buyer) \in held[t]
      /\ call[t] \in Calls
  BY DEF PlaceOrder, CheckoutInv, WorksOn, Typed, StillClear, Placing
<1>1. CASE ~Sufficient(t)
  BY <1>0, <1>1, RollbackStep, CheckoutAssumption DEF PlaceOrder
<1>2. CASE Sufficient(t)
  <2> DEFINE new == [status |-> "pending", paid |-> FALSE, customer |-> Party(t),
                     scope |-> Scope(t), key |-> call[t].key, qty |-> call[t].qty]
  <2>1. /\ orders' = [orders EXCEPT ![t] = new]
        /\ pc' = [pc EXCEPT ![t] = "done"] /\ held' = [held EXCEPT ![t] = {}]
        /\ answer' = [answer EXCEPT ![t] = t] /\ UNCHANGED call
    BY <1>2 DEF PlaceOrder, Ends
  <2>2. new \in Orders /\ new # NoOrder
    BY <1>0, CheckoutAssumption
       DEF Orders, NoOrder, Places, Party, Scope, Calls, ChatbotCalls, BuyerCalls, SellerCalls, Releases
  <2>3. /\ new.status = "pending" /\ new.customer = Party(t) /\ new.scope = Scope(t)
        /\ new.key = call[t].key /\ new.qty = call[t].qty
    OBVIOUS
  <2> HIDE DEF new
  <2>4. Typed'
    <3>1. orders' \in [Txs -> Orders \cup {NoOrder}]
      BY <2>1, <2>2 DEF CheckoutInv, Typed
    <3>2. QED
      BY <2>1, <3>1 DEF CheckoutInv, Typed, Phases
  <2>5. orders'[t] = new /\ \A o \in Txs : o # t => orders'[o] = orders[o]
    BY <2>1 DEF CheckoutInv, Typed
  <2>6. Exclusive'
    BY <2>1 DEF CheckoutInv, Typed, Exclusive
  <2>7. WorksOn'
    <3>1. \A u \in Txs : orders[u] # NoOrder => orders'[u] # NoOrder
      BY <2>2, <2>5
    <3>2. QED
      BY <1>0, <2>1, <2>5, <3>1 DEF CheckoutInv, Typed, WorksOn, Placing, Places, Party, Calls,
         ChatbotCalls, BuyerCalls, SellerCalls, Releases
  <2>8. OneOpenBill'
    <3>1. \A o \in Txs : orders[o] # NoOrder /\ orders[o].customer = new.customer => ~IsOpen(o)
      BY <1>0, <2>3 DEF HasOpenOrder
    <3>2. QED
      BY <2>5, <3>1 DEF CheckoutInv, OneOpenBill, IsOpen
  <2>9. KeyOnce'
    <3>1. \A o \in Txs : orders[o] # NoOrder /\ orders[o].scope = new.scope /\ new.key # NoKey
             => orders[o].key # new.key
      BY <1>0, <2>3 DEF Previous
    <3>2. QED
      BY <2>5, <3>1 DEF CheckoutInv, KeyOnce
  <2>10. StillClear'
    <3> SUFFICES ASSUME NEW u \in Txs, pc'[u] \in {"clear", "priced"}
                 PROVE  ~HasOpenOrder(u)' /\ Previous(u)' = {}
      BY DEF StillClear
    <3>1. u # t /\ pc[u] \in {"clear", "priced"}
      BY <2>1 DEF CheckoutInv, Typed
    <3>2. /\ ~HasOpenOrder(u) /\ Previous(u) = {} /\ Places(u)
          /\ CustomerRow(Party(u)) \in held[u]
          /\ call[u].kind = "buyer" => BuyerRow(call[u].buyer) \in held[u]
      BY <3>1 DEF CheckoutInv, StillClear, WorksOn, Placing
    <3>3. held[u] \cap held[t] = {}
      BY <3>1 DEF CheckoutInv, Exclusive
    <3>4. Party(u) # Party(t)
      BY <1>0, <3>2, <3>3
    <3>5. Scope(u) # Scope(t)
      BY <1>0, <3>2, <3>3, <3>4 DEF Scope, Party
    <3>6. ~HasOpenOrder(u)'
      BY <2>1, <2>3, <2>5, <3>2, <3>4 DEF HasOpenOrder, IsOpen, Party
    <3>7. Previous(u)' = {}
      BY <2>1, <2>3, <2>5, <3>2, <3>5 DEF Previous, Scope
    <3>8. QED
      BY <3>6, <3>7
  <2>11. AnsweredOwn'
    BY <1>0, <2>1, <2>2, <2>3, <2>5 DEF CheckoutInv, Typed, AnsweredOwn, Places, Scope
  <2>12. QED
    BY <2>4, <2>6, <2>7, <2>8, <2>9, <2>10, <2>11 DEF CheckoutInv
<1>3. QED
  BY <1>1, <1>2

\* The steps of a cancellation or a refund before it writes.
LEMMA ReleaseStep ==
  ASSUME CheckoutInv, NEW t \in Txs,
         StartReversal(t) \/ (\E i \in Ingredients : ReadVersion(t, i)) \/ CompareAndSwap(t)
  PROVE  CheckoutInv'
<1> USE DEF data
<1>0. /\ pc[t] # "idle" => call[t] # NoCall
      /\ pc[t] # "done" => orders[t] = NoOrder
      /\ pc[t] \in {"returning", "swapping"} => call[t].kind = "release"
      /\ call[t].kind = "release" => ~Places(t)
      /\ call[t] \in Calls \cup {NoCall}
  BY DEF CheckoutInv, WorksOn, Places, Typed
<1>1. CASE StartReversal(t)
  <2> DEFINE o == call[t].order
  <2>1. CASE orders[o].status = "cancelled" /\ ~orders[o].paid
    <3>1. o \in Txs
      BY <1>0, <1>1 DEF StartReversal, Calls, ChatbotCalls, BuyerCalls, SellerCalls, Releases, NoCall
    <3>2. Rollback(t, o) /\ pc[t] # "idle" /\ ~Places(t)
      BY <1>0, <1>1, <2>1 DEF StartReversal
    <3> HIDE DEF o
    <3>3. QED
      BY <3>1, <3>2, RollbackStep
  <2>2. CASE ~(orders[o].status = "cancelled" /\ ~orders[o].paid)
    <3> DEFINE rows == {OrderRow(o)}
    <3>1. /\ UNCHANGED <<orders, call, answer>>
          /\ pc' = [pc EXCEPT ![t] = "returning"] /\ held' = [held EXCEPT ![t] = @ \cup rows]
          /\ \A row \in rows : Unlocked(row)
      BY <1>1, <2>2 DEF StartReversal
    <3>2. call[t].kind = "release" /\ orders[t] = NoOrder /\ call[t] # NoCall
      BY <1>0, <1>1 DEF StartReversal
    <3> HIDE DEF rows, o
    <3>3. QED
      BY <3>1, <3>2, WorkStep DEF Placing, Phases
  <2>3. QED
    BY <2>1, <2>2
<1>2. ASSUME NEW i \in Ingredients, ReadVersion(t, i) PROVE CheckoutInv'
  <2> DEFINE rows == {}
  <2>1. held' = [held EXCEPT ![t] = @ \cup rows] /\ \A row \in rows : Unlocked(row)
    BY <1>2 DEF ReadVersion, CheckoutInv, Typed
  <2>2. UNCHANGED <<orders, call, answer>> /\ pc' = [pc EXCEPT ![t] = "swapping"]
    BY <1>2 DEF ReadVersion
  <2>3. call[t].kind = "release" /\ orders[t] = NoOrder /\ call[t] # NoCall
    BY <1>0, <1>2 DEF ReadVersion
  <2> HIDE DEF rows
  <2>4. QED
    BY <2>1, <2>2, <2>3, WorkStep DEF Placing, Phases
<1>3. CASE CompareAndSwap(t)
  <2> DEFINE c == cas[t]
  <2>0. call[t].kind = "release" /\ orders[t] = NoOrder /\ call[t] # NoCall /\ ~Places(t)
    BY <1>0, <1>3 DEF CompareAndSwap
  <2>1. CASE stock[c.row].version = c.version
    <3> DEFINE rows == {StockRow(c.row)}
    <3>1. /\ UNCHANGED <<orders, call, answer>>
          /\ pc' = [pc EXCEPT ![t] = "returning"] /\ held' = [held EXCEPT ![t] = @ \cup rows]
          /\ \A row \in rows : Unlocked(row)
      BY <1>3, <2>1 DEF CompareAndSwap
    <3> HIDE DEF rows, c
    <3>2. QED
      BY <2>0, <3>1, WorkStep DEF Placing, Phases
  <2>2. CASE stock[c.row].version # c.version /\ c.attempt < 3
    <3> DEFINE rows == {}
    <3>1. /\ UNCHANGED <<orders, call, answer>>
          /\ pc' = [pc EXCEPT ![t] = "swapping"] /\ held' = [held EXCEPT ![t] = @ \cup rows]
          /\ \A row \in rows : Unlocked(row)
      BY <1>3, <2>2 DEF CompareAndSwap, CheckoutInv, Typed
    <3> HIDE DEF c, rows
    <3>2. QED
      BY <2>0, <3>1, WorkStep DEF Placing, Phases
  <2>3. CASE stock[c.row].version # c.version /\ ~(c.attempt < 3)
    BY <1>3, <2>0, <2>3, RollbackStep, CheckoutAssumption DEF CompareAndSwap
  <2>4. QED
    BY <2>1, <2>2, <2>3
<1>4. QED
  BY <1>1, <1>2, <1>3

\* No order comes or goes, none is reopened, and what tells orders apart stays.
KeptOrders ==
    \A p \in Txs :
        /\ (orders'[p] = NoOrder) = (orders[p] = NoOrder)
        /\ orders[p] # NoOrder =>
             /\ orders'[p].customer = orders[p].customer
             /\ orders'[p].scope = orders[p].scope
             /\ orders'[p].key = orders[p].key
             /\ orders'[p].qty = orders[p].qty
             /\ orders'[p].status = "pending" /\ ~orders'[p].paid
                   => orders[p].status = "pending" /\ ~orders[p].paid

\* An order is paid or cancelled: nothing else of any order changes.
LEMMA ClosingOrder ==
  ASSUME NEW o \in Txs, orders \in [Txs -> Orders \cup {NoOrder}], orders[o] # NoOrder,
         \/ orders' = [orders EXCEPT ![o].paid = TRUE]
         \/ orders' = [orders EXCEPT ![o].status = "cancelled"]
  PROVE  orders' \in [Txs -> Orders \cup {NoOrder}] /\ KeptOrders
<1>1. orders[o] \in Orders
  OBVIOUS
<1>2. /\ orders'[o] \in Orders
      /\ orders'[o].customer = orders[o].customer /\ orders'[o].scope = orders[o].scope
      /\ orders'[o].key = orders[o].key /\ orders'[o].qty = orders[o].qty
      /\ ~(orders'[o].status = "pending" /\ ~orders'[o].paid)
  <2>1. CASE orders' = [orders EXCEPT ![o].paid = TRUE]
    <3>1. orders'[o] = [orders[o] EXCEPT !.paid = TRUE]
      BY <1>1, <2>1
    <3>2. QED
      BY <1>1, <3>1 DEF Orders
  <2>2. CASE orders' = [orders EXCEPT ![o].status = "cancelled"]
    <3>1. orders'[o] = [orders[o] EXCEPT !.status = "cancelled"]
      BY <1>1, <2>2
    <3>2. QED
      BY <1>1, <3>1 DEF Orders
  <2>3. QED
    BY <2>1, <2>2
<1>3. \A p \in Txs : p # o => orders'[p] = orders[p]
  OBVIOUS
<1>4. \A r \in Orders : r # NoOrder
  BY DEF Orders, NoOrder
<1>5. orders' \in [Txs -> Orders \cup {NoOrder}]
  <2>1. orders' = [p \in Txs |-> orders'[p]]
    OBVIOUS
  <2>2. QED
    BY <1>2, <1>3, <2>1
<1>6. KeptOrders
  <2> SUFFICES ASSUME NEW p \in Txs
               PROVE  /\ (orders'[p] = NoOrder) = (orders[p] = NoOrder)
                      /\ orders[p] # NoOrder =>
                           /\ orders'[p].customer = orders[p].customer
                           /\ orders'[p].scope = orders[p].scope
                           /\ orders'[p].key = orders[p].key
                           /\ orders'[p].qty = orders[p].qty
                           /\ orders'[p].status = "pending" /\ ~orders'[p].paid
                                 => orders[p].status = "pending" /\ ~orders[p].paid
    BY DEF KeptOrders
  <2>1. CASE p = o
    BY <1>1, <1>2, <1>4, <2>1
  <2>2. CASE p # o
    BY <1>3, <2>2
  <2>3. QED
    BY <2>1, <2>2
<1>7. QED
  BY <1>5, <1>6

\* Then no bill is opened, no key gets a second order, and what a request found
\* clear is clear.
LEMMA KeptClear ==
  ASSUME KeptOrders, OneOpenBill, KeyOnce, UNCHANGED call
  PROVE  /\ OneOpenBill' /\ KeyOnce'
         /\ \A u \in Txs : (HasOpenOrder(u)' => HasOpenOrder(u)) /\ Previous(u)' = Previous(u)
<1>1. OneOpenBill'
  BY DEF KeptOrders, OneOpenBill, IsOpen
<1>2. KeyOnce'
  BY DEF KeptOrders, KeyOnce
<1>3. ASSUME NEW u \in Txs PROVE HasOpenOrder(u)' => HasOpenOrder(u)
  <2>1. Party(u)' = Party(u)
    BY SameCall
  <2>2. QED
    BY <2>1 DEF KeptOrders, HasOpenOrder, IsOpen
<1>4. ASSUME NEW u \in Txs PROVE Previous(u)' = Previous(u)
  <2>1. Scope(u)' = Scope(u)
    BY SameCall
  <2>2. QED
    BY <2>1 DEF KeptOrders, Previous
<1>5. QED
  BY <1>1, <1>2, <1>3, <1>4

LEMMA ReverseStep ==
  ASSUME CheckoutInv, NEW t \in Txs, Reverse(t)
  PROVE  CheckoutInv'
<1> DEFINE o == call[t].order
<1>1. /\ call[t].kind = "release" /\ pc[t] = "returning" /\ call[t] \in Calls
      /\ orders[o] # NoOrder
  BY DEF Reverse, CheckoutInv, WorksOn, Typed, NoCall
<1>2. o \in Txs
  BY <1>1 DEF Calls, ChatbotCalls, BuyerCalls, SellerCalls, Releases
<1>3. /\ orders' = [orders EXCEPT ![o].status = "cancelled"] /\ UNCHANGED call
      /\ pc' = [pc EXCEPT ![t] = "done"] /\ held' = [held EXCEPT ![t] = {}]
      /\ answer' = [answer EXCEPT ![t] = o]
  BY DEF Reverse, Ends
<1> HIDE DEF o
<1>4. /\ orders' \in [Txs -> Orders \cup {NoOrder}] /\ OneOpenBill' /\ KeyOnce'
      /\ KeptOrders
      /\ \A u \in Txs : (HasOpenOrder(u)' => HasOpenOrder(u)) /\ Previous(u)' = Previous(u)
  BY <1>1, <1>2, <1>3, ClosingOrder, KeptClear DEF CheckoutInv, Typed
<1>5. Typed'
  BY <1>2, <1>3, <1>4 DEF CheckoutInv, Typed, Phases
<1>6. Exclusive'
  BY <1>3 DEF CheckoutInv, Typed, Exclusive
<1>7. WorksOn'
  <2>1. \A u \in Txs : call[u].kind = "release" => orders'[call[u].order] # NoOrder
    <3>1. \A u \in Txs : call[u].kind = "release" => call[u].order \in Txs
      BY DEF CheckoutInv, Typed, Calls, ChatbotCalls, BuyerCalls, SellerCalls, Releases, NoCall
    <3>2. QED
      BY <1>4, <3>1 DEF CheckoutInv, WorksOn, KeptOrders
  <2>2. QED
    BY <1>1, <1>3, <1>4, <2>1 DEF CheckoutInv, Typed, KeptOrders, WorksOn, Placing, Places, Party
<1>8. StillClear'
  BY <1>3, <1>4 DEF CheckoutInv, Typed, StillClear
<1>9. AnsweredOwn'
  BY <1>1, <1>3, <1>4 DEF CheckoutInv, Typed, KeptOrders, AnsweredOwn, Places, Scope
<1>10. QED
  BY <1>4, <1>5, <1>6, <1>7, <1>8, <1>9 DEF CheckoutInv

LEMMA PayStep ==
  ASSUME CheckoutInv, NEW o \in Txs, Pay(o)
  PROVE  CheckoutInv'
<1>1. /\ orders' = [orders EXCEPT ![o].paid = TRUE] /\ orders[o] # NoOrder
      /\ UNCHANGED <<call, pc, held, answer>>
  BY DEF Pay, work
<1>2. /\ orders' \in [Txs -> Orders \cup {NoOrder}] /\ OneOpenBill' /\ KeyOnce'
      /\ KeptOrders
      /\ \A u \in Txs : (HasOpenOrder(u)' => HasOpenOrder(u)) /\ Previous(u)' = Previous(u)
  BY <1>1, ClosingOrder, KeptClear DEF CheckoutInv, Typed
<1>3. Typed' /\ Exclusive'
  BY <1>1, <1>2 DEF CheckoutInv, Typed, Exclusive
<1>4. WorksOn'
  <2>1. \A u \in Txs : call[u].kind = "release" => call[u].order \in Txs
    BY DEF CheckoutInv, Typed, Calls, ChatbotCalls, BuyerCalls, SellerCalls, Releases, NoCall
  <2>2. QED
    BY <1>1, <1>2, <2>1 DEF CheckoutInv, KeptOrders, WorksOn, Placing, Places, Party
<1>5. StillClear' /\ AnsweredOwn'
  BY <1>1, <1>2 DEF CheckoutInv, Typed, KeptOrders, StillClear, AnsweredOwn, Places, Scope
<1>6. QED
  BY <1>2, <1>3, <1>4, <1>5 DEF CheckoutInv

\* Steps that touch no order and no transaction's place in its work.
LEMMA OtherStep ==
  ASSUME CheckoutInv, UNCHANGED <<orders, call, pc, held, answer>>
  PROVE  CheckoutInv'
<1>1. Typed' /\ Exclusive'
  BY DEF CheckoutInv, Typed, Exclusive
<1>2. WorksOn'
  BY DEF CheckoutInv, WorksOn, Placing, Places, Party
<1>3. StillClear' /\ OneOpenBill' /\ KeyOnce'
  BY SameOrders DEF CheckoutInv, StillClear
<1>4. AnsweredOwn'
  BY DEF CheckoutInv, AnsweredOwn, Places, Scope
<1>5. QED
  BY <1>1, <1>2, <1>3, <1>4 DEF CheckoutInv

LEMMA CheckoutStep == CheckoutInv /\ [Next]_vars => CheckoutInv'
<1> SUFFICES ASSUME CheckoutInv, [Next]_vars PROVE CheckoutInv'
  OBVIOUS
<1>1. ASSUME NEW t \in Txs, NEW c \in Requests, Begin(t, c) PROVE CheckoutInv'
  BY <1>1, BeginStep
<1>2. ASSUME NEW t \in Txs,
             Resolve(t) \/ LockCustomer(t) \/ CheckRequest(t) \/ ReadCatalogue(t) \/ LockStock(t)
      PROVE  CheckoutInv'
  BY <1>2, RequestStep
<1>3. ASSUME NEW t \in Txs, PlaceOrder(t) PROVE CheckoutInv'
  BY <1>3, PlaceStep
<1>4. ASSUME NEW t \in Txs,
             StartReversal(t) \/ (\E i \in Ingredients : ReadVersion(t, i)) \/ CompareAndSwap(t)
      PROVE  CheckoutInv'
  BY <1>4, ReleaseStep
<1>5. ASSUME NEW t \in Txs, Reverse(t) PROVE CheckoutInv'
  BY <1>5, ReverseStep
<1>6. ASSUME NEW t \in Txs, DeadlockVictim(t) \/ Crash(t) PROVE CheckoutInv'
  <2>1. Rollback(t, "failed") /\ pc[t] # "idle"
    <3>1. CASE Crash(t)
      BY <3>1 DEF Crash
    <3>2. CASE DeadlockVictim(t)
      <4>1. Wanted(t) # {}
        BY <3>2 DEF DeadlockVictim, Deadlocked, WaitsFor
      <4>2. QED
        BY <3>2, <4>1 DEF DeadlockVictim, Wanted
    <3>3. QED
      BY <1>6, <3>1, <3>2
  <2>2. QED
    BY <2>1, RollbackStep, CheckoutAssumption
<1>7. ASSUME NEW o \in Txs, Pay(o) PROVE CheckoutInv'
  BY <1>7, PayStep
<1>8. CASE EditCatalogue \/ (\E i \in Ingredients, d \in Adjustments : AdjustStock(i, d))
  BY <1>8, OtherStep DEF EditCatalogue, AdjustStock, work
<1>9. CASE UNCHANGED vars
  BY <1>9, OtherStep DEF vars
<1>10. QED
  BY <1>1, <1>2, <1>3, <1>4, <1>5, <1>6, <1>7, <1>8, <1>9 DEF Next, Advance

\* The invariant the three theorems below rest on.
THEOREM CheckoutInvariant == Spec => []CheckoutInv
<1>1. Init => CheckoutInv
  BY CheckoutInit
<1>2. CheckoutInv /\ [Next]_vars => CheckoutInv'
  BY CheckoutStep
<1>3. QED
  BY <1>1, <1>2, PTL DEF Spec

\* However many checkouts race for a customer, on any channel, at most one bill
\* of that customer is open (check_active_unpaid_order under the customer's lock).
THEOREM OneBill == Spec => []OneOpenBill
<1>1. CheckoutInv => OneOpenBill
  BY DEF CheckoutInv
<1>2. QED
  BY <1>1, CheckoutInvariant, PTL

\* An Idempotency-Key places at most one order in its scope (_existing_idempotent_order
\* under the customer's, or the buyer's, lock).
THEOREM OneOrderPerKey == Spec => []KeyOnce
<1>1. CheckoutInv => KeyOnce
  BY DEF CheckoutInv
<1>2. QED
  BY <1>1, CheckoutInvariant, PTL

\* Repeating a request with its key is answered with the order it placed, and
\* only if it asks for the same.
THEOREM RepeatsAgree == Spec => []AnswersAgree
<1>1. CheckoutInv => AnswersAgree
  <2> SUFFICES ASSUME CheckoutInv, NEW t \in Txs, NEW u \in Txs,
                      Places(t), Places(u), answer[t] \in Txs, answer[u] \in Txs,
                      call[t].key # NoKey, call[t].key = call[u].key, Scope(t) = Scope(u)
               PROVE  /\ answer[t] = answer[u]
                      /\ orders[answer[t]].qty = call[t].qty
                      /\ orders[answer[u]].qty = call[u].qty
    BY DEF AnswersAgree
  <2>1. /\ orders[answer[t]] # NoOrder /\ orders[answer[t]].key = call[t].key
        /\ orders[answer[t]].scope = Scope(t) /\ orders[answer[t]].qty = call[t].qty
    BY DEF CheckoutInv, AnsweredOwn
  <2>2. /\ orders[answer[u]] # NoOrder /\ orders[answer[u]].key = call[u].key
        /\ orders[answer[u]].scope = Scope(u) /\ orders[answer[u]].qty = call[u].qty
    BY DEF CheckoutInv, AnsweredOwn
  <2>3. QED
    BY <2>1, <2>2 DEF CheckoutInv, KeyOnce
<1>2. QED
  BY <1>1, CheckoutInvariant, PTL

-------------------------------------------------------------------------------
(* Balances.                                                                *)

Movements == [kind : {"OPENING_BALANCE", "ORDER", "REVERSAL", "ADJUSTMENT"},
              order : Txs \cup {"none"}, qty : Int, at : Nat]

\* The balance after each movement.
BalanceAfter(moves, f, n) == IF n = 0 THEN 0 ELSE Stored(f[n - 1] + moves[n].qty)
Balances(moves) == CHOOSE f : f = [n \in 0..Len(moves) |-> BalanceAfter(moves, f, n)]

\* Balance is the last value of that function.
LEMMA BalanceByRecursion == ASSUME NEW s PROVE Balance(s) = Balances(s)[Len(s)]
BY DEF Balance, Balances, BalanceAfter

\* Rounding gives whole units.
LEMMA StoredInt == ASSUME NEW q \in Int PROVE Stored(q) \in Int
BY DEF Stored

\* The recursive definition has a solution, of numbers.
LEMMA BalancesSolve ==
    ASSUME NEW s \in Seq(Movements)
    PROVE  /\ Balances(s) \in [0..Len(s) -> Int]
           /\ Balances(s)[0] = 0
           /\ \A n \in 1..Len(s) : Balances(s)[n] = Stored(Balances(s)[n - 1] + s[n].qty)
<1> DEFINE N == Len(s)
           step == [n \in 1..N |-> [b \in Int |-> Stored(b + s[n].qty)]]
<1>1. \A n \in 1..N : s[n].qty \in Int
  <2>1. \A n \in 1..N : s[n] \in Movements
    OBVIOUS
  <2>2. QED
    BY <2>1 DEF Movements
<1>2. step \in [1..N -> [Int -> Int]]
  BY <1>1, StoredInt
<1>3. \A n \in 1..N, b \in Int : step[n][b] = Stored(b + s[n].qty)
  OBVIOUS
<1>4. N \in Nat
  OBVIOUS
<1> HIDE DEF step
<1>5. PICK f \in [0..N -> Int] : f[0] = 0 /\ \A n \in 1..N : f[n] = step[n][f[n - 1]]
  <2>1. step \in StepsIn(N, Int) /\ 0 \in Int
    BY <1>2 DEF StepsIn
  <2>2. RunsOf(N, Int, 0, step) # {}
    <3> HIDE DEF N
    <3>1. QED
      BY <1>4, <2>1, RecursionSolvable
  <2>3. QED
    BY <2>2 DEF RunsOf
<1>6. f = [n \in 0..N |-> BalanceAfter(s, f, n)]
  <2>1. ASSUME NEW n \in 0..N PROVE f[n] = BalanceAfter(s, f, n)
    <3>1. CASE n = 0
      BY <1>5, <3>1 DEF BalanceAfter
    <3>2. CASE n # 0
      <4>1. n \in 1..N /\ f[n - 1] \in Int
        BY <1>4, <3>2
      <4>2. QED
        BY <1>3, <1>5, <3>2, <4>1 DEF BalanceAfter
    <3>3. QED
      BY <3>1, <3>2
  <2>2. QED
    BY <1>5, <2>1
<1>7. Balances(s) = [n \in 0..N |-> BalanceAfter(s, Balances(s), n)]
  BY <1>6 DEF Balances
<1> DEFINE b == Balances(s)
<1>8. b[0] = 0 /\ \A n \in 1..N : b[n] = Stored(b[n - 1] + s[n].qty)
  BY <1>7 DEF BalanceAfter
<1>9. b \in [0..N -> Int]
  <2> DEFINE T == {n \in 0..N : b[n] \in Int}
  <2>1. 0 \in T
    BY <1>8
  <2>2. ASSUME NEW n \in 1..N, n - 1 \in T PROVE n \in T
    <3>1. b[n - 1] + s[n].qty \in Int
      BY <1>1, <2>2
    <3>2. b[n] \in Int
      BY <1>8, <3>1, StoredInt
    <3>3. QED
      BY <1>4, <3>2
  <2>3. 0..N \subseteq T
    <3> HIDE DEF T
    <3>1. QED
      BY <1>4, <2>1, <2>2, BoundedInduction
  <2>4. QED
    BY <1>7, <2>3
<1>10. QED
  BY <1>8, <1>9

\* A list of movements that starts with another comes to the same until there.
LEMMA SamePrefix ==
    ASSUME NEW s \in Seq(Movements), NEW r \in Seq(Movements), NEW k \in 0..Len(s),
           k <= Len(r), \A n \in 1..k : s[n] = r[n]
    PROVE  Balances(s)[k] = Balances(r)[k]
<1> DEFINE T == {n \in 0..k : Balances(s)[n] = Balances(r)[n]}
<1>1. 0 \in T
  BY BalancesSolve
<1>2. ASSUME NEW n \in 1..k, n - 1 \in T PROVE n \in T
  <2>1. n \in 1..Len(s) /\ n \in 1..Len(r)
    OBVIOUS
  <2>2. QED
    BY <1>2, <2>1, BalancesSolve
<1>3. 0..k \subseteq T
  <2> HIDE DEF T
  <2>1. k \in Nat
    OBVIOUS
  <2>2. QED
    BY <1>1, <1>2, <2>1, BoundedInduction
<1>4. QED
  BY <1>3

\* Without movements there is nothing.
LEMMA BalanceNone == Balance(<<>>) = 0 /\ ~Overdrawn(<<>>)
<1>1. <<>> \in Seq(Movements) /\ Len(<<>>) = 0 /\ DOMAIN <<>> = {}
  OBVIOUS
<1>2. Balance(<<>>) = 0
  BY <1>1, BalanceByRecursion, BalancesSolve
<1>3. QED
  BY <1>1, <1>2 DEF Overdrawn

\* What one more movement does.
LEMMA BalanceAppend ==
    ASSUME NEW s \in Seq(Movements), NEW m \in Movements
    PROVE  /\ Balance(Append(s, m)) = Stored(Balance(s) + m.qty)
           /\ Overdrawn(Append(s, m)) <=> Overdrawn(s) \/ Balance(s) + m.qty < 0
<1> DEFINE r == Append(s, m)
           k == Len(s)
<1>1. r \in Seq(Movements) /\ Len(r) = k + 1 /\ r[k + 1] = m /\ \A n \in 1..k : r[n] = s[n]
  OBVIOUS
<1>2. k \in Nat /\ DOMAIN r = 1..(k + 1) /\ DOMAIN s = 1..k
  OBVIOUS
<1>3. SubSeq(r, 1, k) = s /\ \A n \in 1..k : SubSeq(r, 1, n - 1) = SubSeq(s, 1, n - 1)
  <2>1. SubSeq(r, 1, k) = s
    OBVIOUS
  <2>2. ASSUME NEW n \in 1..k PROVE SubSeq(r, 1, n - 1) = SubSeq(s, 1, n - 1)
    OBVIOUS
  <2>3. QED
    BY <2>1, <2>2
<1> HIDE DEF r
<1>4. Balance(r) = Stored(Balance(s) + m.qty)
  <2>1. Balance(r) = Balances(r)[k + 1]
    BY <1>1, BalanceByRecursion
  <2>2. Balances(r)[k + 1] = Stored(Balances(r)[k] + m.qty)
    <3>1. k + 1 \in 1..Len(r) /\ (k + 1) - 1 = k
      BY <1>1, <1>2
    <3>2. QED
      BY <1>1, <3>1, BalancesSolve
  <2>3. Balances(r)[k] = Balances(s)[k]
    <3>1. k \in 0..Len(r) /\ k <= Len(s)
      BY <1>1, <1>2
    <3>2. QED
      BY <1>1, <3>1, SamePrefix
  <2>4. Balance(s) = Balances(s)[k]
    BY BalanceByRecursion
  <2>5. QED
    BY <2>1, <2>2, <2>3, <2>4
<1>5. Overdrawn(r) <=> Overdrawn(s) \/ Balance(s) + m.qty < 0
  <2>1. Overdrawn(r) <=> \E n \in 1..(k + 1) : Balance(SubSeq(r, 1, n - 1)) + r[n].qty < 0
    BY <1>2 DEF Overdrawn
  <2>2. Overdrawn(s) <=> \E n \in 1..k : Balance(SubSeq(s, 1, n - 1)) + s[n].qty < 0
    BY <1>2 DEF Overdrawn
  <2>3. \A n \in 1..k : Balance(SubSeq(r, 1, n - 1)) + r[n].qty = Balance(SubSeq(s, 1, n - 1)) + s[n].qty
    BY <1>1, <1>3
  <2>4. Balance(SubSeq(r, 1, (k + 1) - 1)) + r[k + 1].qty = Balance(s) + m.qty
    <3>1. (k + 1) - 1 = k
      BY <1>2
    <3>2. QED
      BY <1>1, <1>3, <3>1
  <2>5. \A n \in 1..(k + 1) : n \in 1..k \/ n = k + 1
    BY <1>2
  <2>6. 1..k \subseteq 1..(k + 1) /\ k + 1 \in 1..(k + 1)
    BY <1>2
  <2>7. QED
    BY <2>1, <2>2, <2>3, <2>4, <2>5, <2>6
<1>6. QED
  BY <1>4, <1>5 DEF r

StockTypes ==
    /\ known \subseteq Customers /\ onSale \in BOOLEAN /\ recipe \in Recipes
    /\ stock \in [Ingredients -> [qty : Nat, version : Nat]]
    /\ ledger \in [Ingredients -> Seq(Movements)]
    /\ clock \in Nat /\ began \in [Txs -> Nat]
    /\ held \in [Txs -> SUBSET Rows]
    /\ saw \in [Txs -> BOOLEAN]
    /\ need \in [Txs -> [Ingredients -> Nat]]
    /\ todo \in [Txs -> SUBSET Ingredients]
    /\ cas \in [Txs -> [row : Ingredients \cup {-1}, version : Nat, attempt : 0..3]]

\* The ledger about an order: taken once, and given back once if it is cancelled.
Books(o, i) ==
    LET taken == MovedFor(o, "ORDER", i)
        back == MovedFor(o, "REVERSAL", i)
    IN /\ \A m, n \in taken : m = n
       /\ \A m, n \in back : m = n
       /\ taken # {} => orders[o] # NoOrder
       /\ \A n \in taken : ledger[i][n].qty < 0
       /\ IF orders[o] # NoOrder /\ orders[o].status = "cancelled"
          THEN /\ taken = {} <=> back = {}
               /\ \A m \in taken, n \in back : ledger[i][n].qty = -ledger[i][m].qty
          ELSE back = {}
BooksAgree == \A o \in Txs, i \in Ingredients : Books(o, i)

\* What a reversal read under the order's lock is still to be returned.
ToReturn(o) == IF AlreadyReversed(o) THEN Nothing ELSE [i \in Ingredients |-> Consumed(o, i)]
Returning ==
    \A t \in Txs, o \in Txs : pc[t] \in {"returning", "swapping"} /\ call[t].order = o =>
        OrderRow(o) \in held[t] /\ need[t] = ToReturn(o)

\* A version is compared with that of a row.
Swapping == \A t \in Txs : pc[t] = "swapping" => cas[t].row \in Ingredients

StockInv == StockTypes /\ StockIsLedger /\ BooksAgree /\ Returning /\ Swapping

-------------------------------------------------------------------------------
\* A movement more in an ingredient's list.
LEMMA MovedAppend ==
  ASSUME NEW i \in Ingredients, NEW m \in Movements, ledger[i] \in Seq(Movements),
         ledger'[i] = Append(ledger[i], m), NEW o, NEW kind
  PROVE  /\ m.kind = kind /\ m.order = o
               => MovedFor(o, kind, i)' = MovedFor(o, kind, i) \cup {Len(ledger[i]) + 1}
         /\ ~(m.kind = kind /\ m.order = o) => MovedFor(o, kind, i)' = MovedFor(o, kind, i)
         /\ \A n \in DOMAIN ledger[i] : ledger'[i][n] = ledger[i][n]
         /\ ledger'[i][Len(ledger[i]) + 1] = m
<1> DEFINE s == ledger[i]
           k == Len(s)
           r == ledger'[i]
<1>1. /\ k \in Nat /\ DOMAIN s = 1..k /\ DOMAIN r = 1..(k + 1)
      /\ \A n \in 1..k : r[n] = s[n]
      /\ r[k + 1] = m
  OBVIOUS
<1>2. MovedFor(o, kind, i)' = {n \in DOMAIN r : r[n].kind = kind /\ r[n].order = o}
  BY DEF MovedFor
<1>3. MovedFor(o, kind, i) = {n \in DOMAIN s : s[n].kind = kind /\ s[n].order = o}
  BY DEF MovedFor
<1> HIDE DEF s, k, r
<1>4. 1..(k + 1) = 1..k \cup {k + 1}
  BY <1>1
<1>5. /\ m.kind = kind /\ m.order = o
               => MovedFor(o, kind, i)' = MovedFor(o, kind, i) \cup {k + 1}
      /\ ~(m.kind = kind /\ m.order = o) => MovedFor(o, kind, i)' = MovedFor(o, kind, i)
  BY <1>1, <1>2, <1>3, <1>4
<1>6. QED
  BY <1>1, <1>5 DEF s, k, r

\* No movement of the order, or for it, is added.
Untouched(o) ==
    \A i \in Ingredients :
        \/ ledger'[i] = ledger[i]
        \/ \E m \in Movements : /\ ledger'[i] = Append(ledger[i], m)
                                /\ m.order # o \/ m.kind \notin {"ORDER", "REVERSAL"}

LEMMA UntouchedKept ==
  ASSUME StockTypes, NEW o, Untouched(o)
  PROVE  /\ \A i \in Ingredients, kind \in {"ORDER", "REVERSAL"} :
               MovedFor(o, kind, i)' = MovedFor(o, kind, i)
         /\ \A i \in Ingredients : \A n \in DOMAIN ledger[i] : ledger'[i][n] = ledger[i][n]
         /\ ToReturn(o)' = ToReturn(o)
<1>1. ASSUME NEW i \in Ingredients
      PROVE  /\ \A kind \in {"ORDER", "REVERSAL"} : MovedFor(o, kind, i)' = MovedFor(o, kind, i)
             /\ \A n \in DOMAIN ledger[i] : ledger'[i][n] = ledger[i][n]
  <2>1. CASE ledger'[i] = ledger[i]
    BY <2>1 DEF MovedFor
  <2>2. CASE ledger'[i] # ledger[i]
    <3>1. PICK m \in Movements : /\ ledger'[i] = Append(ledger[i], m)
                                 /\ m.order # o \/ m.kind \notin {"ORDER", "REVERSAL"}
      BY <2>2 DEF Untouched
    <3>2. ledger[i] \in Seq(Movements)
      BY DEF StockTypes
    <3>3. QED
      BY <3>1, <3>2, MovedAppend
  <2>3. QED
    BY <2>1, <2>2
<1>2. AlreadyReversed(o)' = AlreadyReversed(o)
  BY <1>1 DEF AlreadyReversed
<1>3. ASSUME NEW i \in Ingredients PROVE Consumed(o, i)' = Consumed(o, i)
  <2> DEFINE of == MovedFor(o, "ORDER", i)
  <2>1. of' = of
    BY <1>1
  <2>2. Consumed(o, i) = IF of = {} THEN 0 ELSE -ledger[i][CHOOSE n \in of : TRUE].qty
    BY DEF Consumed
  <2>3. Consumed(o, i)' = IF of' = {} THEN 0 ELSE -ledger'[i][CHOOSE n \in of' : TRUE].qty
    BY DEF Consumed
  <2>4. of \subseteq DOMAIN ledger[i]
    BY DEF MovedFor
  <2> HIDE DEF of
  <2>5. of # {} => (CHOOSE n \in of : TRUE) \in of
    OBVIOUS
  <2>6. Consumed(o, i)' = IF of = {} THEN 0 ELSE -ledger'[i][CHOOSE n \in of : TRUE].qty
    BY <2>1, <2>3
  <2>7. \A n \in of : ledger'[i][n] = ledger[i][n]
    BY <1>1, <2>4
  <2>8. of # {} => ledger'[i][CHOOSE n \in of : TRUE] = ledger[i][CHOOSE n \in of : TRUE]
    BY <2>5, <2>7
  <2>9. QED
    BY <2>2, <2>6, <2>8
<1>4. ToReturn(o)' = ToReturn(o)
  BY <1>2, <1>3 DEF ToReturn
<1>5. QED
  BY <1>1, <1>4

\* Then its books stay, as long as it is neither placed nor cancelled.
LEMMA BooksKept ==
  ASSUME StockTypes, NEW o \in Txs, NEW i \in Ingredients, Books(o, i), Untouched(o),
         (orders'[o] = NoOrder) = (orders[o] = NoOrder),
         orders[o] # NoOrder => (orders'[o].status = "cancelled") = (orders[o].status = "cancelled")
  PROVE  Books(o, i)'
<1> DEFINE taken == MovedFor(o, "ORDER", i)
           back == MovedFor(o, "REVERSAL", i)
<1>1. taken' = taken /\ back' = back
  BY UntouchedKept
<1>2. \A n \in taken \cup back : ledger'[i][n] = ledger[i][n]
  <2>1. taken \cup back \subseteq DOMAIN ledger[i]
    BY DEF MovedFor
  <2> HIDE DEF taken, back
  <2>2. QED
    BY <2>1, UntouchedKept
<1>3. /\ \A m, n \in taken : m = n
      /\ \A m, n \in back : m = n
      /\ taken # {} => orders[o] # NoOrder
      /\ \A n \in taken : ledger[i][n].qty < 0
      /\ IF orders[o] # NoOrder /\ orders[o].status = "cancelled"
         THEN /\ taken = {} <=> back = {}
              /\ \A m \in taken, n \in back : ledger[i][n].qty = -ledger[i][m].qty
         ELSE back = {}
  BY DEF Books
<1>4. Books(o, i)' =
        (/\ \A m, n \in taken' : m = n
         /\ \A m, n \in back' : m = n
         /\ taken' # {} => orders'[o] # NoOrder
         /\ \A n \in taken' : ledger'[i][n].qty < 0
         /\ IF orders'[o] # NoOrder /\ orders'[o].status = "cancelled"
            THEN /\ taken' = {} <=> back' = {}
                 /\ \A m \in taken', n \in back' : ledger'[i][n].qty = -ledger'[i][m].qty
            ELSE back' = {})
  BY DEF Books
<1> HIDE DEF taken, back
<1>5. QED
  BY <1>1, <1>2, <1>3, <1>4

\* Stock and ledger after one more movement.
LEMMA LedgerAppended ==
  ASSUME NEW s \in Seq(Movements), NEW m \in Movements, NEW q \in Int,
         Balance(s) = q, ~Overdrawn(s), q + m.qty >= 0
  PROVE  /\ Append(s, m) \in Seq(Movements)
         /\ Balance(Append(s, m)) = Stored(q + m.qty)
         /\ ~Overdrawn(Append(s, m))
<1>1. Append(s, m) \in Seq(Movements)
  OBVIOUS
<1>2. m.qty \in Int
  BY DEF Movements
<1>3. ~(Balance(s) + m.qty < 0)
  BY <1>2
<1>4. QED
  BY <1>1, <1>3, BalanceAppend

\* No quantity is rounded below nothing.
LEMMA StoredNat == ASSUME NEW q \in Nat PROVE Stored(q) \in Nat
BY DEF Stored

-------------------------------------------------------------------------------
\* Of a step that writes no stock: a reversal under way (of another transaction
\* than the one that moves) and the books are as they were.
LEMMA QuietBooks ==
  ASSUME StockInv, UNCHANGED <<stock, ledger>>,
         \A o \in Txs : /\ (orders'[o] = NoOrder) = (orders[o] = NoOrder)
                        /\ orders[o] # NoOrder =>
                             (orders'[o].status = "cancelled") = (orders[o].status = "cancelled")
  PROVE  StockIsLedger' /\ BooksAgree' /\ \A o : ToReturn(o)' = ToReturn(o)
<1>1. StockIsLedger'
  BY DEF StockInv, StockIsLedger
<1>2. ASSUME NEW o PROVE Untouched(o)
  BY DEF Untouched
<1>3. BooksAgree'
  BY <1>2, BooksKept DEF StockInv, BooksAgree
<1>4. \A o : ToReturn(o)' = ToReturn(o)
  BY <1>2, UntouchedKept DEF StockInv
<1>5. QED
  BY <1>1, <1>3, <1>4

\* A transaction that moves on and writes nothing: if it is at a reversal
\* afterwards, it holds the order and is to return what the ledger says.
LEMMA QuietStep ==
  ASSUME StockInv, NEW t \in Txs, UNCHANGED <<stock, ledger, orders>>, StockTypes',
         pc' = [pc EXCEPT ![t] = pc'[t]], pc \in [Txs -> Phases],
         call' = [call EXCEPT ![t] = call'[t]], need' = [need EXCEPT ![t] = need'[t]],
         held' = [held EXCEPT ![t] = held'[t]], cas' = [cas EXCEPT ![t] = cas'[t]],
         call \in [Txs -> Calls \cup {NoCall}],
         \A o \in Txs : pc'[t] \in {"returning", "swapping"} /\ call'[t].order = o =>
            OrderRow(o) \in held'[t] /\ need'[t] = ToReturn(o),
         pc'[t] = "swapping" => cas'[t].row \in Ingredients
  PROVE  StockInv'
<1>1. StockIsLedger' /\ BooksAgree' /\ \A o : ToReturn(o)' = ToReturn(o)
  BY QuietBooks
<1>2. ASSUME NEW u \in Txs, u # t
      PROVE  /\ pc'[u] = pc[u] /\ call'[u] = call[u] /\ need'[u] = need[u]
             /\ held'[u] = held[u] /\ cas'[u] = cas[u]
  BY <1>2 DEF StockInv, StockTypes
<1>3. Returning'
  <2> SUFFICES ASSUME NEW u \in Txs, NEW o \in Txs, pc'[u] \in {"returning", "swapping"},
                      call'[u].order = o
               PROVE  OrderRow(o) \in held'[u] /\ need'[u] = ToReturn(o)'
    BY DEF Returning, OrderRow
  <2>1. ToReturn(o)' = ToReturn(o)
    BY <1>1
  <2>2. CASE u = t
    BY <2>1, <2>2
  <2>3. CASE u # t
    BY <1>2, <2>1, <2>3 DEF StockInv, Returning
  <2>4. QED
    BY <2>2, <2>3
<1>4. Swapping'
  BY <1>2 DEF StockInv, Swapping
<1>5. QED
  BY <1>1, <1>3, <1>4 DEF StockInv

\* A transaction ends without having written anything.
LEMMA StockRollback ==
  ASSUME CheckoutInv, StockInv, NEW t \in Txs, NEW how, Rollback(t, how)
  PROVE  StockInv'
<1> USE DEF Rollback, Ends, data
<1>1. StockTypes'
  <2>1. need' \in [Txs -> [Ingredients -> Nat]]
    BY DEF StockInv, StockTypes, Nothing
  <2>2. cas' \in [Txs -> [row : Ingredients \cup {-1}, version : Nat, attempt : 0..3]]
    BY DEF StockInv, StockTypes, NoCas
  <2>3. QED
    BY <2>1, <2>2 DEF StockInv, StockTypes
<1>2. /\ pc' = [pc EXCEPT ![t] = pc'[t]] /\ pc'[t] = "done" /\ pc \in [Txs -> Phases]
      /\ call \in [Txs -> Calls \cup {NoCall}]
  BY DEF CheckoutInv, Typed
<1>3. /\ call' = [call EXCEPT ![t] = call'[t]] /\ need' = [need EXCEPT ![t] = need'[t]]
      /\ held' = [held EXCEPT ![t] = held'[t]] /\ cas' = [cas EXCEPT ![t] = cas'[t]]
  BY DEF CheckoutInv, Typed, StockInv, StockTypes
<1>4. QED
  BY <1>1, <1>2, <1>3, QuietStep

\* Calls name customers, buyers and orders that may be.
LEMMA CallTypes ==
  ASSUME NEW c \in Calls
  PROVE  /\ c.kind = "release" => c.order \in Txs
         /\ c.kind = "buyer" => c.buyer \in Buyers
         /\ c.kind \in {"chatbot", "seller"} => c.customer \in Customers
         /\ c.kind \in {"chatbot", "buyer", "seller"} =>
               c.qty \in Nat /\ c.extra \in [Ingredients -> Nat]
<1>1. Portions \subseteq Nat /\ Accessories \subseteq [Ingredients -> Nat]
  BY CheckoutAssumption
<1>2. Nothing \in [Ingredients -> Nat]
  BY DEF Nothing
<1>3. CASE c \in ChatbotCalls
  BY <1>1, <1>2, <1>3 DEF ChatbotCalls
<1>4. CASE c \in BuyerCalls
  BY <1>1, <1>2, <1>4 DEF BuyerCalls
<1>5. CASE c \in SellerCalls
  BY <1>1, <1>5 DEF SellerCalls
<1>6. CASE c \in Releases
  BY <1>6 DEF Releases
<1>7. QED
  BY <1>3, <1>4, <1>5, <1>6 DEF Calls

\* The least of a set of ingredients is one of them.
LEMMA SmallestIn ==
  ASSUME NEW S \in SUBSET Ingredients, S # {}
  PROVE  Smallest(S) \in S
<1>1. S \in SUBSET Nat
  BY CheckoutAssumption
<1>2. \E i \in S : \A j \in S : i <= j
  BY <1>1, LeastNumber
<1>3. QED
  BY <1>2 DEF Smallest

\* A request begins.
LEMMA StockBegin ==
  ASSUME CheckoutInv, StockInv, NEW t \in Txs, NEW c \in Requests, Begin(t, c)
  PROVE  StockInv'
<1>1. StockTypes'
  BY DEF Begin, StockInv, StockTypes
<1>2. /\ pc' = [pc EXCEPT ![t] = pc'[t]] /\ pc'[t] = "begun" /\ pc \in [Txs -> Phases]
      /\ call \in [Txs -> Calls \cup {NoCall}]
      /\ call' = [call EXCEPT ![t] = call'[t]] /\ need' = [need EXCEPT ![t] = need'[t]]
      /\ held' = [held EXCEPT ![t] = held'[t]] /\ cas' = [cas EXCEPT ![t] = cas'[t]]
      /\ UNCHANGED <<stock, ledger, orders>>
  BY DEF Begin, CheckoutInv, Typed, StockInv, StockTypes
<1>3. QED
  BY <1>1, <1>2, QuietStep

\* Before it is placed, an order only reads and locks.
LEMMA StockRequest ==
  ASSUME CheckoutInv, StockInv, NEW t \in Txs,
         Resolve(t) \/ LockCustomer(t) \/ CheckRequest(t) \/ ReadCatalogue(t) \/ LockStock(t)
  PROVE  StockInv'
<1>0. /\ pc \in [Txs -> Phases] /\ call \in [Txs -> Calls \cup {NoCall}]
      /\ pc[t] # "idle" => call[t] \in Calls
      /\ pc[t] \in Placing => Places(t)
  BY DEF CheckoutInv, Typed, WorksOn
<1>1. Places(t) /\ pc[t] # "idle" => Party(t) \in Customers /\ (call[t].kind = "buyer" => call[t].buyer \in Buyers)
  BY <1>0, CallTypes, CheckoutAssumption DEF Party, Places
<1> DEFINE Moves(next) ==
      /\ pc' = [pc EXCEPT ![t] = next]
      /\ UNCHANGED <<stock, ledger, orders, call>>
      /\ need' = [need EXCEPT ![t] = need'[t]] /\ held' = [held EXCEPT ![t] = held'[t]]
      /\ cas' = [cas EXCEPT ![t] = cas'[t]]
<1>2. ASSUME NEW next \in Placing, Moves(next), StockTypes' PROVE StockInv'
  <2>1. /\ pc' = [pc EXCEPT ![t] = pc'[t]] /\ pc'[t] \notin {"returning", "swapping"}
        /\ call' = [call EXCEPT ![t] = call'[t]]
    BY <1>0, <1>2 DEF Placing
  <2>2. QED
    BY <1>0, <1>2, <2>1, QuietStep
<1>3. CASE Resolve(t)
  <2>1. held'[t] \subseteq held[t] \cup {BuyerRow(b) : b \in Buyers}
    BY <1>0, <1>1, <1>3 DEF Resolve, Wanted, Places, StockInv, StockTypes
  <2>2. held' \in [Txs -> SUBSET Rows]
    BY <1>3, <2>1 DEF Resolve, StockInv, StockTypes, Rows
  <2>3. StockTypes'
    BY <1>3, <2>2 DEF Resolve, data, StockInv, StockTypes
  <2>4. Moves("resolved")
    BY <1>3 DEF Resolve, data, StockInv, StockTypes
  <2> HIDE DEF Moves
  <2>5. QED
    BY <1>2, <2>3, <2>4 DEF Placing
<1>4. CASE LockCustomer(t)
  <2>1. CASE ~saw[t] /\ Party(t) \in known
    BY <1>4, <2>1, StockRollback DEF LockCustomer
  <2>2. CASE ~(~saw[t] /\ Party(t) \in known)
    <3>1. CustomerRow(Party(t)) \in Rows
      BY <1>0, <1>1, <1>4 DEF LockCustomer, Rows, Placing
    <3> DEFINE row == CustomerRow(Party(t))
    <3>2. held' \in [Txs -> SUBSET Rows]
      <4>1. held' = [held EXCEPT ![t] = @ \cup {row}]
        BY <1>4, <2>2 DEF LockCustomer
      <4> HIDE DEF row
      <4>2. row \in Rows
        BY <3>1 DEF row
      <4>3. QED
        BY <4>1, <4>2 DEF StockInv, StockTypes
    <3>3. StockTypes'
      BY <1>4, <2>2, <3>2 DEF LockCustomer, data, StockInv, StockTypes
    <3>4. Moves("locked")
      BY <1>4, <2>2 DEF LockCustomer, data, StockInv, StockTypes
    <3> HIDE DEF Moves
    <3>5. QED
      BY <1>2, <3>3, <3>4 DEF Placing
  <2>3. QED
    BY <2>1, <2>2
<1>5. CASE CheckRequest(t)
  <2>1. CASE \E how : Rollback(t, how)
    BY <2>1, StockRollback
  <2>2. CASE ~\E how : Rollback(t, how)
    <3>1. /\ pc' = [pc EXCEPT ![t] = "clear"]
          /\ UNCHANGED <<call, held, saw, need, todo, cas, began, answer>> /\ UNCHANGED data
      BY <1>5, <2>2 DEF CheckRequest
    <3>2. StockTypes' /\ Moves("clear")
      BY <3>1 DEF data, StockInv, StockTypes
    <3> HIDE DEF Moves
    <3>3. QED
      BY <1>2, <3>2 DEF Placing
  <2>3. QED
    BY <2>1, <2>2
<1>6. CASE ReadCatalogue(t)
  <2>1. CASE ~onSale
    BY <1>6, <2>1, StockRollback DEF ReadCatalogue
  <2>2. CASE onSale
    <3> DEFINE asked == [i \in Ingredients |-> call[t].qty * recipe[i] + call[t].extra[i]]
    <3>1. /\ need' = [need EXCEPT ![t] = asked]
          /\ todo' = [todo EXCEPT ![t] = {i \in Ingredients : need'[t][i] > 0}]
          /\ pc' = [pc EXCEPT ![t] = "priced"]
          /\ UNCHANGED <<call, held, saw, cas, began, answer>> /\ UNCHANGED data
      BY <1>6, <2>2 DEF ReadCatalogue
    <3>2. asked \in [Ingredients -> Nat]
      <4>1. Places(t) /\ pc[t] # "idle"
        BY <1>0, <1>6 DEF ReadCatalogue, Placing
      <4>2. call[t].qty \in Nat /\ call[t].extra \in [Ingredients -> Nat]
        BY <1>0, <4>1, CallTypes DEF Places
      <4>3. recipe \in [Ingredients -> Nat]
        BY CheckoutAssumption DEF StockInv, StockTypes
      <4>4. \A a, b \in Nat : a * b \in Nat
        OBVIOUS
      <4>5. \A i \in Ingredients : call[t].qty * recipe[i] \in Nat /\ call[t].extra[i] \in Nat
        BY <4>2, <4>3, <4>4
      <4>6. \A i \in Ingredients : call[t].qty * recipe[i] + call[t].extra[i] \in Nat
        BY <4>5
      <4>7. QED
        BY <4>6
    <3> HIDE DEF asked
    <3>3. StockTypes'
      BY <3>1, <3>2 DEF data, StockInv, StockTypes
    <3>4. Moves("priced")
      BY <3>1 DEF data, StockInv, StockTypes
    <3> HIDE DEF Moves
    <3>5. QED
      BY <1>2, <3>3, <3>4 DEF Placing
  <2>3. QED
    BY <2>1, <2>2
<1>7. CASE LockStock(t)
  <2>1. todo[t] \in SUBSET Ingredients /\ todo[t] # {}
    BY <1>7 DEF LockStock, StockInv, StockTypes
  <2>2. Smallest(todo[t]) \in Ingredients
    BY <2>1, SmallestIn
  <2>3. StockRow(Smallest(todo[t])) \in Rows
    BY <2>2 DEF Rows
  <2>4. held' \in [Txs -> SUBSET Rows] /\ todo' \in [Txs -> SUBSET Ingredients]
    BY <1>7, <2>3 DEF LockStock, StockInv, StockTypes
  <2>5. StockTypes'
    BY <1>7, <2>4 DEF LockStock, data, StockInv, StockTypes
  <2>6. Moves("priced")
    BY <1>0, <1>7 DEF LockStock, data, StockInv, StockTypes
  <2> HIDE DEF Moves
  <2>7. QED
    BY <1>2, <2>5, <2>6 DEF Placing
<1>8. QED
  BY <1>3, <1>4, <1>5, <1>6, <1>7

\* What an order consumed is a quantity.
LEMMA ReturnTypes ==
  ASSUME StockInv, NEW o \in Txs
  PROVE  ToReturn(o) \in [Ingredients -> Nat]
<1>1. ASSUME NEW i \in Ingredients PROVE Consumed(o, i) \in Nat
  <2> DEFINE of == MovedFor(o, "ORDER", i)
             n == CHOOSE n \in of : TRUE
  <2>1. CASE of = {}
    BY <2>1 DEF Consumed
  <2>2. CASE of # {}
    <3>1. n \in of
      BY <2>2
    <3>2. ledger[i] \in Seq(Movements) /\ n \in DOMAIN ledger[i]
      BY <3>1 DEF StockInv, StockTypes, MovedFor
    <3>3. ledger[i][n] \in Movements
      <4> HIDE DEF n, of
      <4>1. QED
        BY <3>2
    <3>4. ledger[i][n].qty < 0
      BY <3>1 DEF StockInv, BooksAgree, Books
    <3>5. ledger[i][n].qty \in Int
      BY <3>3 DEF Movements
    <3>6. Consumed(o, i) = -ledger[i][n].qty
      BY <2>2 DEF Consumed
    <3> HIDE DEF n
    <3>7. QED
      BY <3>4, <3>5, <3>6
  <2>3. QED
    BY <2>1, <2>2
<1>2. QED
  BY <1>1 DEF ToReturn, Nothing

\* A reversal before it writes: it locks the order, reads what to return, and
\* then one stock row after the other.
LEMMA StockRelease ==
  ASSUME CheckoutInv, StockInv, NEW t \in Txs,
         StartReversal(t) \/ (\E i \in Ingredients : ReadVersion(t, i)) \/ CompareAndSwap(t)
  PROVE  StockInv'
<1>0. /\ pc \in [Txs -> Phases] /\ call \in [Txs -> Calls \cup {NoCall}]
      /\ pc[t] # "idle" => call[t] \in Calls
      /\ pc[t] \in {"returning", "swapping"} => call[t].kind = "release"
  BY DEF CheckoutInv, Typed, WorksOn
<1>1. CASE StartReversal(t)
  <2>1. PICK o : o = call[t].order
    OBVIOUS
  <2>2. o \in Txs
    BY <1>0, <1>1, <2>1, CallTypes DEF StartReversal
  <2>3. CASE orders[o].status = "cancelled" /\ ~orders[o].paid
    BY <1>1, <2>1, <2>3, StockRollback DEF StartReversal
  <2>4. CASE ~(orders[o].status = "cancelled" /\ ~orders[o].paid)
    <3>1. /\ held' = [held EXCEPT ![t] = @ \cup {OrderRow(o)}]
          /\ need' = [need EXCEPT ![t] = ToReturn(o)]
          /\ todo' = [todo EXCEPT ![t] = {i \in Ingredients : need'[t][i] > 0}]
          /\ pc' = [pc EXCEPT ![t] = "returning"]
          /\ UNCHANGED <<call, saw, cas, began, answer>> /\ UNCHANGED data
      BY <1>1, <2>1, <2>4 DEF StartReversal, ToReturn
    <3>2. ToReturn(o) \in [Ingredients -> Nat] /\ OrderRow(o) \in Rows
      BY <2>2, ReturnTypes DEF Rows
    <3> PICK back : back = ToReturn(o)
      OBVIOUS
    <3>3. StockTypes'
      BY <3>1, <3>2 DEF data, StockInv, StockTypes
    <3>4. /\ UNCHANGED <<stock, ledger, orders>>
          /\ pc' = [pc EXCEPT ![t] = pc'[t]] /\ call' = [call EXCEPT ![t] = call'[t]]
          /\ need' = [need EXCEPT ![t] = need'[t]] /\ held' = [held EXCEPT ![t] = held'[t]]
          /\ cas' = [cas EXCEPT ![t] = cas'[t]]
      BY <1>0, <3>1 DEF data, StockInv, StockTypes
    <3>5. /\ OrderRow(o) \in held'[t] /\ need'[t] = ToReturn(o)
          /\ call'[t].order = o /\ pc'[t] = "returning"
      BY <1>0, <2>1, <3>1 DEF StockInv, StockTypes
    <3>6. QED
      BY <1>0, <3>3, <3>4, <3>5, QuietStep
  <2>5. QED
    BY <2>3, <2>4
<1>2. ASSUME NEW i \in Ingredients, ReadVersion(t, i) PROVE StockInv'
  <2>1. cas' \in [Txs -> [row : Ingredients \cup {-1}, version : Nat, attempt : 0..3]]
    BY <1>2 DEF ReadVersion, StockInv, StockTypes
  <2>2. StockTypes'
    BY <1>2, <2>1 DEF ReadVersion, data, StockInv, StockTypes
  <2>3. /\ UNCHANGED <<stock, ledger, orders, call, need, held>>
        /\ pc' = [pc EXCEPT ![t] = pc'[t]] /\ call' = [call EXCEPT ![t] = call'[t]]
        /\ need' = [need EXCEPT ![t] = need'[t]] /\ held' = [held EXCEPT ![t] = held'[t]]
        /\ cas' = [cas EXCEPT ![t] = cas'[t]]
    BY <1>0, <1>2 DEF ReadVersion, data, StockInv, StockTypes
  <2>4. cas'[t].row \in Ingredients /\ pc[t] = "returning"
    BY <1>2 DEF ReadVersion, StockInv, StockTypes
  <2>5. QED
    BY <1>0, <2>2, <2>3, <2>4, QuietStep DEF StockInv, Returning
<1>3. CASE CompareAndSwap(t)
  <2> DEFINE c == cas[t]
  <2>0. pc[t] = "swapping" /\ c.row \in Ingredients
        /\ c \in [row : Ingredients \cup {-1}, version : Nat, attempt : 0..3]
    BY <1>3 DEF CompareAndSwap, StockInv, Swapping, StockTypes
  <2>1. CASE stock[c.row].version = c.version
    <3>1. /\ held' = [held EXCEPT ![t] = @ \cup {StockRow(c.row)}]
          /\ todo' = [todo EXCEPT ![t] = @ \ {c.row}]
          /\ pc' = [pc EXCEPT ![t] = "returning"]
          /\ UNCHANGED <<call, saw, need, cas, began, answer>> /\ UNCHANGED data
      BY <1>3, <2>1 DEF CompareAndSwap
    <3>2. StockRow(c.row) \in Rows
      BY <2>0 DEF Rows
    <3> HIDE DEF c
    <3>3. StockTypes'
      BY <3>1, <3>2 DEF data, StockInv, StockTypes
    <3>4. /\ UNCHANGED <<stock, ledger, orders, call, need, cas>> /\ held[t] \subseteq held'[t]
          /\ pc' = [pc EXCEPT ![t] = pc'[t]] /\ call' = [call EXCEPT ![t] = call'[t]]
          /\ need' = [need EXCEPT ![t] = need'[t]] /\ held' = [held EXCEPT ![t] = held'[t]]
          /\ cas' = [cas EXCEPT ![t] = cas'[t]] /\ pc'[t] = "returning"
      BY <1>0, <3>1 DEF data, StockInv, StockTypes
    <3>5. QED
      BY <1>0, <2>0, <3>3, <3>4, QuietStep DEF StockInv, Returning
  <2>2. CASE stock[c.row].version # c.version /\ c.attempt < 3
    <3> DEFINE d == [c EXCEPT !.version = @ + 1, !.attempt = @ + 1]
    <3>1. /\ cas' = [cas EXCEPT ![t] = d]
          /\ UNCHANGED <<call, pc, held, saw, need, todo, began, answer>> /\ UNCHANGED data
      BY <1>3, <2>2 DEF CompareAndSwap
    <3>2. d \in [row : Ingredients \cup {-1}, version : Nat, attempt : 0..3] /\ d.row = c.row
      <4>1. c.version + 1 \in Nat /\ c.attempt + 1 \in 0..3
        BY <2>0, <2>2
      <4>2. QED
        BY <2>0, <4>1
    <3> HIDE DEF c, d
    <3>3. StockTypes'
      BY <3>1, <3>2 DEF data, StockInv, StockTypes
    <3>4. /\ UNCHANGED <<stock, ledger, orders, call, need, held, pc>>
          /\ pc' = [pc EXCEPT ![t] = pc'[t]] /\ call' = [call EXCEPT ![t] = call'[t]]
          /\ need' = [need EXCEPT ![t] = need'[t]] /\ held' = [held EXCEPT ![t] = held'[t]]
          /\ cas' = [cas EXCEPT ![t] = cas'[t]] /\ cas'[t].row \in Ingredients
      BY <1>0, <2>0, <3>1, <3>2 DEF data, StockInv, StockTypes
    <3>5. QED
      BY <1>0, <2>0, <3>3, <3>4, QuietStep DEF StockInv, Returning
  <2>3. CASE stock[c.row].version # c.version /\ ~(c.attempt < 3)
    BY <1>3, <2>3, StockRollback DEF CompareAndSwap
  <2>4. QED
    BY <2>1, <2>2, <2>3
<1>4. QED
  BY <1>1, <1>2, <1>3

-------------------------------------------------------------------------------
\* What Move writes, and that stock and ledger agree on it.
LEMMA MoveStep ==
  ASSUME StockInv, NEW t \in Txs, NEW kind \in {"ORDER", "REVERSAL"}, NEW o \in Txs,
         NEW sign \in {1, -1}, Move(t, kind, o, sign),
         \A i \in Ingredients : stock[i].qty + sign * need[t][i] >= 0
  PROVE  /\ stock' \in [Ingredients -> [qty : Nat, version : Nat]]
         /\ ledger' \in [Ingredients -> Seq(Movements)]
         /\ StockIsLedger'
         /\ \A i \in Ingredients :
               \/ need[t][i] = 0 /\ ledger'[i] = ledger[i]
               \/ /\ need[t][i] > 0
                  /\ \E m \in Movements :
                        /\ ledger'[i] = Append(ledger[i], m)
                        /\ m.kind = kind /\ m.order = o /\ m.qty = sign * need[t][i]
<1> DEFINE mv(i) == [kind |-> kind, order |-> o, qty |-> sign * need[t][i], at |-> began[t]]
           row(i) == [qty |-> Stored(stock[i].qty + sign * need[t][i]), version |-> stock[i].version + 1]
<1>1. ASSUME NEW i \in Ingredients
      PROVE  /\ stock[i] \in [qty : Nat, version : Nat] /\ ledger[i] \in Seq(Movements)
             /\ need[t][i] \in Nat /\ mv(i) \in Movements /\ mv(i).qty = sign * need[t][i]
             /\ Balance(ledger[i]) = stock[i].qty /\ ~Overdrawn(ledger[i])
  <2>1. need[t][i] \in Nat /\ began[t] \in Nat
    BY DEF StockInv, StockTypes
  <2>2. sign * need[t][i] \in Int
    BY <2>1
  <2>3. mv(i) \in Movements
    BY <2>1, <2>2 DEF Movements
  <2>4. QED
    BY <2>1, <2>3 DEF StockInv, StockTypes, StockIsLedger
<1>2. /\ stock' = [i \in Ingredients |-> IF need[t][i] = 0 THEN stock[i] ELSE row(i)]
      /\ ledger' = [i \in Ingredients |-> IF need[t][i] = 0 THEN ledger[i] ELSE Append(ledger[i], mv(i))]
  BY DEF Move
<1>3. ASSUME NEW i \in Ingredients
      PROVE  /\ row(i) \in [qty : Nat, version : Nat]
             /\ row(i).qty = Stored(stock[i].qty + sign * need[t][i])
             /\ Append(ledger[i], mv(i)) \in Seq(Movements)
             /\ Balance(Append(ledger[i], mv(i))) = row(i).qty
             /\ ~Overdrawn(Append(ledger[i], mv(i)))
  <2>0. need[t][i] \in Nat /\ stock[i].qty \in Nat /\ stock[i].version \in Nat
    BY <1>1
  <2>1. stock[i].qty + sign * need[t][i] \in Nat
    <3> PICK d \in Int : d = sign * need[t][i]
      BY <2>0
    <3>1. stock[i].qty + d >= 0
      OBVIOUS
    <3>2. QED
      BY <2>0, <3>1
  <2>2. row(i) \in [qty : Nat, version : Nat]
    <3>1. Stored(stock[i].qty + sign * need[t][i]) \in Nat /\ stock[i].version + 1 \in Nat
      BY <2>0, <2>1, StoredNat
    <3>2. QED
      BY <3>1
  <2>3. stock[i].qty \in Int /\ stock[i].qty + mv(i).qty >= 0
    <3>1. mv(i).qty = sign * need[t][i]
      BY <1>1
    <3> HIDE DEF mv
    <3>2. QED
      BY <2>0, <3>1
  <2> HIDE DEF mv
  <2>4. /\ Append(ledger[i], mv(i)) \in Seq(Movements)
        /\ Balance(Append(ledger[i], mv(i))) = Stored(stock[i].qty + mv(i).qty)
        /\ ~Overdrawn(Append(ledger[i], mv(i)))
    BY <1>1, <2>3, LedgerAppended
  <2>5. QED
    BY <1>1, <2>2, <2>4
<1> HIDE DEF mv, row
<1>4. ASSUME NEW i \in Ingredients
      PROVE  /\ stock'[i] \in [qty : Nat, version : Nat] /\ ledger'[i] \in Seq(Movements)
             /\ Balance(ledger'[i]) = stock'[i].qty /\ ~Overdrawn(ledger'[i])
             /\ \/ need[t][i] = 0 /\ ledger'[i] = ledger[i]
                \/ need[t][i] > 0 /\ ledger'[i] = Append(ledger[i], mv(i))
  <2>1. CASE need[t][i] = 0
    BY <1>1, <1>2, <2>1
  <2>2. CASE need[t][i] # 0
    BY <1>1, <1>2, <1>3, <2>2
  <2>3. QED
    BY <2>1, <2>2
<1>5. stock' \in [Ingredients -> [qty : Nat, version : Nat]] /\ ledger' \in [Ingredients -> Seq(Movements)]
  BY <1>2, <1>4
<1>6. StockIsLedger'
  BY <1>4 DEF StockIsLedger
<1>7. ASSUME NEW i \in Ingredients
      PROVE  mv(i) \in Movements /\ mv(i).kind = kind /\ mv(i).order = o /\ mv(i).qty = sign * need[t][i]
  BY <1>1 DEF mv
<1>8. QED
  BY <1>4, <1>5, <1>6, <1>7

\* A movement more of an order: its kind's list has it, the other's does not.
LEMMA MovedWritten ==
  ASSUME NEW i \in Ingredients, NEW m \in Movements, ledger[i] \in Seq(Movements),
         ledger'[i] = Append(ledger[i], m), NEW o, m.order = o
  PROVE  /\ m.kind = "ORDER" =>
              /\ MovedFor(o, "ORDER", i)' = MovedFor(o, "ORDER", i) \cup {Len(ledger[i]) + 1}
              /\ MovedFor(o, "REVERSAL", i)' = MovedFor(o, "REVERSAL", i)
         /\ m.kind = "REVERSAL" =>
              /\ MovedFor(o, "ORDER", i)' = MovedFor(o, "ORDER", i)
              /\ MovedFor(o, "REVERSAL", i)' = MovedFor(o, "REVERSAL", i) \cup {Len(ledger[i]) + 1}
         /\ \A n \in 1..Len(ledger[i]) : ledger'[i][n] = ledger[i][n]
         /\ ledger'[i][Len(ledger[i]) + 1] = m
<1>1. /\ \A n \in DOMAIN ledger[i] : ledger'[i][n] = ledger[i][n]
      /\ ledger'[i][Len(ledger[i]) + 1] = m
      /\ DOMAIN ledger[i] = 1..Len(ledger[i])
  BY MovedAppend
<1> DEFINE Of(kind) == MovedFor(o, kind, i)
<1>2. ASSUME NEW kind
      PROVE  /\ m.kind = kind => Of(kind)' = Of(kind) \cup {Len(ledger[i]) + 1}
             /\ m.kind # kind => Of(kind)' = Of(kind)
  BY MovedAppend
<1> HIDE DEF Of
<1>3. /\ m.kind = "ORDER" => /\ Of("ORDER")' = Of("ORDER") \cup {Len(ledger[i]) + 1}
                             /\ Of("REVERSAL")' = Of("REVERSAL")
      /\ m.kind = "REVERSAL" => /\ Of("ORDER")' = Of("ORDER")
                                /\ Of("REVERSAL")' = Of("REVERSAL") \cup {Len(ledger[i]) + 1}
  BY <1>2
<1>4. QED
  BY <1>1, <1>3 DEF Of

\* The books of the order that Place or Reverse writes movements for.
LEMMA BooksWritten ==
  ASSUME NEW i \in Ingredients, NEW o \in Txs, NEW t \in Txs, StockInv,
         \/ need[t][i] = 0 /\ ledger'[i] = ledger[i]
         \/ /\ need[t][i] > 0
            /\ \E m \in Movements :
                  /\ ledger'[i] = Append(ledger[i], m)
                  /\ m.order = o /\ \/ m.kind = "ORDER" /\ m.qty = -need[t][i]
                                    \/ m.kind = "REVERSAL" /\ m.qty = need[t][i],
         orders'[o] # NoOrder,
         \/ \* it is placed
            /\ orders[o] = NoOrder /\ orders'[o].status # "cancelled"
            /\ \A m \in Movements : ledger'[i] = Append(ledger[i], m) => m.kind = "ORDER"
         \/ \* it is reversed
            /\ orders[o] # NoOrder /\ orders'[o].status = "cancelled"
            /\ need[t] = ToReturn(o)
            /\ \A m \in Movements : ledger'[i] = Append(ledger[i], m) => m.kind = "REVERSAL"
  PROVE  Books(o, i)'
<1> DEFINE taken == MovedFor(o, "ORDER", i)
           back == MovedFor(o, "REVERSAL", i)
           k == Len(ledger[i])
<1>1. ledger[i] \in Seq(Movements) /\ k \in Nat /\ need[t][i] \in Nat
      /\ taken \subseteq 1..k /\ back \subseteq 1..k
  BY DEF StockInv, StockTypes, MovedFor
<1>2. /\ \A m, n \in taken : m = n
      /\ \A m, n \in back : m = n
      /\ taken # {} => orders[o] # NoOrder
      /\ \A n \in taken : ledger[i][n].qty < 0
      /\ IF orders[o] # NoOrder /\ orders[o].status = "cancelled"
         THEN /\ taken = {} <=> back = {}
              /\ \A m \in taken, n \in back : ledger[i][n].qty = -ledger[i][m].qty
         ELSE back = {}
  BY DEF StockInv, BooksAgree, Books
<1>3. \A n \in taken : ledger[i][n].qty \in Int
  <2>1. \A n \in 1..k : ledger[i][n] \in Movements
    BY <1>1
  <2>2. QED
    BY <1>1, <2>1 DEF Movements
<1>4. Books(o, i)' =
        (/\ \A m, n \in taken' : m = n
         /\ \A m, n \in back' : m = n
         /\ taken' # {} => orders'[o] # NoOrder
         /\ \A n \in taken' : ledger'[i][n].qty < 0
         /\ IF orders'[o] # NoOrder /\ orders'[o].status = "cancelled"
            THEN /\ taken' = {} <=> back' = {}
                 /\ \A m \in taken', n \in back' : ledger'[i][n].qty = -ledger'[i][m].qty
            ELSE back' = {})
  BY DEF Books
<1>5. CASE need[t][i] = 0
  <2>1. ledger'[i] = ledger[i] /\ taken' = taken /\ back' = back
    BY <1>5 DEF MovedFor
  <2>2. CASE orders[o] = NoOrder
    <3> HIDE DEF taken, back
    <3>1. QED
      BY <1>2, <1>4, <2>1, <2>2
  <2>3. CASE orders[o] # NoOrder
    <3>1. need[t][i] = ToReturn(o)[i]
      BY <2>3
    <3>2. AlreadyReversed(o) => orders[o].status = "cancelled"
      BY <2>3 DEF StockInv, BooksAgree, Books, AlreadyReversed
    <3>3. ~AlreadyReversed(o) => taken = {} /\ back = {}
      <4>1. ~AlreadyReversed(o) => back = {}
        BY DEF AlreadyReversed
      <4>2. ~AlreadyReversed(o) => Consumed(o, i) = 0
        BY <1>5, <3>1 DEF ToReturn
      <4>3. taken # {} => Consumed(o, i) # 0
        <5> DEFINE n == CHOOSE n \in taken : TRUE
        <5>1. taken # {} => n \in taken /\ Consumed(o, i) = -ledger[i][n].qty
          BY DEF Consumed
        <5> HIDE DEF n, taken
        <5>2. QED
          BY <1>2, <1>3, <5>1
      <4>4. QED
        BY <4>1, <4>2, <4>3
    <3> HIDE DEF taken, back
    <3>4. QED
      BY <1>2, <1>4, <2>1, <2>3, <3>2, <3>3
  <2>4. QED
    BY <2>2, <2>3
<1>6. CASE need[t][i] > 0
  <2>1. PICK m \in Movements :
            /\ ledger'[i] = Append(ledger[i], m)
            /\ m.order = o /\ \/ m.kind = "ORDER" /\ m.qty = -need[t][i]
                              \/ m.kind = "REVERSAL" /\ m.qty = need[t][i]
    BY <1>6
  <2>2. /\ m.kind = "ORDER" => taken' = taken \cup {k + 1} /\ back' = back
        /\ m.kind = "REVERSAL" => taken' = taken /\ back' = back \cup {k + 1}
        /\ \A n \in 1..k : ledger'[i][n] = ledger[i][n]
        /\ ledger'[i][k + 1] = m
    <3>1. ledger[i] \in Seq(Movements) /\ ledger'[i] = Append(ledger[i], m) /\ m.order = o
      BY <1>1, <2>1
    <3>2. QED
      BY <1>1, <3>1, MovedWritten
  <2>3. CASE orders[o] = NoOrder
    <3>1. m.kind = "ORDER" /\ taken = {} /\ back = {} /\ orders'[o].status # "cancelled"
      BY <1>2, <2>1, <2>3
    <3> HIDE DEF taken, back
    <3>2. taken' = {k + 1} /\ back' = {} /\ ledger'[i][k + 1].qty < 0
      BY <1>1, <1>6, <2>1, <2>2, <3>1
    <3>3. QED
      BY <1>4, <3>1, <3>2
  <2>4. CASE orders[o] # NoOrder
    <3>1. m.kind = "REVERSAL" /\ need[t][i] = ToReturn(o)[i] /\ orders'[o].status = "cancelled"
      BY <2>1, <2>4
    <3>2. ~AlreadyReversed(o)
      BY <1>6, <3>1 DEF ToReturn, Nothing
    <3>3. back = {} /\ need[t][i] = Consumed(o, i)
      BY <3>1, <3>2 DEF ToReturn, AlreadyReversed
    <3>4. PICK n \in taken : need[t][i] = -ledger[i][n].qty
      <4> DEFINE n == CHOOSE n \in taken : TRUE
      <4>1. taken # {}
        <5>1. taken = {} => Consumed(o, i) = 0
          BY DEF Consumed
        <5>2. QED
          BY <1>1, <1>6, <3>3, <5>1
      <4>2. n \in taken /\ Consumed(o, i) = -ledger[i][n].qty
        BY <4>1 DEF Consumed
      <4> HIDE DEF n, taken
      <4>3. QED
        BY <3>3, <4>2
    <3> HIDE DEF taken, back
    <3>5. taken' = {n} /\ back' = {k + 1} /\ n \in 1..k
      BY <1>1, <1>2, <2>2, <3>1, <3>3, <3>4
    <3>6. ledger'[i][n] = ledger[i][n] /\ ledger'[i][k + 1].qty = -ledger[i][n].qty
      BY <2>1, <2>2, <3>1, <3>4, <3>5
    <3>7. ledger'[i][n].qty < 0
      BY <1>2, <3>4, <3>6
    <3>8. QED
      BY <1>4, <3>1, <3>5, <3>6, <3>7
  <2>5. QED
    BY <2>3, <2>4
<1>7. QED
  BY <1>1, <1>5, <1>6

\* The steps that write: stock, ledger and order at once.
LEMMA StockPlace ==
  ASSUME CheckoutInv, StockInv, NEW t \in Txs, PlaceOrder(t)
  PROVE  StockInv'
<1>0. /\ pc \in [Txs -> Phases] /\ call \in [Txs -> Calls \cup {NoCall}]
      /\ pc[t] = "priced" /\ call[t] \in Calls /\ Places(t) /\ orders[t] = NoOrder
  BY DEF PlaceOrder, CheckoutInv, Typed, WorksOn, Placing
<1>1. CASE ~Sufficient(t)
  BY <1>1, StockRollback DEF PlaceOrder
<1>2. CASE Sufficient(t)
  <2>1. /\ Move(t, "ORDER", t, -1) /\ Ends(t, t)
        /\ orders' = [orders EXCEPT ![t] =
              [status |-> "pending", paid |-> FALSE, customer |-> Party(t),
               scope |-> Scope(t), key |-> call[t].key, qty |-> call[t].qty]]
        /\ known' = known \cup {Party(t)} /\ UNCHANGED <<onSale, recipe, clock>>
    BY <1>2 DEF PlaceOrder
  <2>2. \A i \in Ingredients : stock[i].qty + (-1) * need[t][i] >= 0
    <3>1. \A i \in Ingredients : stock[i].qty \in Nat /\ need[t][i] \in Nat
      BY DEF StockInv, StockTypes
    <3>2. QED
      BY <1>2, <3>1 DEF Sufficient
  <2>3. /\ stock' \in [Ingredients -> [qty : Nat, version : Nat]]
        /\ ledger' \in [Ingredients -> Seq(Movements)]
        /\ StockIsLedger'
        /\ \A i \in Ingredients :
              \/ need[t][i] = 0 /\ ledger'[i] = ledger[i]
              \/ /\ need[t][i] > 0
                 /\ \E m \in Movements :
                       /\ ledger'[i] = Append(ledger[i], m)
                       /\ m.kind = "ORDER" /\ m.order = t /\ m.qty = -need[t][i]
    <3> PICK sign \in {1, -1} : sign = -1
      OBVIOUS
    <3>1. Move(t, "ORDER", t, sign) /\ \A i \in Ingredients : stock[i].qty + sign * need[t][i] >= 0
      BY <2>1, <2>2
    <3>2. /\ stock' \in [Ingredients -> [qty : Nat, version : Nat]]
          /\ ledger' \in [Ingredients -> Seq(Movements)]
          /\ StockIsLedger'
          /\ \A i \in Ingredients :
                \/ need[t][i] = 0 /\ ledger'[i] = ledger[i]
                \/ /\ need[t][i] > 0
                   /\ \E m \in Movements :
                         /\ ledger'[i] = Append(ledger[i], m)
                         /\ m.kind = "ORDER" /\ m.order = t /\ m.qty = sign * need[t][i]
      BY <3>1, MoveStep
    <3>3. \A i \in Ingredients : sign * need[t][i] = -need[t][i]
      <4>1. \A i \in Ingredients : need[t][i] \in Nat
        BY DEF StockInv, StockTypes
      <4>2. QED
        BY <4>1
    <3>4. QED
      BY <3>2, <3>3
  <2>4. StockTypes'
    <3>1. Party(t) \in Customers
      BY <1>0, CallTypes, CheckoutAssumption DEF Party, Places
    <3>2. known' \subseteq Customers
      BY <2>1, <3>1 DEF StockInv, StockTypes
    <3>3. need' \in [Txs -> [Ingredients -> Nat]]
      BY <2>1 DEF Ends, StockInv, StockTypes, Nothing
    <3>4. cas' \in [Txs -> [row : Ingredients \cup {-1}, version : Nat, attempt : 0..3]]
      BY <2>1 DEF Ends, StockInv, StockTypes, NoCas
    <3>5. QED
      BY <2>1, <2>3, <3>2, <3>3, <3>4 DEF Ends, StockInv, StockTypes
  <2>5. /\ orders'[t] # NoOrder /\ orders'[t].status = "pending"
        /\ \A o \in Txs : o # t => orders'[o] = orders[o]
    <3>1. orders \in [Txs -> Orders \cup {NoOrder}]
      BY DEF CheckoutInv, Typed
    <3>2. QED
      BY <2>1, <3>1 DEF NoOrder
  <2>6. ASSUME NEW o \in Txs, o # t PROVE Untouched(o)
    BY <2>3, <2>6 DEF Untouched
  <2>7. ASSUME NEW i \in Ingredients PROVE Books(t, i)'
    <3>1. ledger[i] \in Seq(Movements) /\ need[t][i] \in Nat
      BY DEF StockInv, StockTypes
    <3>2. \A m, n \in Movements :
              ledger'[i] = Append(ledger[i], m) /\ ledger'[i] = Append(ledger[i], n) => m = n
      BY <3>1, MovedAppend
    <3>3. ledger'[i] = ledger[i] => \A m \in Movements : ledger'[i] # Append(ledger[i], m)
      <4>1. \A m \in Movements : Len(Append(ledger[i], m)) = Len(ledger[i]) + 1
        BY <3>1
      <4>2. Len(ledger[i]) # Len(ledger[i]) + 1
        BY <3>1
      <4>3. QED
        BY <4>1, <4>2
    <3>4. \A m \in Movements : ledger'[i] = Append(ledger[i], m) => m.kind = "ORDER"
      BY <2>3, <3>2, <3>3
    <3>5. \/ need[t][i] = 0 /\ ledger'[i] = ledger[i]
          \/ /\ need[t][i] > 0
             /\ \E m \in Movements :
                   /\ ledger'[i] = Append(ledger[i], m)
                   /\ m.order = t /\ m.kind = "ORDER" /\ m.qty = -need[t][i]
      BY <2>3
    <3>6. QED
      BY <1>0, <2>5, <3>4, <3>5, BooksWritten
  <2>8. BooksAgree'
    <3>1. ASSUME NEW o \in Txs, NEW i \in Ingredients, o # t PROVE Books(o, i)'
      BY <2>5, <2>6, <3>1, BooksKept DEF StockInv, BooksAgree
    <3> SUFFICES ASSUME NEW o \in Txs, NEW i \in Ingredients PROVE Books(o, i)'
      BY DEF BooksAgree
    <3>2. CASE o = t
      BY <2>7, <3>2
    <3>3. QED
      BY <3>1, <3>2
  <2>9. /\ pc'[t] = "done" /\ UNCHANGED call
        /\ \A u \in Txs : u # t => /\ pc'[u] = pc[u] /\ need'[u] = need[u]
                                   /\ held'[u] = held[u] /\ cas'[u] = cas[u]
    BY <1>0, <2>1 DEF Ends, StockInv, StockTypes
  <2>10. Returning'
    <3> SUFFICES ASSUME NEW u \in Txs, NEW o \in Txs, pc'[u] \in {"returning", "swapping"},
                        call'[u].order = o
                 PROVE  OrderRow(o) \in held'[u] /\ need'[u] = ToReturn(o)'
      BY DEF Returning, OrderRow
    <3>1. u # t /\ pc[u] \in {"returning", "swapping"} /\ call[u].order = o
      BY <2>9
    <3>2. orders[o] # NoOrder
      BY <3>1 DEF CheckoutInv, WorksOn
    <3>3. o # t
      BY <1>0, <3>2
    <3>4. ToReturn(o)' = ToReturn(o)
      BY <2>6, <3>3, UntouchedKept DEF StockInv
    <3>5. QED
      BY <2>9, <3>1, <3>4 DEF StockInv, Returning
  <2>11. Swapping'
    BY <2>9 DEF StockInv, Swapping
  <2>12. QED
    BY <2>3, <2>4, <2>8, <2>10, <2>11 DEF StockInv
<1>3. QED
  BY <1>1, <1>2

\* A reversal writes: nobody else is at one of the same order, which it holds.
LEMMA StockReverse ==
  ASSUME CheckoutInv, StockInv, NEW t \in Txs, Reverse(t)
  PROVE  StockInv'
<1>0. /\ pc \in [Txs -> Phases] /\ call \in [Txs -> Calls \cup {NoCall}]
      /\ pc[t] = "returning" /\ call[t] \in Calls /\ call[t].kind = "release"
  BY DEF Reverse, CheckoutInv, Typed, WorksOn
<1>1. PICK p : p = call[t].order
  OBVIOUS
<1>2. /\ p \in Txs /\ orders[p] # NoOrder /\ need[t] = ToReturn(p)
      /\ OrderRow(p) \in held[t]
  <2>1. p \in Txs
    BY <1>0, <1>1, CallTypes
  <2>2. orders[p] # NoOrder
    BY <1>0, <1>1 DEF CheckoutInv, WorksOn
  <2>3. QED
    BY <1>0, <1>1, <2>1, <2>2 DEF StockInv, Returning
<1>3. /\ Move(t, "REVERSAL", p, 1) /\ Ends(t, p)
      /\ orders' = [orders EXCEPT ![p].status = "cancelled"]
      /\ UNCHANGED <<known, onSale, recipe, clock>>
  BY <1>1 DEF Reverse
<1>4. \A i \in Ingredients : stock[i].qty + 1 * need[t][i] >= 0
  <2>1. \A i \in Ingredients : stock[i].qty \in Nat /\ need[t][i] \in Nat
    BY DEF StockInv, StockTypes
  <2>2. QED
    BY <2>1
<1>5. /\ stock' \in [Ingredients -> [qty : Nat, version : Nat]]
      /\ ledger' \in [Ingredients -> Seq(Movements)]
      /\ StockIsLedger'
      /\ \A i \in Ingredients :
            \/ need[t][i] = 0 /\ ledger'[i] = ledger[i]
            \/ /\ need[t][i] > 0
               /\ \E m \in Movements :
                     /\ ledger'[i] = Append(ledger[i], m)
                     /\ m.kind = "REVERSAL" /\ m.order = p /\ m.qty = 1 * need[t][i]
  BY <1>2, <1>3, <1>4, MoveStep
<1>6. StockTypes'
  <2>1. need' \in [Txs -> [Ingredients -> Nat]]
    BY <1>3 DEF Ends, StockInv, StockTypes, Nothing
  <2>2. cas' \in [Txs -> [row : Ingredients \cup {-1}, version : Nat, attempt : 0..3]]
    BY <1>3 DEF Ends, StockInv, StockTypes, NoCas
  <2>3. QED
    BY <1>3, <1>5, <2>1, <2>2 DEF Ends, StockInv, StockTypes
<1>7. /\ orders'[p] # NoOrder /\ orders'[p].status = "cancelled"
      /\ \A o \in Txs : o # p => orders'[o] = orders[o]
  <2>1. orders \in [Txs -> Orders \cup {NoOrder}] /\ orders[p] \in Orders
    BY <1>2 DEF CheckoutInv, Typed
  <2>2. orders'[p] = [orders[p] EXCEPT !.status = "cancelled"]
    BY <1>2, <1>3, <2>1
  <2>3. orders'[p] \in Orders /\ orders'[p].status = "cancelled"
    BY <2>1, <2>2 DEF Orders
  <2>4. \A r \in Orders : r # NoOrder
    BY DEF Orders, NoOrder
  <2>5. QED
    BY <1>3, <2>1, <2>3, <2>4
<1>8. ASSUME NEW o \in Txs, o # p PROVE Untouched(o)
  BY <1>5, <1>8 DEF Untouched
<1>9. ASSUME NEW i \in Ingredients PROVE Books(p, i)'
  <2>1. ledger[i] \in Seq(Movements) /\ need[t][i] \in Nat
    BY DEF StockInv, StockTypes
  <2>2. \A m, n \in Movements :
            ledger'[i] = Append(ledger[i], m) /\ ledger'[i] = Append(ledger[i], n) => m = n
    BY <2>1, MovedAppend
  <2>3. ledger'[i] = ledger[i] => \A m \in Movements : ledger'[i] # Append(ledger[i], m)
    <3>1. \A m \in Movements : Len(Append(ledger[i], m)) = Len(ledger[i]) + 1
      BY <2>1
    <3>2. Len(ledger[i]) # Len(ledger[i]) + 1
      BY <2>1
    <3>3. QED
      BY <3>1, <3>2
  <2>4. \A m \in Movements : ledger'[i] = Append(ledger[i], m) => m.kind = "REVERSAL"
    BY <1>5, <2>2, <2>3
  <2>5. 1 * need[t][i] = need[t][i]
    BY <2>1
  <2>6. \/ need[t][i] = 0 /\ ledger'[i] = ledger[i]
        \/ /\ need[t][i] > 0
           /\ \E m \in Movements :
                 /\ ledger'[i] = Append(ledger[i], m)
                 /\ m.order = p /\ m.kind = "REVERSAL" /\ m.qty = need[t][i]
    BY <1>5, <2>5
  <2>7. QED
    BY <1>2, <1>7, <2>4, <2>6, BooksWritten
<1>10. BooksAgree'
  <2>1. ASSUME NEW o \in Txs, NEW i \in Ingredients, o # p PROVE Books(o, i)'
    BY <1>7, <1>8, <2>1, BooksKept DEF StockInv, BooksAgree
  <2> SUFFICES ASSUME NEW o \in Txs, NEW i \in Ingredients PROVE Books(o, i)'
    BY DEF BooksAgree
  <2>2. CASE o = p
    BY <1>9, <2>2
  <2>3. QED
    BY <2>1, <2>2
<1>11. /\ pc'[t] = "done" /\ UNCHANGED call
       /\ \A u \in Txs : u # t => /\ pc'[u] = pc[u] /\ need'[u] = need[u]
                                  /\ held'[u] = held[u] /\ cas'[u] = cas[u]
  BY <1>0, <1>3 DEF Ends, StockInv, StockTypes
<1>12. Returning'
  <2> SUFFICES ASSUME NEW u \in Txs, NEW o \in Txs, pc'[u] \in {"returning", "swapping"},
                      call'[u].order = o
               PROVE  OrderRow(o) \in held'[u] /\ need'[u] = ToReturn(o)'
    BY DEF Returning, OrderRow
  <2>1. u # t /\ pc[u] \in {"returning", "swapping"} /\ call[u].order = o
    BY <1>11
  <2>2. OrderRow(o) \in held[u] /\ need[u] = ToReturn(o)
    BY <2>1 DEF StockInv, Returning
  <2>3. held[u] \cap held[t] = {}
    BY <2>1 DEF CheckoutInv, Exclusive
  <2>4. o # p
    BY <1>2, <2>2, <2>3
  <2>5. ToReturn(o)' = ToReturn(o)
    BY <1>8, <2>4, UntouchedKept DEF StockInv
  <2>6. QED
    BY <1>11, <2>1, <2>2, <2>5
<1>13. Swapping'
  BY <1>11 DEF StockInv, Swapping
<1>14. QED
  BY <1>5, <1>6, <1>10, <1>12, <1>13 DEF StockInv

\* Steps of no transaction: a payment, an edit, an adjustment.
LEMMA StockOther ==
  ASSUME CheckoutInv, StockInv,
         \/ \E o \in Txs : Pay(o)
         \/ EditCatalogue
         \/ \E i \in Ingredients, d \in Adjustments : AdjustStock(i, d)
         \/ UNCHANGED vars
  PROVE  StockInv'
<1>1. ASSUME UNCHANGED work, StockTypes', StockIsLedger', BooksAgree',
             \A o \in Txs : ToReturn(o)' = ToReturn(o)
      PROVE  StockInv'
  <2>1. Returning' /\ Swapping'
    BY <1>1 DEF work, StockInv, Returning, Swapping, OrderRow
  <2>2. QED
    BY <1>1, <2>1 DEF StockInv
<1>2. ASSUME NEW o \in Txs, Pay(o) PROVE StockInv'
  <2>1. orders \in [Txs -> Orders \cup {NoOrder}] /\ orders[o] \in Orders
    BY <1>2 DEF Pay, CheckoutInv, Typed
  <2>2. /\ orders' = [orders EXCEPT ![o].paid = TRUE]
        /\ UNCHANGED <<known, onSale, recipe, stock, ledger, clock>> /\ UNCHANGED work
    BY <1>2 DEF Pay
  <2>3. orders'[o] = [orders[o] EXCEPT !.paid = TRUE]
    BY <2>1, <2>2
  <2>4. orders'[o] \in Orders /\ orders'[o].status = orders[o].status
    BY <2>1, <2>3 DEF Orders
  <2>5. \A r \in Orders : r # NoOrder
    BY DEF Orders, NoOrder
  <2>6. \A p \in Txs : /\ (orders'[p] = NoOrder) = (orders[p] = NoOrder)
                       /\ orders[p] # NoOrder =>
                             (orders'[p].status = "cancelled") = (orders[p].status = "cancelled")
    BY <2>1, <2>2, <2>4, <2>5
  <2>7. StockTypes'
    BY <2>2 DEF work, StockInv, StockTypes
  <2>8. QED
    BY <1>1, <2>2, <2>6, <2>7, QuietBooks
<1>3. CASE EditCatalogue \/ UNCHANGED vars
  <2>1. UNCHANGED <<stock, ledger, orders>> /\ UNCHANGED work
    BY <1>3 DEF EditCatalogue, vars, work
  <2>2. StockTypes'
    <3>1. clock' \in Nat /\ recipe' \in Recipes /\ onSale' \in BOOLEAN /\ known' = known
      <4>1. CASE UNCHANGED vars
        BY <4>1 DEF vars, StockInv, StockTypes
      <4>2. CASE EditCatalogue
        <5>1. onSale \in BOOLEAN /\ recipe \in Recipes /\ clock \in Nat
          BY DEF StockInv, StockTypes
        <5>2. clock' \in Nat /\ known' = known
          BY <4>2, <5>1 DEF EditCatalogue
        <5>3. recipe' \in Recipes /\ onSale' \in BOOLEAN
          BY <4>2, <5>1 DEF EditCatalogue
        <5>4. QED
          BY <5>2, <5>3
      <4>3. QED
        BY <1>3, <4>1, <4>2
    <3>2. QED
      BY <2>1, <3>1 DEF work, StockInv, StockTypes
  <2>3. QED
    BY <1>1, <2>1, <2>2, QuietBooks
<1>4. ASSUME NEW i \in Ingredients, NEW d \in Adjustments, AdjustStock(i, d) PROVE StockInv'
  <2> DEFINE m == [kind |-> "ADJUSTMENT", order |-> "none", qty |-> d, at |-> clock]
             row == [qty |-> Stored(stock[i].qty + d), version |-> stock[i].version + 1]
  <2>1. /\ stock' = [stock EXCEPT ![i] = row] /\ ledger' = [ledger EXCEPT ![i] = Append(@, m)]
        /\ stock[i].qty + d >= 0 /\ clock' = clock + 1
        /\ UNCHANGED <<known, onSale, recipe, orders>> /\ UNCHANGED work
    BY <1>4 DEF AdjustStock, StockInv, StockTypes
  <2>2. d \in Int /\ clock \in Nat /\ stock[i].qty \in Nat /\ stock[i].version \in Nat
        /\ ledger[i] \in Seq(Movements)
        /\ Balance(ledger[i]) = stock[i].qty /\ ~Overdrawn(ledger[i])
    BY CheckoutAssumption DEF StockInv, StockTypes, StockIsLedger
  <2>3. m \in Movements /\ m.qty = d /\ m.kind \notin {"ORDER", "REVERSAL"}
    BY <2>2 DEF Movements
  <2>4. row \in [qty : Nat, version : Nat] /\ row.qty = Stored(stock[i].qty + d)
    <3> PICK q \in Int : q = stock[i].qty + d
      BY <2>2
    <3>1. Stored(q) \in Nat
      BY <2>1, StoredNat
    <3>2. QED
      BY <2>2, <3>1
  <2> HIDE DEF m, row
  <2>5. /\ Append(ledger[i], m) \in Seq(Movements)
        /\ Balance(Append(ledger[i], m)) = Stored(stock[i].qty + d)
        /\ ~Overdrawn(Append(ledger[i], m))
    <3>1. stock[i].qty \in Int /\ stock[i].qty + m.qty >= 0
      BY <2>1, <2>2, <2>3
    <3>2. QED
      BY <2>2, <2>3, <3>1, LedgerAppended
  <2>6. \A j \in Ingredients :
           /\ j = i => stock'[j] = row /\ ledger'[j] = Append(ledger[i], m)
           /\ j # i => stock'[j] = stock[j] /\ ledger'[j] = ledger[j]
    BY <2>1 DEF StockInv, StockTypes
  <2>7. StockTypes'
    <3>1. stock' \in [Ingredients -> [qty : Nat, version : Nat]] /\ ledger' \in [Ingredients -> Seq(Movements)]
      BY <2>1, <2>4, <2>5 DEF StockInv, StockTypes
    <3>2. clock' \in Nat
      BY <2>1, <2>2
    <3>3. QED
      BY <2>1, <3>1, <3>2 DEF work, StockInv, StockTypes
  <2>8. StockIsLedger'
    BY <2>4, <2>5, <2>6 DEF StockInv, StockIsLedger
  <2>9. ASSUME NEW o PROVE Untouched(o)
    BY <2>3, <2>6 DEF Untouched
  <2>10. BooksAgree'
    BY <2>1, <2>9, BooksKept DEF StockInv, BooksAgree
  <2>11. \A o : ToReturn(o)' = ToReturn(o)
    BY <2>9, UntouchedKept DEF StockInv
  <2>12. QED
    BY <1>1, <2>1, <2>7, <2>8, <2>10, <2>11
<1>5. QED
  BY <1>2, <1>3, <1>4

\* An opening balance is in the ledger, and nothing else.
LEMMA StockInit == Init => StockInv
<1> SUFFICES ASSUME Init PROVE StockInv
  OBVIOUS
<1> DEFINE m == [kind |-> "OPENING_BALANCE", order |-> "none", qty |-> 2 * Opening, at |-> 0]
<1>1. 2 * Opening \in Nat
  BY CheckoutAssumption
<1>2. m \in Movements /\ m.qty = 2 * Opening /\ m.kind \notin {"ORDER", "REVERSAL"}
  BY <1>1 DEF Movements
<1>3. /\ stock = [i \in Ingredients |-> [qty |-> 2 * Opening, version |-> 0]]
      /\ ledger = [i \in Ingredients |-> <<m>>]
  BY DEF Init
<1> HIDE DEF m
<1>4. /\ <<m>> \in Seq(Movements) /\ Balance(<<m>>) = 2 * Opening /\ ~Overdrawn(<<m>>)
  <2>1. <<>> \in Seq(Movements) /\ Append(<<>>, m) = <<m>>
    OBVIOUS
  <2>2. Balance(<<>>) = 0 /\ ~Overdrawn(<<>>)
    BY BalanceNone
  <2>3. 0 \in Int /\ 0 + m.qty >= 0 /\ 0 + m.qty = 2 * Opening
    BY <1>1, <1>2
  <2>4. /\ <<m>> \in Seq(Movements) /\ Balance(<<m>>) = Stored(2 * Opening) /\ ~Overdrawn(<<m>>)
    <3> PICK s \in Seq(Movements) : s = <<>>
      BY <2>1
    <3> PICK q \in Int : q = 0
      OBVIOUS
    <3>1. Balance(s) = q /\ ~Overdrawn(s) /\ q + m.qty >= 0
      BY <2>2, <2>3
    <3>2. /\ Append(s, m) \in Seq(Movements)
          /\ Balance(Append(s, m)) = Stored(q + m.qty)
          /\ ~Overdrawn(Append(s, m))
      BY <1>2, <3>1, LedgerAppended
    <3>3. Append(s, m) = <<m>> /\ q + m.qty = 2 * Opening
      BY <2>1, <2>3
    <3>4. QED
      BY <3>2, <3>3
  <2>5. Stored(2 * Opening) = 2 * Opening
    BY CheckoutAssumption DEF Stored
  <2>6. QED
    BY <2>4, <2>5
<1>5. StockTypes
  <2>1. need \in [Txs -> [Ingredients -> Nat]]
    BY DEF Init, Nothing
  <2>2. cas \in [Txs -> [row : Ingredients \cup {-1}, version : Nat, attempt : 0..3]]
    BY DEF Init, NoCas
  <2>3. stock \in [Ingredients -> [qty : Nat, version : Nat]] /\ ledger \in [Ingredients -> Seq(Movements)]
    BY <1>1, <1>3, <1>4
  <2>4. QED
    BY <2>1, <2>2, <2>3 DEF Init, StockTypes
<1>6. StockIsLedger
  BY <1>3, <1>4 DEF StockIsLedger
<1>7. BooksAgree
  <2>1. \A o \in Txs, i \in Ingredients, kind \in {"ORDER", "REVERSAL"} : MovedFor(o, kind, i) = {}
    BY <1>2, <1>3 DEF MovedFor
  <2>2. \A o \in Txs : orders[o] = NoOrder
    BY DEF Init
  <2>3. QED
    BY <2>1, <2>2 DEF BooksAgree, Books
<1>8. Returning /\ Swapping
  BY DEF Init, Returning, Swapping
<1>9. QED
  BY <1>5, <1>6, <1>7, <1>8 DEF StockInv

\* Every step keeps it, given the invariant of the locks.
LEMMA StockStep == CheckoutInv /\ StockInv /\ [Next]_vars => StockInv'
<1> SUFFICES ASSUME CheckoutInv, StockInv, [Next]_vars PROVE StockInv'
  OBVIOUS
<1>1. ASSUME NEW t \in Txs, NEW c \in Requests, Begin(t, c) PROVE StockInv'
  BY <1>1, StockBegin
<1>2. ASSUME NEW t \in Txs,
             Resolve(t) \/ LockCustomer(t) \/ CheckRequest(t) \/ ReadCatalogue(t) \/ LockStock(t)
      PROVE  StockInv'
  BY <1>2, StockRequest
<1>3. ASSUME NEW t \in Txs, PlaceOrder(t) PROVE StockInv'
  BY <1>3, StockPlace
<1>4. ASSUME NEW t \in Txs,
             StartReversal(t) \/ (\E i \in Ingredients : ReadVersion(t, i)) \/ CompareAndSwap(t)
      PROVE  StockInv'
  BY <1>4, StockRelease
<1>5. ASSUME NEW t \in Txs, Reverse(t) PROVE StockInv'
  BY <1>5, StockReverse
<1>6. ASSUME NEW t \in Txs, DeadlockVictim(t) \/ Crash(t) PROVE StockInv'
  BY <1>6, StockRollback DEF DeadlockVictim, Crash
<1>7. CASE (\E o \in Txs : Pay(o)) \/ EditCatalogue \/ UNCHANGED vars
           \/ \E i \in Ingredients, d \in Adjustments : AdjustStock(i, d)
  BY <1>7, StockOther
<1>8. QED
  BY <1>1, <1>2, <1>3, <1>4, <1>5, <1>6, <1>7 DEF Next, Advance

\* The invariant of stock, ledger and reversals.
THEOREM StockInvariant == Spec => []StockInv
<1>1. Init => StockInv
  BY StockInit
<1>2. CheckoutInv /\ StockInv /\ [Next]_vars => StockInv'
  BY StockStep
<1>3. QED
  BY <1>1, <1>2, CheckoutInvariant, PTL DEF Spec

\* Every variable keeps its type; in particular no stock row goes below nothing,
\* and a version is compared at most three times.
THEOREM CheckoutTypes == Spec => []TypeOK
<1>1. CheckoutInv /\ StockInv => TypeOK
  <2> SUFFICES ASSUME CheckoutInv, StockInv PROVE TypeOK
    OBVIOUS
  <2>1. \A i \in Ingredients : \A n \in DOMAIN ledger[i] : ledger[i][n] \in Movements
    BY DEF StockInv, StockTypes
  <2>2. /\ orders \in [Txs -> Orders \cup {NoOrder}] /\ call \in [Txs -> Calls \cup {NoCall}]
        /\ pc \in [Txs -> Phases]
        /\ answer \in [Txs -> Txs \cup {"none", "refused", "failed"}]
    BY DEF CheckoutInv, Typed
  <2>3. QED
    BY <2>1, <2>2 DEF StockInv, StockTypes, TypeOK, Movements
<1>2. QED
  BY <1>1, CheckoutInvariant, StockInvariant, PTL

\* The movements of an ingredient, replayed in the order of their commits, come
\* to what its row holds and never overdraw it (_validate_stock_ledger), however
\* many checkouts, reversals and adjustments race for it.
THEOREM StockFollowsLedger == Spec => []StockIsLedger
<1>1. StockInv => StockIsLedger
  BY DEF StockInv
<1>2. QED
  BY <1>1, StockInvariant, PTL

\* A cancelled order gave back exactly what it took, of each ingredient and once;
\* one that stands gave back nothing (_rollback_order_stock).
THEOREM GivenBackOnce == Spec => []ReturnedWhole
<1>1. StockInv => ReturnedWhole
  <2> SUFFICES ASSUME StockInv, NEW o \in Txs, NEW i \in Ingredients
               PROVE  LET taken == MovedFor(o, "ORDER", i)
                          back == MovedFor(o, "REVERSAL", i)
                      IN IF orders[o] # NoOrder /\ orders[o].status = "cancelled"
                         THEN /\ Cardinality(back) = Cardinality(taken)
                              /\ \A m \in taken, n \in back : ledger[i][n].qty = -ledger[i][m].qty
                         ELSE back = {}
    BY DEF ReturnedWhole
  <2> DEFINE taken == MovedFor(o, "ORDER", i)
             back == MovedFor(o, "REVERSAL", i)
  <2>1. /\ \A m, n \in taken : m = n
        /\ \A m, n \in back : m = n
        /\ IF orders[o] # NoOrder /\ orders[o].status = "cancelled"
           THEN /\ taken = {} <=> back = {}
                /\ \A m \in taken, n \in back : ledger[i][n].qty = -ledger[i][m].qty
           ELSE back = {}
    BY DEF StockInv, BooksAgree, Books
  <2> HIDE DEF taken, back
  <2>2. (taken = {} <=> back = {}) => Cardinality(back) = Cardinality(taken)
    <3>1. CASE taken = {} /\ back = {}
      BY <3>1
    <3>2. CASE taken # {} /\ back # {}
      <4>1. PICK m, n : taken = {m} /\ back = {n}
        BY <2>1, <3>2
      <4>2. QED
        BY <4>1, FS_Singleton
    <3>3. QED
      BY <3>1, <3>2
  <2>3. QED
    BY <2>1, <2>2 DEF taken, back
<1>2. QED
  BY <1>1, StockInvariant, PTL
===============================================================================
