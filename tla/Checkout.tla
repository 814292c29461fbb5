------------------------------- MODULE Checkout -------------------------------
(***************************************************************************)
(* Orders being placed and given up, as concurrent database transactions:   *)
(* create_new_order (chatbot), create_buyer_order (web),                    *)
(* create_custom_order (seller) and the stock reversal that a cancellation  *)
(* or a refund makes. Each takes its row locks one at a time and holds them *)
(* to its end; what it wrote is seen by others when it commits, never if it *)
(* is rolled back (PostgreSQL, READ COMMITTED). A server may die at any     *)
(* point. Payments, recipe edits, stock adjustments go on meanwhile.        *)
(*                                                                         *)
(* Quantities are in units of 0.005: a stock row (NUMERIC(10,2)) holds even *)
(* numbers only, recipes and movements (four decimals) odd ones too.        *)
(*                                                                         *)
(* A definition whose name ends in _Faulty... is a deliberately wrong       *)
(* variant of the one that follows it; no action uses it.                   *)
(***************************************************************************)
EXTENDS Integers, FiniteSets, Sequences

CONSTANTS Txs,          \* transactions, each used once; an order is named by its own
          Customers, Buyers,
          CustomerOf,   \* the customer record of a buyer's phone number
          Keys, NoKey,  \* Idempotency-Key values, and their absence
          Portions,     \* the quantities ordered
          Requests,     \* the requests that come
          Ingredients,  \* ids of stock rows
          Recipes,      \* the recipes the product may get: need per portion
          Accessories,  \* accessory quantities of a seller's order
          Opening,      \* bound: stock at the start, per ingredient
          Adjustments,  \* the stock adjustments made
          MaxClock      \* bound: transactions begun, edits and adjustments counted

ASSUME CheckoutAssumption ==
    /\ {"none", "refused", "failed"} \cap Txs = {} /\ NoKey \notin Keys
    /\ CustomerOf \in [Buyers -> Customers]
    /\ Portions \subseteq Nat \ {0}
    /\ Ingredients \subseteq Nat /\ IsFiniteSet(Ingredients)
    /\ Recipes \subseteq [Ingredients -> Nat]
    /\ Accessories \subseteq [Ingredients -> Nat]
    /\ Opening \in Nat /\ Adjustments \subseteq Int \ {0} /\ MaxClock \in Nat

NoOrder == [status |-> "none"]
NoCall == [kind |-> "none"]
Nothing == [i \in Ingredients |-> 0]

ChatbotCalls == [kind : {"chatbot"}, customer : Customers, key : Keys \cup {NoKey},
                 qty : Portions, extra : {Nothing}]
BuyerCalls == [kind : {"buyer"}, buyer : Buyers, key : Keys \cup {NoKey},
               qty : Portions, extra : {Nothing}]
SellerCalls == [kind : {"seller"}, customer : Customers, key : {NoKey},
                qty : Portions, extra : Accessories]
Releases == [kind : {"release"}, order : Txs]
Calls == ChatbotCalls \cup BuyerCalls \cup SellerCalls \cup Releases

ASSUME RequestAssumption == Requests \subseteq Calls

Orders == [status : {"pending", "cancelled"}, paid : BOOLEAN, customer : Customers,
           scope : [by : {"customer"}, id : Customers] \cup [by : {"buyer"}, id : Buyers],
           key : Keys \cup {NoKey}, qty : Portions]

Phases == {"idle", "begun", "resolved", "locked", "clear", "priced",
           "returning", "swapping", "done"}

VARIABLES known,   \* customers that have a row
          onSale,  \* the product is active, available, priced, has a recipe
          recipe,  \* the product's recipe
          stock,   \* stock_items: quantity and version
          ledger,  \* stock_movements of each ingredient, as committed
          orders,  \* order, by the transaction that placed it
          clock,   \* transactions begun so far; movements carry it as created_at
          call,    \* what each transaction was asked
          pc,      \* where it stands
          held,    \* its row locks
          saw,     \* it found a row of its customer
          need,    \* what it takes from each stock row, or gives back
          todo,    \* stock rows it still has to lock
          cas,     \* reversal: the row at hand, the version expected, the attempt
          began,   \* the clock when it began
          answer   \* the order it answered with

data == <<known, onSale, recipe, stock, ledger, orders, clock>>
work == <<call, pc, held, saw, need, todo, cas, began, answer>>
vars == <<known, onSale, recipe, stock, ledger, orders, clock,
          call, pc, held, saw, need, todo, cas, began, answer>>

NoCas == [row |-> -1, version |-> 0, attempt |-> 0]

Init ==
    /\ known \in SUBSET Customers
    /\ onSale = TRUE
    /\ recipe \in Recipes
    /\ stock = [i \in Ingredients |-> [qty |-> 2 * Opening, version |-> 0]]
    /\ ledger = [i \in Ingredients |->
            <<[kind |-> "OPENING_BALANCE", order |-> "none", qty |-> 2 * Opening, at |-> 0]>>]
    /\ orders = [t \in Txs |-> NoOrder]
    /\ clock = 1
    /\ call = [t \in Txs |-> NoCall]
    /\ pc = [t \in Txs |-> "idle"]
    /\ held = [t \in Txs |-> {}]
    /\ saw = [t \in Txs |-> FALSE]
    /\ need = [t \in Txs |-> Nothing]
    /\ todo = [t \in Txs |-> {}]
    /\ cas = [t \in Txs |-> NoCas]
    /\ began = [t \in Txs |-> 0]
    /\ answer = [t \in Txs |-> "none"]

-------------------------------------------------------------------------------
(* Locks, and the end of a transaction.                                    *)

CustomerRow(c) == [table |-> "customers", id |-> c]
BuyerRow(b) == [table |-> "buyers", id |-> b]
StockRow(i) == [table |-> "stock_items", id |-> i]
OrderRow(o) == [table |-> "orders", id |-> o]

Rows == {CustomerRow(c) : c \in Customers} \cup {BuyerRow(b) : b \in Buyers}
            \cup {StockRow(i) : i \in Ingredients} \cup {OrderRow(o) : o \in Txs}

Unlocked(row) == \A t \in Txs : row \notin held[t]

Places(t) == call[t].kind \in {"chatbot", "buyer", "seller"}
Party(t) == IF call[t].kind = "buyer" THEN CustomerOf[call[t].buyer] ELSE call[t].customer
Scope(t) == IF call[t].kind = "buyer" THEN [by |-> "buyer", id |-> call[t].buyer]
                                      ELSE [by |-> "customer", id |-> call[t].customer]

Smallest(S) == CHOOSE i \in S : \A j \in S : i <= j

\* The rows t asks for next: none, or one.
Wanted(t) ==
    CASE pc[t] = "begun" /\ call[t].kind = "buyer"   -> {BuyerRow(call[t].buyer)}
      [] pc[t] = "begun" /\ call[t].kind = "release" -> {OrderRow(call[t].order)}
      [] pc[t] = "resolved"                          -> {CustomerRow(Party(t))}
      [] pc[t] = "priced" /\ todo[t] # {}            -> {StockRow(Smallest(todo[t]))}
      [] pc[t] = "swapping"                          -> {StockRow(cas[t].row)}
      [] OTHER                                       -> {}

WaitsFor(t, u) == t # u /\ Wanted(t) \cap held[u] # {}

\* A cycle of waits: each in S waits for another of S, and is waited for.
Deadlocked(S) ==
    /\ S # {}
    /\ \A t \in S : \E u \in S : WaitsFor(t, u)
    /\ \A u \in S : \E t \in S : WaitsFor(t, u)

\* The transaction ends, by commit or rollback: its locks go.
Ends_FaultyKeepsLocks(t, how) ==
    /\ pc' = [pc EXCEPT ![t] = "done"]
    /\ answer' = [answer EXCEPT ![t] = how]
    /\ saw' = [saw EXCEPT ![t] = FALSE]
    /\ need' = [need EXCEPT ![t] = Nothing]
    /\ todo' = [todo EXCEPT ![t] = {}]
    /\ cas' = [cas EXCEPT ![t] = NoCas]
    /\ began' = [began EXCEPT ![t] = 0]
    /\ UNCHANGED <<call, held>>

Ends(t, how) ==
    /\ pc' = [pc EXCEPT ![t] = "done"]
    /\ held' = [held EXCEPT ![t] = {}]
    /\ answer' = [answer EXCEPT ![t] = how]
    /\ saw' = [saw EXCEPT ![t] = FALSE]
    /\ need' = [need EXCEPT ![t] = Nothing]
    /\ todo' = [todo EXCEPT ![t] = {}]
    /\ cas' = [cas EXCEPT ![t] = NoCas]
    /\ began' = [began EXCEPT ![t] = 0]
    /\ UNCHANGED call

Rollback(t, how) == Ends(t, how) /\ UNCHANGED data

\* PostgreSQL breaks a cycle by failing one of its members (an error 500).
DeadlockVictim(t) ==
    /\ \E S \in SUBSET Txs : t \in S /\ Deadlocked(S)
    /\ Rollback(t, "failed")

\* The server process dies, or its connection does.
Crash(t) ==
    /\ pc[t] \notin {"idle", "done"}
    /\ Rollback(t, "failed")

Begin(t, c) ==
    /\ pc[t] = "idle" /\ clock < MaxClock
    /\ c.kind = "chatbot" => c.customer \in known
    /\ c.kind = "release" => orders[c.order] # NoOrder
    /\ pc' = [pc EXCEPT ![t] = "begun"]
    /\ call' = [call EXCEPT ![t] = c]
    /\ began' = [began EXCEPT ![t] = clock]
    /\ clock' = clock + 1
    /\ UNCHANGED <<known, onSale, recipe, stock, ledger, orders, held, saw, need, todo, cas, answer>>

-------------------------------------------------------------------------------
(* Placing an order.                                                       *)

\* create_buyer_order locks the buyer row; get_or_create_customer_for_buyer and
\* customer_repo.upsert look the customer up by phone number.
Resolve(t) ==
    /\ pc[t] = "begun" /\ Places(t)
    /\ \A row \in Wanted(t) : Unlocked(row)
    /\ held' = [held EXCEPT ![t] = @ \cup Wanted(t)]
    /\ saw' = [saw EXCEPT ![t] = Party(t) \in known]
    /\ pc' = [pc EXCEPT ![t] = "resolved"]
    /\ UNCHANGED <<call, need, todo, cas, began, answer>> /\ UNCHANGED data

\* lock_customer_for_order_creation; for a customer not found before, the
\* insert, which waits for another insert of the number and then fails.
LockCustomer(t) ==
    /\ pc[t] = "resolved"
    /\ Unlocked(CustomerRow(Party(t)))
    /\ IF ~saw[t] /\ Party(t) \in known
       THEN Rollback(t, "failed")
       ELSE /\ held' = [held EXCEPT ![t] = @ \cup {CustomerRow(Party(t))}]
            /\ pc' = [pc EXCEPT ![t] = "locked"]
            /\ UNCHANGED <<call, saw, need, todo, cas, began, answer>> /\ UNCHANGED data

\* The earlier orders that carry the request's key, in its scope.
Previous_FaultyStanding(t) ==
    {o \in Txs : /\ orders[o] # NoOrder /\ orders[o].status = "pending"
                 /\ call[t].key # NoKey
                 /\ orders[o].key = call[t].key /\ orders[o].scope = Scope(t)}

Previous(t) ==
    {o \in Txs : /\ orders[o] # NoOrder /\ call[t].key # NoKey
                 /\ orders[o].key = call[t].key /\ orders[o].scope = Scope(t)}

\* check_active_unpaid_order: of the states modelled, a pending order whose
\* invoice is not paid.
IsOpen(o) == orders[o].status = "pending" /\ ~orders[o].paid
HasOpenOrder_FaultyOwnChannel(t) ==
    \E o \in Txs : orders[o] # NoOrder /\ orders[o].scope = Scope(t) /\ IsOpen(o)
HasOpenOrder(t) ==
    \E o \in Txs : orders[o] # NoOrder /\ orders[o].customer = Party(t) /\ IsOpen(o)

\* A repeated key is answered with the order it placed, whatever became of it;
\* used for another request, or with a bill open, it is refused.
CheckRequest_FaultyAnyBody(t) ==
    /\ pc[t] = "locked"
    /\ IF Previous(t) # {}
       THEN \E o \in Previous(t) : Rollback(t, o)
       ELSE IF HasOpenOrder(t)
       THEN Rollback(t, "refused")
       ELSE /\ pc' = [pc EXCEPT ![t] = "clear"]
            /\ UNCHANGED <<call, held, saw, need, todo, cas, began, answer>> /\ UNCHANGED data

CheckRequest(t) ==
    /\ pc[t] = "locked"
    /\ IF \E o \in Previous(t) : orders[o].qty # call[t].qty
       THEN Rollback(t, "refused")
       ELSE IF Previous(t) # {}
       THEN \E o \in Previous(t) : Rollback(t, o)
       ELSE IF HasOpenOrder(t)
       THEN Rollback(t, "refused")
       ELSE /\ pc' = [pc EXCEPT ![t] = "clear"]
            /\ UNCHANGED <<call, held, saw, need, todo, cas, began, answer>> /\ UNCHANGED data

\* The product and its recipe are read without a lock; an accessory is asked
\* for by quantity. Nothing is written yet.
ReadCatalogue(t) ==
    /\ pc[t] = "clear"
    /\ IF ~onSale
       THEN Rollback(t, "refused")
       ELSE /\ need' = [need EXCEPT ![t] =
                  [i \in Ingredients |-> call[t].qty * recipe[i] + call[t].extra[i]]]
            /\ todo' = [todo EXCEPT ![t] = {i \in Ingredients : need'[t][i] > 0}]
            /\ pc' = [pc EXCEPT ![t] = "priced"]
            /\ UNCHANGED <<call, held, saw, cas, began, answer>> /\ UNCHANGED data

\* SELECT ... ORDER BY id FOR UPDATE.
LockStock(t) ==
    /\ pc[t] = "priced" /\ todo[t] # {}
    /\ LET i == Smallest(todo[t])
       IN /\ Unlocked(StockRow(i))
          /\ held' = [held EXCEPT ![t] = @ \cup {StockRow(i)}]
          /\ todo' = [todo EXCEPT ![t] = @ \ {i}]
    /\ UNCHANGED <<call, pc, saw, need, cas, began, answer>> /\ UNCHANGED data

\* What a NUMERIC(10,2) column makes of a quantity: half a hundredth goes up.
Stored(q) == 2 * ((q + 1) \div 2)

Move(t, kind, order, sign) ==
    /\ stock' = [i \in Ingredients |->
            IF need[t][i] = 0 THEN stock[i]
            ELSE [qty |-> Stored(stock[i].qty + sign * need[t][i]), version |-> stock[i].version + 1]]
    /\ ledger' = [i \in Ingredients |->
            IF need[t][i] = 0 THEN ledger[i]
            ELSE Append(ledger[i], [kind |-> kind, order |-> order,
                                    qty |-> sign * need[t][i], at |-> began[t]])]

Sufficient_FaultyFirstOnly(t) ==
    LET taken == {i \in Ingredients : need[t][i] > 0}
    IN stock[Smallest(taken)].qty >= need[t][Smallest(taken)]

Sufficient(t) == \A i \in Ingredients : stock[i].qty >= need[t][i]

\* The locked rows are checked, then deducted; order, movements, items, invoice
\* are written, and all of it is committed. Notification and e-mail rows, in
\* savepoints of their own, are left out.
PlaceOrder(t) ==
    /\ pc[t] = "priced" /\ todo[t] = {}
    /\ IF ~Sufficient(t)
       THEN Rollback(t, "refused")
       ELSE /\ Move(t, "ORDER", t, -1)
            /\ orders' = [orders EXCEPT ![t] =
                  [status |-> "pending", paid |-> FALSE, customer |-> Party(t),
                   scope |-> Scope(t), key |-> call[t].key, qty |-> call[t].qty]]
            /\ known' = known \cup {Party(t)}
            /\ Ends(t, t)
            /\ UNCHANGED <<onSale, recipe, clock>>

-------------------------------------------------------------------------------
(* _rollback_order_stock, for a cancellation or a refund of an order.       *)

MovedFor(o, kind, i) ==
    {n \in DOMAIN ledger[i] : ledger[i][n].kind = kind /\ ledger[i][n].order = o}

AlreadyReversed(o) == \E i \in Ingredients : MovedFor(o, "REVERSAL", i) # {}

\* An order has at most one ORDER movement per ingredient.
Consumed_FaultyCurrentRecipe(o, i) == orders[o].qty * recipe[i]
Consumed(o, i) ==
    IF MovedFor(o, "ORDER", i) = {} THEN 0
    ELSE -ledger[i][CHOOSE n \in MovedFor(o, "ORDER", i) : TRUE].qty

\* A cancelled order is left alone unless it was paid: then the call is a
\* (further) refund, which comes to the reversal again.
StartReversal(t) ==
    LET o == call[t].order
    IN /\ pc[t] = "begun" /\ call[t].kind = "release"
       /\ Unlocked(OrderRow(o))
       /\ IF orders[o].status = "cancelled" /\ ~orders[o].paid
          THEN Rollback(t, o)
          ELSE /\ held' = [held EXCEPT ![t] = @ \cup {OrderRow(o)}]
               /\ need' = [need EXCEPT ![t] =
                     IF AlreadyReversed(o) THEN Nothing
                     ELSE [i \in Ingredients |-> Consumed(o, i)]]
               /\ todo' = [todo EXCEPT ![t] = {i \in Ingredients : need'[t][i] > 0}]
               /\ pc' = [pc EXCEPT ![t] = "returning"]
               /\ UNCHANGED <<call, saw, cas, began, answer>> /\ UNCHANGED data

\* The rows come in the order of the GROUP BY, which is any order. The stock row
\* is read without a lock.
ReadVersion(t, i) ==
    /\ pc[t] = "returning" /\ i \in todo[t]
    /\ cas' = [cas EXCEPT ![t] = [row |-> i, version |-> stock[i].version, attempt |-> 1]]
    /\ pc' = [pc EXCEPT ![t] = "swapping"]
    /\ UNCHANGED <<call, held, saw, need, todo, began, answer>> /\ UNCHANGED data

\* UPDATE ... WHERE version = the one read. After a miss the session keeps the
\* row it has, with the version its own statement computed: one more than before.
CompareAndSwap(t) ==
    LET c == cas[t]
    IN /\ pc[t] = "swapping"
       /\ Unlocked(StockRow(c.row))
       /\ IF stock[c.row].version = c.version
          THEN /\ held' = [held EXCEPT ![t] = @ \cup {StockRow(c.row)}]
               /\ todo' = [todo EXCEPT ![t] = @ \ {c.row}]
               /\ pc' = [pc EXCEPT ![t] = "returning"]
               /\ UNCHANGED <<call, saw, need, cas, began, answer>> /\ UNCHANGED data
          ELSE IF c.attempt < 3
          THEN /\ cas' = [cas EXCEPT ![t] = [c EXCEPT !.version = @ + 1, !.attempt = @ + 1]]
               /\ UNCHANGED <<call, pc, held, saw, need, todo, began, answer>> /\ UNCHANGED data
          ELSE Rollback(t, "failed")

\* The caller's commit: movements, stock and the order's status together.
Reverse(t) ==
    /\ pc[t] = "returning" /\ todo[t] = {}
    /\ Move(t, "REVERSAL", call[t].order, 1)
    /\ orders' = [orders EXCEPT ![call[t].order].status = "cancelled"]
    /\ Ends(t, call[t].order)
    /\ UNCHANGED <<known, onSale, recipe, clock>>

-------------------------------------------------------------------------------
(* The rest of the system, a transaction at a time.                        *)

\* A settlement of the whole bill, under the order's lock (OrderPayment).
Pay(o) ==
    /\ orders[o] # NoOrder /\ IsOpen(o) /\ Unlocked(OrderRow(o))
    /\ orders' = [orders EXCEPT ![o].paid = TRUE]
    /\ UNCHANGED <<known, onSale, recipe, stock, ledger, clock>> /\ UNCHANGED work

\* Recipe and product edits (Purchasing models their effect on prices).
EditCatalogue ==
    /\ clock < MaxClock
    /\ \/ recipe' \in Recipes \ {recipe} /\ UNCHANGED onSale
       \/ onSale' = ~onSale /\ UNCHANGED recipe
    /\ clock' = clock + 1
    /\ UNCHANGED <<known, stock, ledger, orders>> /\ UNCHANGED work

\* adjust_stock: one row, locked from its read to the commit.
AdjustStock(i, d) ==
    /\ clock < MaxClock
    /\ Unlocked(StockRow(i))
    /\ stock[i].qty + d >= 0
    /\ stock' = [stock EXCEPT ![i] = [qty |-> Stored(@.qty + d), version |-> @.version + 1]]
    /\ ledger' = [ledger EXCEPT ![i] =
            Append(@, [kind |-> "ADJUSTMENT", order |-> "none", qty |-> d, at |-> clock])]
    /\ clock' = clock + 1
    /\ UNCHANGED <<known, onSale, recipe, orders>> /\ UNCHANGED work

Advance(t) ==
    \/ Resolve(t) \/ LockCustomer(t) \/ CheckRequest(t) \/ ReadCatalogue(t)
    \/ LockStock(t) \/ PlaceOrder(t)
    \/ StartReversal(t) \/ (\E i \in Ingredients : ReadVersion(t, i))
    \/ CompareAndSwap(t) \/ Reverse(t)
    \/ DeadlockVictim(t)

Next ==
    \/ \E t \in Txs : (\E c \in Requests : Begin(t, c)) \/ Advance(t) \/ Crash(t)
    \/ \E o \in Txs : Pay(o)
    \/ \E i \in Ingredients, d \in Adjustments : AdjustStock(i, d)
    \/ EditCatalogue

Spec == Init /\ [][Next]_vars

\* The server runs every request it has begun to its end, and PostgreSQL's
\* deadlock detector runs; a lock that is free goes to one that waits.
Fairness == \A t \in Txs : WF_vars(Advance(t))
FairSpec == Spec /\ Fairness

-------------------------------------------------------------------------------
(* Properties.                                                             *)

TypeOK ==
    /\ known \subseteq Customers /\ onSale \in BOOLEAN /\ recipe \in Recipes
    /\ stock \in [Ingredients -> [qty : Nat, version : Nat]]
    /\ \A i \in Ingredients : \A n \in DOMAIN ledger[i] :
          ledger[i][n] \in [kind : {"OPENING_BALANCE", "ORDER", "REVERSAL", "ADJUSTMENT"},
                            order : Txs \cup {"none"}, qty : Int, at : Nat]
    /\ orders \in [Txs -> Orders \cup {NoOrder}]
    /\ clock \in Nat /\ began \in [Txs -> Nat]
    /\ call \in [Txs -> Calls \cup {NoCall}]
    /\ pc \in [Txs -> Phases]
    /\ held \in [Txs -> SUBSET Rows]
    /\ saw \in [Txs -> BOOLEAN]
    /\ need \in [Txs -> [Ingredients -> Nat]]
    /\ todo \in [Txs -> SUBSET Ingredients]
    /\ cas \in [Txs -> [row : Ingredients \cup {-1}, version : Nat, attempt : 0..3]]
    /\ answer \in [Txs -> Txs \cup {"none", "refused", "failed"}]

\* However many requests for a customer race, on whatever channel, at most one
\* bill is open: the check of create_new_order and create_custom_order and the
\* insert that follows it are one, thanks to the lock on the customer row.
OneOpenBill ==
    \A o, p \in Txs :
        /\ orders[o] # NoOrder /\ orders[p] # NoOrder
        /\ orders[o].customer = orders[p].customer
        /\ IsOpen(o) /\ IsOpen(p)
        => o = p

\* An Idempotency-Key places at most one order in its scope: a request repeated
\* while the first is under way, or after its answer was lost, places none.
KeyOnce ==
    \A o, p \in Txs :
        /\ orders[o] # NoOrder /\ orders[p] # NoOrder
        /\ orders[o].key # NoKey /\ orders[o].key = orders[p].key
        /\ orders[o].scope = orders[p].scope
        => o = p

\* Whoever repeats a request with its key is told of one and the same order, and
\* it is an order for what this request asked.
AnswersAgree ==
    \A t, u \in Txs :
        /\ Places(t) /\ Places(u) /\ answer[t] \in Txs /\ answer[u] \in Txs
        /\ call[t].key # NoKey /\ call[t].key = call[u].key /\ Scope(t) = Scope(u)
        => /\ answer[t] = answer[u]
           /\ orders[answer[t]].qty = call[t].qty /\ orders[answer[u]].qty = call[u].qty

\* A cancelled order has given back exactly what it consumed, of every
\* ingredient and once, whatever became of the recipe and however many
\* cancellations and refunds raced; an order that stands has given back nothing.
ReturnedWhole ==
    \A o \in Txs, i \in Ingredients :
        LET taken == MovedFor(o, "ORDER", i)
            back == MovedFor(o, "REVERSAL", i)
        IN IF orders[o] # NoOrder /\ orders[o].status = "cancelled"
           THEN /\ Cardinality(back) = Cardinality(taken)
                /\ \A m \in taken, n \in back : ledger[i][n].qty = -ledger[i][m].qty
           ELSE back = {}

\* _validate_stock_ledger of the preflight: the balance that a list of movements
\* comes to, rounded as the column rounds it, and that no prefix is overdrawn.
Balance(moves) ==
    LET after[n \in 0..Len(moves)] ==
            IF n = 0 THEN 0 ELSE Stored(after[n - 1] + moves[n].qty)
    IN after[Len(moves)]
Overdrawn(moves) ==
    \E n \in DOMAIN moves : Balance(SubSeq(moves, 1, n - 1)) + moves[n].qty < 0

\* Stock and ledger tell the same story: replayed in the order they were
\* committed, the movements of an ingredient never overdraw it and come to what
\* its row holds, though orders, reversals and adjustments race for it.
StockIsLedger ==
    \A i \in Ingredients :
        Balance(ledger[i]) = stock[i].qty /\ ~Overdrawn(ledger[i])

\* Every request comes to an end, though checkouts lock stock rows in the order
\* of their ids and reversals in any order.
EveryRequestEnds == \A t \in Txs : pc[t] = "begun" ~> pc[t] = "done"
===============================================================================
