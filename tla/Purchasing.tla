------------------------------ MODULE Purchasing ------------------------------
(***************************************************************************)
(* Purchases and what they do to the stock master and to product costs:      *)
(* purchasing_service, stock_service, the average-cost update of stock_repo, *)
(* and the two recalculations of a product's cost (HPP), of product_repo and *)
(* of recipe_repo. A request is a database transaction: what it wrote is its *)
(* own until it commits, the rows it wrote are locked, and its unlocked      *)
(* reads see what others have committed.                                     *)
(*                                                                         *)
(* One supplier and one product. Quantities are whole; costs are in units of *)
(* the last place of harga_per_satuan (NUMERIC(10,4)). Orders that consume   *)
(* stock are Checkout's; here each is one step.                              *)
(*                                                                         *)
(* A definition whose name ends in _Faulty... is a deliberately wrong        *)
(* variant of the one that follows it; no action uses it.                    *)
(***************************************************************************)
EXTENDS Integers, FiniteSets, Sequences, Functions

CONSTANTS Stocks,      \* ids of stock rows
          Purchases,   \* ids of purchases
          Txs,         \* transactions under way at once
          Orderable,   \* the item lists purchases are made or edited with
          Deliveries,  \* adjustments: [qty, unit], qty negative or positive
          Openings,    \* stock rows created: [qty, cost]
          RecipeRows,  \* ids of the product's recipe rows
          Needs,       \* quantities a recipe row may ask for
          Prices,      \* selling prices an owner sets
          Markup,      \* markup on the cost, 0 for none
          Deviation,   \* the price ratio that has to be confirmed (10 in the code)
          MaxRequests  \* bound: requests made

ASSUME PurchasingAssumption ==
    /\ Deliveries \subseteq [qty : Int \ {0}, unit : Nat]
    /\ Openings \subseteq [qty : Nat, cost : Nat]
    /\ Needs \subseteq Nat \ {0} /\ Prices \subseteq Nat
    /\ Markup \in Nat /\ Deviation \in Nat \ {0} /\ MaxRequests \in Nat
    /\ IsFiniteSet(Stocks) /\ IsFiniteSet(RecipeRows)
    /\ "none" \notin Purchases

Items == [stock : Stocks, qty : Nat \ {0}, total : Nat \ {0}, confirmed : BOOLEAN]

\* The schema: at least one item, no stock row twice, amounts positive.
ASSUME OrderableAssumption ==
    \A list \in Orderable :
        /\ list \in Seq(Items) /\ list # <<>>
        /\ \A m, n \in DOMAIN list : list[m].stock = list[n].stock => m = n

Absent == [qty |-> -1, cost |-> 0]
NoPurchase == [status |-> "none", items |-> <<>>, total |-> 0]
NoRow == [stock |-> -1, need |-> 0]
NoEdit == [row |-> "none", to |-> NoRow]
Idle == [pc |-> "idle"]

VARIABLES supplier,   \* "active", "inactive" or "gone"
          purchases,  \* status, items, total_harga
          stock,      \* stock_items: stok_tersedia and harga_per_satuan, or Absent
          moves,      \* stock_movements of each row, as committed
          recipe,     \* the product's recipe
          product,    \* hpp_total and harga_jual
          tx,         \* the transactions under way
          requests    \* requests made so far

vars == <<supplier, purchases, stock, moves, recipe, product, tx, requests>>

-------------------------------------------------------------------------------
(* Arithmetic: a / b in the last place, by the code's two roundings.         *)

HalfUp(a, b) == (2 * a + b) \div (2 * b)
HalfEven(a, b) ==
    IF (2 * a) % (2 * b) = b /\ (a \div b) % 2 = 0 THEN a \div b ELSE HalfUp(a, b)

\* A row that received qty for total: weighted average cost.
Averaged_FaultyNewWeight(row, qty, total) ==
    [qty |-> row.qty + qty, cost |-> HalfUp((row.qty + qty) * row.cost + total, row.qty + 2 * qty)]
Averaged(row, qty, total) ==
    [qty |-> row.qty + qty, cost |-> HalfUp(row.qty * row.cost + total, row.qty + qty)]

\* A row that was adjusted; only more of it, at a cost, moves the average.
Adjusted(row, qty, unit) ==
    [qty |-> row.qty + qty,
     cost |-> IF qty > 0 THEN HalfEven(row.qty * row.cost + qty * unit, row.qty + qty) ELSE row.cost]

\* The product's cost: recipe rows joined with the stock rows seen.
CostOf(rows, needs) ==
    SumFunction([r \in RecipeRows |-> IF needs[r] = NoRow THEN 0 ELSE needs[r].need * rows[needs[r].stock].cost])
UsedIn(needs) == {needs[r].stock : r \in {r \in RecipeRows : needs[r] # NoRow}}

Opened(row) ==
    IF row = Absent \/ row.qty = 0 THEN <<>>
    ELSE <<[kind |-> "OPENING_BALANCE", qty |-> row.qty, unit |-> row.cost, ref |-> "none"]>>

\* A shop that has some stock rows, and a recipe of some of them.
Init ==
    /\ supplier = "active"
    /\ purchases = [p \in Purchases |-> NoPurchase]
    /\ stock \in [Stocks -> Openings \cup {Absent}]
    /\ moves = [i \in Stocks |-> Opened(stock[i])]
    /\ recipe \in [RecipeRows -> [stock : {i \in Stocks : stock[i] # Absent}, need : Needs] \cup {NoRow}]
    /\ \A r, q \in RecipeRows : recipe[r] # NoRow /\ recipe[r].stock = recipe[q].stock => r = q
    /\ product = [hpp |-> CostOf(stock, recipe), price |-> 0]
    /\ tx = [t \in Txs |-> Idle]
    /\ requests = 0

-------------------------------------------------------------------------------
(* Locks.                                                                    *)

\* Rows locked by t: purchases, stock rows (by what it wrote), the product.
Locks(t, row) == tx[t].pc # "idle" /\ row \in tx[t].held
Free_FaultyStockUnlocked(row) == row.table = "stock_items" \/ \A t \in Txs : ~Locks(t, row)
Free(row) == \A t \in Txs : ~Locks(t, row)
PurchaseRow(p) == [table |-> "purchases", id |-> p]
StockRow(i) == [table |-> "stock_items", id |-> i]
RecipeRow(r) == [table |-> "recipes", id |-> r]
ProductRow == [table |-> "products", id |-> 0]

\* What t sees: its own writes over what is committed.
Seen(t) == [i \in Stocks |-> IF tx[t].wrote[i] # Absent THEN tx[t].wrote[i] ELSE stock[i]]

Request == requests < MaxRequests /\ requests' = requests + 1
Nothing == [i \in Stocks |-> Absent]
NoEntries == [i \in Stocks |-> <<>>]

Started(kind, p, held, items) ==
    [pc |-> kind, purchase |-> p, held |-> held, items |-> items, todo |-> items, wrote |-> Nothing,
     entries |-> NoEntries, edit |-> NoEdit, product |-> product, columns |-> {}]

-------------------------------------------------------------------------------
(* Suppliers, and purchases before they are received: one row at a time.     *)

UpdateSupplier ==
    /\ Request
    /\ supplier \in {"active", "inactive"}
    /\ supplier' = IF supplier = "active" THEN "inactive" ELSE "active"
    /\ UNCHANGED <<purchases, stock, moves, recipe, product, tx>>

\* Refused while a purchase refers to it, by the check or by the foreign key.
DeleteSupplier ==
    /\ Request
    /\ supplier # "gone" /\ \A p \in Purchases : purchases[p] = NoPurchase
    /\ supplier' = "gone"
    /\ UNCHANGED <<purchases, stock, moves, recipe, product, tx>>

\* _normalize_purchase_items: the stock rows exist; a unit cost that rounds to
\* nothing, or far from the average and not confirmed, is refused.
Acceptable(item) ==
    LET unit == HalfUp(item.total, item.qty)
        average == stock[item.stock].cost
    IN /\ stock[item.stock] # Absent /\ unit > 0
       /\ average > 0 /\ ~item.confirmed
             => unit < Deviation * average /\ average < Deviation * unit

Total(list) == SumFunction([n \in DOMAIN list |-> list[n].total])

CreatePurchase(p, list) ==
    /\ Request
    /\ purchases[p] = NoPurchase /\ supplier = "active"
    /\ \A n \in DOMAIN list : Acceptable(list[n])
    /\ purchases' = [purchases EXCEPT ![p] = [status |-> "open", items |-> list, total |-> Total(list)]]
    /\ UNCHANGED <<supplier, stock, moves, recipe, product, tx>>

EditItems(p, list) ==
    /\ Request
    /\ purchases[p].status = "open" /\ Free(PurchaseRow(p))
    /\ \A n \in DOMAIN list : Acceptable(list[n])
    /\ purchases' = [purchases EXCEPT ![p].items = list, ![p].total = Total(list)]
    /\ UNCHANGED <<supplier, stock, moves, recipe, product, tx>>

CancelPurchase(p) ==
    /\ Request
    /\ purchases[p].status = "open" /\ Free(PurchaseRow(p))
    /\ purchases' = [purchases EXCEPT ![p].status = "cancelled"]
    /\ UNCHANGED <<supplier, stock, moves, recipe, product, tx>>

-------------------------------------------------------------------------------
(* Stock rows.                                                               *)

CreateStock(i, opening) ==
    /\ Request
    /\ stock[i] = Absent
    /\ stock' = [stock EXCEPT ![i] = opening]
    /\ moves' = [moves EXCEPT ![i] = Opened(opening)]
    /\ UNCHANGED <<supplier, purchases, recipe, product, tx>>

\* Checked without a lock; what slips past the check, or is a purchase's item,
\* meets a NOT NULL foreign key, and the delete fails.
DeleteStock(i) ==
    /\ Request
    /\ stock[i] # Absent /\ Free(StockRow(i))
    /\ i \notin UsedIn(recipe) /\ moves[i] = <<>> /\ stock[i].qty = 0
    /\ \A p \in Purchases : \A n \in DOMAIN purchases[p].items : purchases[p].items[n].stock # i
    /\ \A t \in Txs : tx[t].pc # "idle" =>
          tx[t].edit.to.stock # i /\ \A n \in DOMAIN tx[t].items : tx[t].items[n].stock # i
    /\ stock' = [stock EXCEPT ![i] = Absent]
    /\ UNCHANGED <<supplier, purchases, moves, recipe, product, tx>>

\* An order consumes (Checkout), a movement of its own.
Consume(i, q) ==
    /\ Request
    /\ stock[i].qty >= q /\ Free(StockRow(i))
    /\ stock' = [stock EXCEPT ![i].qty = @ - q]
    /\ moves' = [moves EXCEPT ![i] = Append(@, [kind |-> "ORDER", qty |-> -q, unit |-> 0, ref |-> "none"])]
    /\ UNCHANGED <<supplier, purchases, recipe, product, tx>>

-------------------------------------------------------------------------------
(* Transactions of several steps.                                            *)

\* update_purchase with is_received: the purchase's row is locked first, and its
\* items are received; PurchaseUpdate refuses new items in the same call.
StartReceiving_FaultyRepeats(t, p) ==
    /\ Request
    /\ tx[t] = Idle /\ purchases[p].status \in {"open", "received"} /\ purchases[p].items # <<>>
    /\ Free(PurchaseRow(p))
    /\ tx' = [tx EXCEPT ![t] = Started("receiving", p, {PurchaseRow(p)}, purchases[p].items)]
    /\ UNCHANGED <<supplier, purchases, stock, moves, recipe, product>>

StartReceiving(t, p) ==
    /\ Request
    /\ tx[t] = Idle /\ purchases[p].status = "open" /\ purchases[p].items # <<>>
    /\ Free(PurchaseRow(p))
    /\ tx' = [tx EXCEPT ![t] = Started("receiving", p, {PurchaseRow(p)}, purchases[p].items)]
    /\ UNCHANGED <<supplier, purchases, stock, moves, recipe, product>>

\* update_average_cost of the next item; the ledger keeps the unit cost rounded.
ReceiveItem(t) ==
    /\ tx[t].pc = "receiving" /\ tx[t].todo # <<>>
    /\ LET item == Head(tx[t].todo)
           i == item.stock
       IN /\ Free(StockRow(i))
          /\ tx' = [tx EXCEPT ![t] = [tx[t] EXCEPT
                !.wrote[i] = Averaged(stock[i], item.qty, item.total),
                !.entries[i] = Append(@, [kind |-> "PURCHASE", qty |-> item.qty,
                                    unit |-> HalfUp(item.total, item.qty), ref |-> tx[t].purchase]),
                !.held = @ \cup {StockRow(i)},
                !.todo = Tail(@),
                !.pc = IF Len(tx[t].todo) = 1 THEN "costing" ELSE "receiving"]]
    /\ UNCHANGED <<supplier, purchases, stock, moves, recipe, product, requests>>

\* adjust_stock, up to its recalculation.
Adjustable(i, d) == stock[i].qty + d.qty >= 0
StartAdjusting(t, i, d) ==
    /\ Request
    /\ tx[t] = Idle /\ stock[i] # Absent /\ Free(StockRow(i))
    /\ Adjustable(i, d)
    /\ tx' = [tx EXCEPT ![t] =
            [Started("costing", "none", {StockRow(i)}, <<>>) EXCEPT
                !.wrote[i] = Adjusted(stock[i], d.qty, d.unit),
                !.entries[i] = <<[kind |-> IF d.qty > 0 THEN "ADJUSTMENT_IN" ELSE "ADJUSTMENT_OUT",
                                  qty |-> d.qty, ref |-> "none",
                                  unit |-> IF d.qty > 0 THEN d.unit ELSE stock[i].cost]>>]]
    /\ UNCHANGED <<supplier, purchases, stock, moves, recipe, product>>

\* add_ingredient: the ingredient is looked for among the committed rows, and
\* no constraint keeps two requests from adding it at once.
StartAdding(t, r, i, n) ==
    /\ Request
    /\ tx[t] = Idle /\ stock[i] # Absent /\ i \notin UsedIn(recipe)
    /\ recipe[r] = NoRow /\ Free(RecipeRow(r))
    /\ tx' = [tx EXCEPT ![t] = [Started("syncing", "none", {RecipeRow(r)}, <<>>) EXCEPT
                                   !.edit = [row |-> r, to |-> [stock |-> i, need |-> n]]]]
    /\ UNCHANGED <<supplier, purchases, stock, moves, recipe, product>>

\* update_ingredient and, with nothing to go to, remove_ingredient.
StartChanging(t, r, to) ==
    /\ Request
    /\ tx[t] = Idle /\ recipe[r] # NoRow /\ Free(RecipeRow(r))
    /\ to # NoRow => to.stock = recipe[r].stock
    /\ tx' = [tx EXCEPT ![t] = [Started("syncing", "none", {RecipeRow(r)}, <<>>) EXCEPT
                                   !.edit = [row |-> r, to |-> to]]]
    /\ UNCHANGED <<supplier, purchases, stock, moves, recipe, product>>

Edited(t) == IF tx[t].edit = NoEdit THEN recipe ELSE [recipe EXCEPT ![tx[t].edit.row] = tx[t].edit.to]

\* The columns an UPDATE of a loaded product sets.
Differing(new) == {c \in {"hpp", "price"} : new[c] # product[c]}

\* calculate_and_update_product_price: cost from the rows it sees, price from the
\* cost if there is a markup. If neither differs from what it loaded no UPDATE
\* is sent, and no lock taken. A row of the recipe is needed for it to be called.
Recalculate(t) ==
    /\ tx[t].pc = "costing"
    /\ LET touched == {i \in Stocks : tx[t].wrote[i] # Absent}
           hpp == CostOf(Seen(t), recipe)
           new == [hpp |-> hpp, price |-> IF Markup = 0 THEN product.price ELSE hpp * (1 + Markup)]
       IN IF touched \cap UsedIn(recipe) = {}
          THEN tx' = [tx EXCEPT ![t].pc = "ready"]
          ELSE tx' = [tx EXCEPT ![t].product = new, ![t].columns = Differing(new),
                                ![t].pc = IF new = product THEN "ready" ELSE "pricing"]
    /\ UNCHANGED <<supplier, purchases, stock, moves, recipe, product, requests>>

\* sync_hpp_to_product: the cost alone, always by an UPDATE.
Sync(t) ==
    /\ tx[t].pc = "syncing"
    /\ tx' = [tx EXCEPT ![t].product.hpp = CostOf(stock, Edited(t)),
                         ![t].columns = {"hpp"}, ![t].pc = "pricing"]
    /\ UNCHANGED <<supplier, purchases, stock, moves, recipe, product, requests>>

\* set_product_price, and update_product with a price.
StartPricing(t, price) ==
    /\ Request
    /\ tx[t] = Idle
    /\ LET new == [hpp |-> CostOf(stock, recipe), price |-> price]
       IN tx' = [tx EXCEPT ![t] = [Started(IF new = product THEN "ready" ELSE "pricing", "none", {}, <<>>)
                                     EXCEPT !.product = new, !.columns = Differing(new)]]
    /\ UNCHANGED <<supplier, purchases, stock, moves, recipe, product>>

\* The UPDATE of the product waits for its row.
WritePrice(t) ==
    /\ tx[t].pc = "pricing" /\ Free(ProductRow)
    /\ tx' = [tx EXCEPT ![t].held = @ \cup {ProductRow}, ![t].pc = "ready"]
    /\ UNCHANGED <<supplier, purchases, stock, moves, recipe, product, requests>>

Commit(t) ==
    /\ tx[t].pc = "ready"
    /\ stock' = Seen(t)
    /\ moves' = [i \in Stocks |-> moves[i] \o tx[t].entries[i]]
    /\ recipe' = Edited(t)
    /\ product' = [c \in {"hpp", "price"} |->
                      IF c \in tx[t].columns THEN tx[t].product[c] ELSE product[c]]
    /\ purchases' = IF tx[t].purchase = "none" THEN purchases
                    ELSE [purchases EXCEPT ![tx[t].purchase] = [status |-> "received",
                              items |-> tx[t].items, total |-> Total(tx[t].items)]]
    /\ tx' = [tx EXCEPT ![t] = Idle]
    /\ UNCHANGED <<supplier, requests>>

\* A crash, a deadlock broken, an error: nothing of it stays.
Abort(t) ==
    /\ tx[t].pc # "idle"
    /\ tx' = [tx EXCEPT ![t] = Idle]
    /\ UNCHANGED <<supplier, purchases, stock, moves, recipe, product, requests>>

Next ==
    \/ UpdateSupplier \/ DeleteSupplier
    \/ \E p \in Purchases : (\E list \in Orderable : CreatePurchase(p, list) \/ EditItems(p, list))
                           \/ CancelPurchase(p)
    \/ \E i \in Stocks : (\E o \in Openings : CreateStock(i, o)) \/ DeleteStock(i) \/ Consume(i, 1)
    \/ \E t \in Txs :
          \/ \E p \in Purchases : StartReceiving(t, p)
          \/ \E i \in Stocks, d \in Deliveries : StartAdjusting(t, i, d)
          \/ \E r \in RecipeRows, i \in Stocks, n \in Needs :
                StartAdding(t, r, i, n) \/ StartChanging(t, r, [stock |-> i, need |-> n])
          \/ \E r \in RecipeRows : StartChanging(t, r, NoRow)
          \/ \E price \in Prices : StartPricing(t, price)
          \/ ReceiveItem(t) \/ Recalculate(t) \/ Sync(t) \/ WritePrice(t) \/ Commit(t) \/ Abort(t)

Spec == Init /\ [][Next]_vars

-------------------------------------------------------------------------------
(* Properties.                                                               *)

StockRows == [qty : Nat, cost : Nat] \cup {Absent}
RecipeEntries == [stock : Stocks, need : Needs] \cup {NoRow}
Running ==
    [pc : {"receiving", "costing", "syncing", "pricing", "ready"},
     purchase : Purchases \cup {"none"},
     held : SUBSET ({PurchaseRow(p) : p \in Purchases} \cup {StockRow(i) : i \in Stocks}
                     \cup {RecipeRow(r) : r \in RecipeRows} \cup {ProductRow}),
     items : Orderable \cup {<<>>},
     todo : UNION {{SubSeq(list, n, Len(list)) : n \in 1..(Len(list) + 1)} : list \in Orderable \cup {<<>>}},
     wrote : [Stocks -> StockRows],
     entries : [Stocks -> Seq([kind : {"PURCHASE", "ADJUSTMENT_IN", "ADJUSTMENT_OUT"}, qty : Int,
                               unit : Nat, ref : Purchases \cup {"none"}])],
     edit : [row : RecipeRows \cup {"none"}, to : RecipeEntries],
     product : [hpp : Nat, price : Nat], columns : SUBSET {"hpp", "price"}]

TypeOK ==
    /\ supplier \in {"active", "inactive", "gone"}
    /\ purchases \in [Purchases -> [status : {"none", "open", "received", "cancelled"},
                                   items : Orderable \cup {<<>>}, total : Nat]]
    /\ stock \in [Stocks -> StockRows]
    /\ recipe \in [RecipeRows -> RecipeEntries]
    /\ product \in [hpp : Nat, price : Nat]
    /\ tx \in [Txs -> Running \cup {Idle}]
    /\ requests \in 0..MaxRequests

\* A purchase is in the ledger once, with the items and the total it has now, if
\* it was received, and else not at all, however its edits, its receipt and its
\* cancellation race; and the supplier it was made with is still there.
ReceivedOnce ==
    \A p \in Purchases :
        LET items == purchases[p].items
            Arrivals(i) == {n \in DOMAIN moves[i] : moves[i][n].ref = p}
        IN /\ purchases[p] # NoPurchase => supplier # "gone" /\ purchases[p].total = Total(items)
           /\ \A i \in Stocks :
                LET of == {n \in DOMAIN items : items[n].stock = i}
                IN IF purchases[p].status = "received"
                   THEN /\ Cardinality(Arrivals(i)) = Cardinality(of)
                        /\ \A n \in of, m \in Arrivals(i) : moves[i][m].qty = items[n].qty
                   ELSE Arrivals(i) = {}

\* _validate_stock_ledger: quantity and average cost that a list of movements
\* comes to.
Replay(list) ==
    LET after[n \in 0..Len(list)] ==
            IF n = 0 THEN [qty |-> 0, cost |-> 0]
            ELSE LET row == after[n - 1]
                     m == list[n]
                     worth == row.qty * row.cost + m.qty * m.unit
                     qty == row.qty + m.qty
                 IN [qty |-> qty,
                     cost |-> CASE m.kind = "OPENING_BALANCE" -> m.unit
                                [] m.kind = "PURCHASE"        -> HalfUp(worth, qty)
                                [] m.kind = "ADJUSTMENT_IN"   -> HalfEven(worth, qty)
                                [] OTHER                      -> row.cost]
    IN after[Len(list)]

\* The master row has the quantity that its movements add up to, though
\* receipts, adjustments and orders write it at once (_validate_stock_ledger).
QuantityReplays == \A i \in Stocks : moves[i] # <<>> => Replay(moves[i]).qty = stock[i].qty

\* The preflight's replay: exact in quantity, and in average cost to one unit of
\* the last place, which is all it allows for the unit costs that the ledger keeps
\* rounded, however many of them a row's average is made of.
CostReplays ==
    \A i \in Stocks : moves[i] # <<>> =>
        LET row == Replay(moves[i])
        IN row.qty = stock[i].qty /\ row.cost - stock[i].cost \in {-1, 0, 1}

\* Requests that overlap change the stock master as if each had been made alone, at
\* the moment it commits, and a purchase had been received whole: what ReceiveItem
\* and StartAdjusting read of a row, some steps before, is still so then.
Room == INSTANCE StockRoom WITH received <- {p \in Purchases : purchases[p].status = "received"}
OneAtATime == Room!Spec
===============================================================================
