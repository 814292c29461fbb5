------------------------- MODULE PurchasingProofs -------------------------
(***************************************************************************)
(* Theorems about Purchasing, for any number of transactions, purchases,   *)
(* stock rows, recipe rows and requests. Every step changes the tables     *)
(* alone, or begins, continues or ends one transaction (StepCases); the    *)
(* row locks keep the transactions apart, so that what one has written and *)
(* not committed is one movement away from the row it read. From that      *)
(* follow that a purchase enters the ledger once, that quantities and      *)
(* average costs are what the movements come to (exactly, and to one unit  *)
(* of the last place), and that stock and ledger change as in StockRoom,   *)
(* where every request is one step. Replaying a ledger is an induction     *)
(* along it; that rounding errors do not add up is an argument about       *)
(* nearest quotients.                                                      *)
(***************************************************************************)
EXTENDS Purchasing, SumTheorems

-------------------------------------------------------------------------------
(* Arithmetic.                                                             *)

\* A division of natural numbers gives one.
LEMMA QuotientNat == ASSUME NEW a \in Nat, NEW b \in Nat, b > 0 PROVE a \div b \in Nat
BY SMT

\* Both roundings of a cost give a cost.
LEMMA RoundedNat ==
    ASSUME NEW a \in Nat, NEW b \in Nat, b > 0
    PROVE  HalfUp(a, b) \in Nat /\ HalfEven(a, b) \in Nat
<1>1. 2 * a + b \in Nat /\ 2 * b \in Nat /\ 2 * b > 0
  OBVIOUS
<1>2. HalfUp(a, b) \in Nat
  BY <1>1, QuotientNat DEF HalfUp
<1>3. QED
  BY <1>2, QuotientNat DEF HalfEven

\* The value of a row.
LEMMA ProductNat == ASSUME NEW a \in Nat, NEW b \in Nat PROVE a * b \in Nat
BY SMT

\* r is a quotient of a by b, rounded to a nearest whole number.
Nearest(r, a, b) == 2 * (b * r) <= 2 * a + b /\ 2 * a <= 2 * (b * r) + b

\* A quotient is the greatest number of times b goes into a.
LEMMA QuotientBounds ==
    ASSUME NEW a \in Nat, NEW b \in Nat, b > 0
    PROVE  b * (a \div b) <= a /\ a < b * (a \div b) + b
BY SMT

\* What is left over.
LEMMA QuotientRest ==
    ASSUME NEW a \in Nat, NEW b \in Nat, b > 0
    PROVE  a % b = a - b * (a \div b)
BY SMT

\* Twice a product.
LEMMA Doubled == ASSUME NEW b \in Int, NEW r \in Int PROVE (2 * b) * r = 2 * (b * r)
BY SMT

\* A product is a whole number.
LEMMA ProductInt == ASSUME NEW a \in Int, NEW b \in Int PROVE a * b \in Int
BY SMT

\* A product grows with a factor.
LEMMA ProductApart ==
    ASSUME NEW b \in Nat, NEW r \in Int, NEW k \in Int, r >= k
    PROVE  b * r >= b * k
BY SMT

\* Once more b.
LEMMA ProductNext == ASSUME NEW b \in Int, NEW r \in Int PROVE b * (r + 1) = b * r + b
BY SMT

\* The rounding of purchases is to a nearest number.
LEMMA HalfUpNearest ==
    ASSUME NEW a \in Nat, NEW b \in Nat, b > 0
    PROVE  Nearest(HalfUp(a, b), a, b)
<1> DEFINE r == (2 * a + b) \div (2 * b)
<1>1. 2 * a + b \in Nat /\ 2 * b \in Nat /\ 2 * b > 0
  OBVIOUS
<1>2. r \in Nat /\ (2 * b) * r <= 2 * a + b /\ 2 * a + b < (2 * b) * r + 2 * b
  BY <1>1, QuotientNat, QuotientBounds
<1> HIDE DEF r
<1>3. (2 * b) * r = 2 * (b * r) /\ b * r \in Int
  BY <1>2, Doubled, ProductInt
<1>4. 2 * (b * r) <= 2 * a + b /\ 2 * a + b < 2 * (b * r) + 2 * b
  BY <1>2, <1>3
<1>5. QED
  BY <1>3, <1>4 DEF Nearest, HalfUp, r

\* So is the rounding of adjustments: it differs only where two numbers are nearest.
LEMMA HalfEvenNearest ==
    ASSUME NEW a \in Nat, NEW b \in Nat, b > 0
    PROVE  Nearest(HalfEven(a, b), a, b)
<1>1. CASE (2 * a) % (2 * b) = b
  <2> DEFINE r == a \div b
             k == (2 * a) \div (2 * b)
  <2>1. 2 * a \in Nat /\ 2 * b \in Nat /\ 2 * b > 0
    OBVIOUS
  <2>2. r \in Nat /\ b * r <= a /\ a < b * r + b
    BY QuotientNat, QuotientBounds
  <2>3. k \in Nat /\ b = 2 * a - (2 * b) * k
    BY <1>1, <2>1, QuotientNat, QuotientRest
  <2> HIDE DEF r, k
  <2>4. (2 * b) * k = 2 * (b * k) /\ b * k \in Int /\ b * r \in Int
    BY <2>2, <2>3, Doubled, ProductInt
  <2>5. 2 * a = 2 * (b * k) + b
    BY <2>3, <2>4
  <2>6. ~(r > k)
    <3>1. SUFFICES ASSUME r >= k + 1 PROVE FALSE
      BY <2>2, <2>3
    <3>2. b * r >= b * k + b
      BY <2>2, <2>3, <3>1, ProductApart, ProductNext
    <3>3. QED
      BY <2>2, <2>4, <2>5, <3>2
  <2>7. ~(k > r)
    <3>1. SUFFICES ASSUME k >= r + 1 PROVE FALSE
      BY <2>2, <2>3
    <3>2. b * k >= b * r + b
      BY <2>2, <2>3, <3>1, ProductApart, ProductNext
    <3>3. QED
      BY <2>2, <2>4, <2>5, <3>2
  <2>8. r = k
    BY <2>2, <2>3, <2>6, <2>7
  <2>9. Nearest(r, a, b)
    BY <2>4, <2>5, <2>8 DEF Nearest
  <2>10. QED
    BY <2>9, HalfUpNearest DEF HalfEven, r
<1>2. CASE ~((2 * a) % (2 * b) = b)
  BY <1>2, HalfUpNearest DEF HalfEven
<1>3. QED
  BY <1>1, <1>2

\* Quotients of amounts less than the divisor apart are at most one apart.
LEMMA NearestClose ==
    ASSUME NEW b \in Nat, b > 0, NEW x \in Int, NEW y \in Int, NEW r \in Int, NEW k \in Int,
           Nearest(r, x, b), Nearest(k, y, b), x - y < b, y - x < b
    PROVE  r - k \in {-1, 0, 1}
<1>1. b * r \in Int /\ b * k \in Int
  BY ProductInt
<1>2. ~(r >= (k + 1) + 1)
  <2>1. SUFFICES ASSUME r >= (k + 1) + 1 PROVE FALSE
    OBVIOUS
  <2>2. b * r >= b * ((k + 1) + 1) /\ b * ((k + 1) + 1) = b * (k + 1) + b /\ b * (k + 1) = b * k + b
    BY <2>1, ProductApart, ProductNext
  <2>3. b * (k + 1) \in Int
    BY ProductInt
  <2>4. QED
    BY <1>1, <2>2, <2>3 DEF Nearest
<1>3. ~(k >= (r + 1) + 1)
  <2>1. SUFFICES ASSUME k >= (r + 1) + 1 PROVE FALSE
    OBVIOUS
  <2>2. b * k >= b * ((r + 1) + 1) /\ b * ((r + 1) + 1) = b * (r + 1) + b /\ b * (r + 1) = b * r + b
    BY <2>1, ProductApart, ProductNext
  <2>3. b * (r + 1) \in Int
    BY ProductInt
  <2>4. QED
    BY <1>1, <2>2, <2>3 DEF Nearest
<1>4. QED
  BY <1>2, <1>3

\* The worth of a quantity at two costs at most one apart.
LEMMA WorthClose ==
    ASSUME NEW a \in Nat, NEW c \in Nat, NEW k \in Nat, a = 0 \/ c - k \in {-1, 0, 1}
    PROVE  a * c - a * k <= a /\ a * k - a * c <= a
<1>1. CASE a = 0
  BY <1>1
<1>2. CASE c = k
  BY <1>2, ProductInt
<1>3. CASE c = k + 1
  BY <1>3, ProductInt, ProductNext
<1>4. CASE k = c + 1
  BY <1>4, ProductInt, ProductNext
<1>5. QED
  BY <1>1, <1>2, <1>3, <1>4

\* A row that receives more.
LEMMA AveragedRow ==
    ASSUME NEW row \in [qty : Nat, cost : Nat], NEW qty \in Nat \ {0}, NEW total \in Nat
    PROVE  /\ Averaged(row, qty, total) \in [qty : Nat, cost : Nat]
           /\ Averaged(row, qty, total).qty = row.qty + qty
<1>1. row.qty \in Nat /\ row.cost \in Nat /\ row.qty + qty \in Nat /\ row.qty + qty > 0
  OBVIOUS
<1>2. row.qty * row.cost + total \in Nat
  BY <1>1, ProductNat
<1>3. HalfUp(row.qty * row.cost + total, row.qty + qty) \in Nat
  BY <1>1, <1>2, RoundedNat
<1>4. QED
  BY <1>1, <1>3 DEF Averaged

\* A row that is adjusted, not below nothing.
LEMMA AdjustedRow ==
    ASSUME NEW row \in [qty : Nat, cost : Nat], NEW qty \in Int, NEW unit \in Nat, row.qty + qty >= 0
    PROVE  /\ Adjusted(row, qty, unit) \in [qty : Nat, cost : Nat]
           /\ Adjusted(row, qty, unit).qty = row.qty + qty
<1>1. row.qty \in Nat /\ row.cost \in Nat /\ row.qty + qty \in Nat
  OBVIOUS
<1>2. CASE qty > 0
  <2>1. qty \in Nat /\ row.qty + qty > 0
    BY <1>1, <1>2
  <2>2. row.qty * row.cost \in Nat /\ qty * unit \in Nat
    BY <1>1, <2>1, ProductNat
  <2>3. row.qty * row.cost + qty * unit \in Nat
    BY <2>2
  <2>4. HalfEven(row.qty * row.cost + qty * unit, row.qty + qty) \in Nat
    BY <1>1, <2>1, <2>3, RoundedNat
  <2>5. QED
    BY <1>1, <1>2, <2>4 DEF Adjusted
<1>3. CASE ~(qty > 0)
  BY <1>1, <1>3 DEF Adjusted
<1>4. QED
  BY <1>2, <1>3

\* What the schema says of a purchase's items.
LEMMA ListItems ==
    ASSUME NEW list \in Orderable \cup {<<>>}
    PROVE  /\ list \in Seq(Items) /\ Len(list) \in Nat /\ DOMAIN list = 1..Len(list)
           /\ \A n \in DOMAIN list : /\ list[n] \in Items /\ list[n].stock \in Stocks
                                     /\ list[n].qty \in Nat \ {0} /\ list[n].total \in Nat \ {0}
           /\ \A m, n \in DOMAIN list : list[m].stock = list[n].stock => m = n
<1>1. list \in Seq(Items)
  <2>1. <<>> \in Seq(Items)
    OBVIOUS
  <2>2. QED
    BY <2>1, OrderableAssumption
<1>2. \A m, n \in DOMAIN list : list[m].stock = list[n].stock => m = n
  BY OrderableAssumption
<1>3. \A n \in DOMAIN list : list[n] \in Items
  BY <1>1
<1>4. QED
  BY <1>1, <1>2, <1>3 DEF Items

\* A purchase's total.
LEMMA TotalNat == ASSUME NEW list \in Orderable \cup {<<>>} PROVE Total(list) \in Nat
<1> DEFINE f == [n \in DOMAIN list |-> list[n].total]
<1>1. IsFiniteSet(DOMAIN list)
  BY ListItems, FS_Interval
<1>2. DOMAIN f = DOMAIN list /\ \A n \in DOMAIN list : f[n] \in Nat
  BY ListItems
<1> HIDE DEF f
<1>3. SumFunctionOnSet(f, DOMAIN list) \in Nat
  BY <1>1, <1>2, SumNat
<1>4. QED
  BY <1>2, <1>3 DEF Total, SumFunction, f

\* A product's cost.
LEMMA CostNat ==
    ASSUME NEW rows \in [Stocks -> StockRows], NEW needs \in [RecipeRows -> RecipeEntries]
    PROVE  CostOf(rows, needs) \in Nat
<1> DEFINE f == [r \in RecipeRows |->
                    IF needs[r] = NoRow THEN 0 ELSE needs[r].need * rows[needs[r].stock].cost]
<1>1. ASSUME NEW r \in RecipeRows PROVE f[r] \in Nat
  <2>1. CASE needs[r] = NoRow
    BY <2>1
  <2>2. CASE needs[r] # NoRow
    <3>1. needs[r] \in [stock : Stocks, need : Needs]
      BY <2>2 DEF RecipeEntries
    <3>2. needs[r].need \in Nat /\ rows[needs[r].stock] \in StockRows
      BY <3>1, PurchasingAssumption
    <3>3. rows[needs[r].stock].cost \in Nat
      BY <3>2 DEF StockRows, Absent
    <3>4. QED
      BY <2>2, <3>2, <3>3, ProductNat
  <2>3. QED
    BY <2>1, <2>2
<1>2. DOMAIN f = RecipeRows /\ IsFiniteSet(RecipeRows)
  BY PurchasingAssumption
<1> HIDE DEF f
<1>3. SumFunctionOnSet(f, RecipeRows) \in Nat
  BY <1>1, <1>2, SumNat
<1>4. QED
  BY <1>2, <1>3 DEF CostOf, SumFunction, f

-------------------------------------------------------------------------------
(* Types.                                                                  *)

\* Rows that exist.
Filled == [qty : Nat, cost : Nat]

\* A stock row is absent or has a quantity and a cost.
LEMMA RowsFilled == \A row \in StockRows : row # Absent => row \in Filled
BY DEF StockRows, Filled

\* Both kinds are rows.
LEMMA RowsStored == Filled \subseteq StockRows /\ Absent \in StockRows
BY DEF StockRows, Filled

\* A row that exists is not the absent one.
LEMMA FilledPresent == \A row \in Filled : row # Absent
BY DEF Filled, Absent

\* A transaction at work is one that is not idle.
LEMMA WorkingOrIdle ==
    ASSUME NEW x \in Running \cup {Idle}
    PROVE  (x.pc = "idle" <=> x = Idle) /\ (x.pc # "idle" => x \in Running)
<1>1. Idle.pc = "idle"
  BY DEF Idle
<1>2. x \in Running => x.pc # "idle"
  BY DEF Running
<1>3. QED
  BY <1>1, <1>2

\* One transaction changes, from one that is well formed to another.
LEMMA OneTransaction ==
    ASSUME tx \in [Txs -> Running \cup {Idle}], NEW t \in Txs, NEW new \in Running \cup {Idle},
           tx' = [tx EXCEPT ![t] = new]
    PROVE  tx' \in [Txs -> Running \cup {Idle}] /\ tx'[t] = new /\ \A u \in Txs \ {t} : tx'[u] = tx[u]
OBVIOUS

Rows == {PurchaseRow(p) : p \in Purchases} \cup {StockRow(i) : i \in Stocks}
          \cup {RecipeRow(r) : r \in RecipeRows} \cup {ProductRow}
Entry == [kind : {"PURCHASE", "ADJUSTMENT_IN", "ADJUSTMENT_OUT"}, qty : Int, unit : Nat,
          ref : Purchases \cup {"none"}]
Rests == UNION {{SubSeq(list, n, Len(list)) : n \in 1..(Len(list) + 1)} : list \in Orderable \cup {<<>>}}

\* The fields of a transaction at work.
LEMMA RunningIs ==
    Running = [pc : {"receiving", "costing", "syncing", "pricing", "ready"},
               purchase : Purchases \cup {"none"}, held : SUBSET Rows,
               items : Orderable \cup {<<>>}, todo : Rests, wrote : [Stocks -> StockRows],
               entries : [Stocks -> Seq(Entry)],
               edit : [row : RecipeRows \cup {"none"}, to : RecipeEntries],
               product : [hpp : Nat, price : Nat], columns : SUBSET {"hpp", "price"}]
BY DEF Running, Rows, Entry, Rests

\* The rows and the entries of a transaction at work.
LEMMA RunWrites ==
    ASSUME NEW x \in Running
    PROVE  x.wrote \in [Stocks -> StockRows] /\ x.entries \in [Stocks -> Seq(Entry)]
BY RunningIs

\* What is left of a list is all of it, or what is left after the head.
LEMMA RestAll == ASSUME NEW list \in Orderable \cup {<<>>} PROVE list \in Rests
<1>1. list = SubSeq(list, 1, Len(list)) /\ 1 \in 1..(Len(list) + 1)
  BY ListItems
<1>2. QED
  BY <1>1 DEF Rests

\* What is left of a list, less its first item, is left of it too.
LEMMA RestTail ==
    ASSUME NEW rest \in Rests, rest # <<>>
    PROVE  /\ Tail(rest) \in Rests
           /\ Head(rest) \in Items
<1>1. PICK list \in Orderable \cup {<<>>} : \E n \in 1..(Len(list) + 1) : rest = SubSeq(list, n, Len(list))
  BY DEF Rests
<1>2. PICK n \in 1..(Len(list) + 1) : rest = SubSeq(list, n, Len(list))
  BY <1>1
<1>3. list \in Seq(Items) /\ Len(list) \in Nat
  BY ListItems
<1>4. n \in 1..Len(list)
  BY <1>2, <1>3
<1>5. list \in Orderable
  BY <1>4
<1>6. Tail(rest) = SubSeq(list, n + 1, Len(list)) /\ Head(rest) = list[n]
  BY <1>2, <1>3, <1>4
<1>7. n + 1 \in 1..(Len(list) + 1) /\ list[n] \in Items
  BY <1>3, <1>4
<1>8. Tail(rest) \in Rests
  <2>1. Tail(rest) \in {SubSeq(list, m, Len(list)) : m \in 1..(Len(list) + 1)}
    BY <1>6, <1>7
  <2>2. QED
    BY <2>1 DEF Rests
<1>9. QED
  BY <1>6, <1>7, <1>8

\* What begins is well formed.
LEMMA StartedRuns ==
    ASSUME NEW kind \in {"receiving", "costing", "syncing", "pricing", "ready"},
           NEW p \in Purchases \cup {"none"}, NEW held \in SUBSET Rows,
           NEW list \in Orderable \cup {<<>>}, product \in [hpp : Nat, price : Nat]
    PROVE  Started(kind, p, held, list) \in Running
<1>1. list \in Rests
  BY RestAll
<1>2. Nothing \in [Stocks -> StockRows] /\ NoEntries \in [Stocks -> Seq(Entry)]
  <2>1. <<>> \in Seq(Entry)
    OBVIOUS
  <2>2. QED
    BY <2>1, RowsStored DEF Nothing, NoEntries
<1>3. NoEdit \in [row : RecipeRows \cup {"none"}, to : RecipeEntries]
  BY DEF NoEdit, RecipeEntries
<1>4. QED
  BY <1>1, <1>2, <1>3, RunningIs DEF Started

-------------------------------------------------------------------------------
(* The invariant.                                                          *)

Movement == [kind : {"OPENING_BALANCE", "PURCHASE", "ADJUSTMENT_IN", "ADJUSTMENT_OUT", "ORDER"},
             qty : Int, unit : Nat, ref : Purchases \cup {"none"}]
AtWork == {t \in Txs : tx[t].pc # "idle"}

\* A row lock has one holder.
LocksApart == \A t, u \in AtWork : \A row \in tx[t].held \cap tx[u].held : t = u

\* The items of purchases, and of those being received, are rows that exist; a
\* row that does not has no movements.
Present(list) == \A n \in DOMAIN list : stock[list[n].stock] # Absent
OnShelves ==
    /\ \A p \in Purchases : Present(purchases[p].items)
    /\ \A t \in AtWork : Present(tx[t].items)
    /\ \A i \in Stocks : stock[i] = Absent => moves[i] = <<>>

\* A movement takes a row from one state to the next, as the requests have it: the
\* average of what a purchase cost, which the movement itself knows only rounded to
\* a unit; that of an adjustment, at its unit cost; and a cost that stays.
Moved(old, e, new) ==
    /\ new.qty = old.qty + e.qty
    /\ \/ /\ e.kind = "PURCHASE" /\ e.qty > 0
          /\ \E total \in Nat : /\ e.unit = HalfUp(total, e.qty)
                                /\ new.cost = HalfUp(old.qty * old.cost + total, new.qty)
       \/ /\ e.kind = "ADJUSTMENT_IN" /\ e.qty > 0
          /\ new.cost = HalfEven(old.qty * old.cost + e.qty * e.unit, new.qty)
       \/ e.kind \in {"ADJUSTMENT_OUT", "ORDER"} /\ e.qty < 0 /\ new.cost = old.cost

\* What a transaction has written of a row it holds is the row as it is, and one
\* movement more.
Written(t, i) ==
    IF tx[t].wrote[i] = Absent THEN tx[t].entries[i] = <<>>
    ELSE /\ stock[i] # Absent /\ StockRow(i) \in tx[t].held
         /\ \E e \in Movement : tx[t].entries[i] = <<e>> /\ Moved(stock[i], e, tx[t].wrote[i])
WritesAreMoves == \A t \in AtWork, i \in Stocks : Written(t, i)

\* A purchase under receipt is open and held; its items up to the k-th are among
\* the movements, one each, and nothing else is.
Received(x, k) ==
    /\ k \in 0..Len(x.items)
    /\ x.todo = SubSeq(x.items, k + 1, Len(x.items))
    /\ x.pc # "receiving" => k = Len(x.items)
    /\ \A n \in 1..k : /\ x.entries[x.items[n].stock] # <<>>
                       /\ x.entries[x.items[n].stock][1].qty = x.items[n].qty
    /\ \A i \in Stocks : (\A n \in 1..k : x.items[n].stock # i) => x.entries[i] = <<>>
Receiving(t) ==
    /\ \A i \in Stocks : \A m \in DOMAIN tx[t].entries[i] : tx[t].entries[i][m].ref = tx[t].purchase
    /\ IF tx[t].purchase = "none" THEN tx[t].todo = <<>> /\ tx[t].items = <<>>
       ELSE /\ PurchaseRow(tx[t].purchase) \in tx[t].held
            /\ purchases[tx[t].purchase].status = "open"
            /\ \E k \in Nat : Received(tx[t], k)
Receipts == \A t \in AtWork : Receiving(t)

\* The movement of an adjustment, and what it writes, for the row as it is.
Correction(i, d) ==
    [kind |-> IF d.qty > 0 THEN "ADJUSTMENT_IN" ELSE "ADJUSTMENT_OUT", qty |-> d.qty, ref |-> "none",
     unit |-> IF d.qty > 0 THEN d.unit ELSE stock[i].cost]
Corrects(x, i, d) ==
    /\ stock[i] \in Filled /\ stock[i].qty + d.qty >= 0
    /\ x.wrote = [Nothing EXCEPT ![i] = Adjusted(stock[i], d.qty, d.unit)]
    /\ x.entries = [NoEntries EXCEPT ![i] = <<Correction(i, d)>>]

\* The movement of an item received.
Arrival(p, item) ==
    [kind |-> "PURCHASE", qty |-> item.qty, unit |-> HalfUp(item.total, item.qty), ref |-> p]

\* What a transaction wrote is what its request asks for, of the rows as they are:
\* nothing, an adjustment of one row, or some of the items of a purchase.
Asked(t) ==
    LET x == tx[t]
    IN IF x.purchase = "none"
       THEN \/ x.wrote = Nothing /\ x.entries = NoEntries
            \/ \E i \in Stocks, d \in Deliveries : Corrects(x, i, d)
       ELSE x.items \in Orderable /\ \A n \in DOMAIN x.items :
               LET item == x.items[n]
                   i == item.stock
               IN x.wrote[i] # Absent => /\ x.wrote[i] = Averaged(stock[i], item.qty, item.total)
                                         /\ x.entries[i] = <<Arrival(x.purchase, item)>>
AsAsked == \A t \in AtWork : Asked(t)

\* Two costs a unit of the last place apart at most.
Close(c, k) == c - k \in {-1, 0, 1}

\* The ledger agrees with a row that exists; Replay of no movements is nothing.
Quantities == \A i \in Stocks : stock[i] # Absent => Replay(moves[i]).qty = stock[i].qty

\* Its cost is close to the one the replay comes to, but for an empty row that was
\* opened with no movement, whose cost weighs nothing in its next average.
Costs ==
    \A i \in Stocks : stock[i] # Absent =>
        /\ Replay(moves[i]) \in Filled
        /\ moves[i] = <<>> \/ Close(Replay(moves[i]).cost, stock[i].cost)

TypeInv == TypeOK /\ moves \in [Stocks -> Seq(Movement)]

-------------------------------------------------------------------------------
(* Types.                                                                  *)

\* What a transaction notes down is a movement of the ledger.
LEMMA EntryIsMovement == Entry \subseteq Movement
BY DEF Entry, Movement

\* What a transaction is while it runs.
LEMMA AtWorkRuns ==
    ASSUME TypeOK, NEW t \in Txs
    PROVE  /\ tx[t] \in Running \cup {Idle}
           /\ tx[t].pc # "idle" <=> t \in AtWork
           /\ t \in AtWork => tx[t] \in Running
           /\ t \notin AtWork <=> tx[t] = Idle
BY WorkingOrIdle DEF TypeOK, AtWork

\* The next item to receive.
LEMMA NextItem ==
    ASSUME TypeOK, OnShelves, Receipts, NEW t \in AtWork, tx[t].todo # <<>>
    PROVE  /\ tx[t].purchase \in Purchases /\ tx[t].items \in Orderable
           /\ \E k \in 1..Len(tx[t].items) :
                 /\ Received(tx[t], k - 1)
                 /\ Head(tx[t].todo) = tx[t].items[k]
                 /\ Tail(tx[t].todo) = SubSeq(tx[t].items, k + 1, Len(tx[t].items))
                 /\ Len(tx[t].todo) = Len(tx[t].items) - (k - 1)
           /\ Head(tx[t].todo) \in Items
           /\ stock[Head(tx[t].todo).stock] \in Filled
<1> DEFINE x == tx[t]
<1>1. t \in Txs /\ x \in Running
  BY AtWorkRuns DEF AtWork
<1>2. x.items \in Orderable \cup {<<>>} /\ x.purchase \in Purchases \cup {"none"}
  BY <1>1, RunningIs
<1>3. x.purchase # "none" /\ \E k \in Nat : Received(x, k)
  BY DEF Receipts, Receiving
<1>4. PICK j \in Nat : Received(x, j)
  BY <1>3
<1>5. j \in 0..Len(x.items) /\ x.todo = SubSeq(x.items, j + 1, Len(x.items))
  BY <1>4 DEF Received
<1>6. x.items \in Seq(Items) /\ Len(x.items) \in Nat
  BY <1>2, ListItems
<1> HIDE DEF x
<1>7. j + 1 \in 1..Len(x.items)
  BY <1>5, <1>6 DEF x
<1>8. /\ Head(x.todo) = x.items[j + 1] /\ Tail(x.todo) = SubSeq(x.items, (j + 1) + 1, Len(x.items))
      /\ Len(x.todo) = Len(x.items) - j
  BY <1>5, <1>6, <1>7
<1>9. j + 1 \in DOMAIN x.items /\ x.items[j + 1] \in Items /\ x.items[j + 1].stock \in Stocks
  BY <1>2, <1>7, ListItems
<1>10. stock[x.items[j + 1].stock] \in Filled
  <2>1. stock[x.items[j + 1].stock] # Absent
    BY <1>9 DEF OnShelves, Present, x
  <2>2. stock[x.items[j + 1].stock] \in StockRows
    BY <1>9 DEF TypeOK
  <2>3. QED
    BY <2>1, <2>2, RowsFilled
<1>11. x.items \in Orderable
  BY <1>2, <1>7
<1>12. (j + 1) - 1 = j
  OBVIOUS
<1>13. QED
  BY <1>2, <1>3, <1>4, <1>7, <1>8, <1>9, <1>10, <1>11, <1>12 DEF x

\* Rows that are locked are rows of the tables.
LEMMA RowsAre ==
    /\ \A p \in Purchases : PurchaseRow(p) \in Rows
    /\ \A i \in Stocks : StockRow(i) \in Rows
    /\ \A r \in RecipeRows : RecipeRow(r) \in Rows
    /\ ProductRow \in Rows
BY DEF Rows

\* A row is opened with a ledger.
LEMMA OpenedMoves == ASSUME NEW row \in StockRows PROVE Opened(row) \in Seq(Movement)
<1>1. CASE row = Absent \/ row.qty = 0
  <2>1. <<>> \in Seq(Movement)
    OBVIOUS
  <2>2. QED
    BY <1>1, <2>1 DEF Opened
<1>2. CASE ~(row = Absent \/ row.qty = 0)
  <2> DEFINE e == [kind |-> "OPENING_BALANCE", qty |-> row.qty, unit |-> row.cost, ref |-> "none"]
  <2>1. row \in Filled
    BY <1>2, RowsFilled
  <2>2. e \in Movement
    BY <2>1 DEF Filled, Movement
  <2>3. <<e>> \in Seq(Movement)
    BY <2>2
  <2>4. QED
    BY <1>2, <2>3 DEF Opened
<1>3. QED
  BY <1>1, <1>2

\* The initial tables have their types.
LEMMA TypesBegin == Init => TypeInv
<1> SUFFICES ASSUME Init PROVE TypeInv
  OBVIOUS
<1>1. stock \in [Stocks -> StockRows]
  BY PurchasingAssumption DEF Init, StockRows
<1>2. recipe \in [RecipeRows -> RecipeEntries]
  BY DEF Init, RecipeEntries
<1>3. product \in [hpp : Nat, price : Nat]
  BY <1>1, <1>2, CostNat DEF Init
<1>4. purchases \in [Purchases -> [status : {"none", "open", "received", "cancelled"},
                                   items : Orderable \cup {<<>>}, total : Nat]]
  BY DEF Init, NoPurchase
<1>5. moves \in [Stocks -> Seq(Movement)]
  BY <1>1, OpenedMoves DEF Init
<1>6. supplier \in {"active", "inactive", "gone"} /\ tx \in [Txs -> Running \cup {Idle}]
  BY DEF Init
<1>7. requests \in 0..MaxRequests
  BY PurchasingAssumption DEF Init
<1>8. QED
  BY <1>1, <1>2, <1>3, <1>4, <1>5, <1>6, <1>7 DEF TypeInv, TypeOK

\* The counter of requests.
LEMMA RequestTypes == ASSUME requests \in 0..MaxRequests, Request PROVE requests' \in 0..MaxRequests
BY PurchasingAssumption DEF Request

\* A request that changes one purchase.
PurchaseTypes == [status : {"none", "open", "received", "cancelled"},
                  items : Orderable \cup {<<>>}, total : Nat]

\* Steps that touch no transaction.
LEMMA TypesTables ==
    ASSUME TypeInv,
           \/ UpdateSupplier \/ DeleteSupplier
           \/ \E p \in Purchases : (\E list \in Orderable : CreatePurchase(p, list) \/ EditItems(p, list))
                                   \/ CancelPurchase(p)
           \/ \E i \in Stocks : (\E o \in Openings : CreateStock(i, o)) \/ DeleteStock(i) \/ Consume(i, 1)
    PROVE  TypeInv'
<1> USE DEF TypeInv, TypeOK
<1>1. ASSUME Request PROVE requests' \in 0..MaxRequests
  BY <1>1, RequestTypes
<1>2. CASE UpdateSupplier \/ DeleteSupplier
  BY <1>1, <1>2 DEF UpdateSupplier, DeleteSupplier
<1>3. ASSUME NEW p \in Purchases, NEW list \in Orderable, CreatePurchase(p, list) \/ EditItems(p, list)
      PROVE  TypeInv'
  <2>1. Total(list) \in Nat
    BY TotalNat
  <2>2. purchases' \in [Purchases -> PurchaseTypes]
    <3>1. CASE CreatePurchase(p, list)
      BY <2>1, <3>1 DEF CreatePurchase, PurchaseTypes
    <3>2. CASE EditItems(p, list)
      <4>1. purchases' = [purchases EXCEPT ![p] = [purchases[p] EXCEPT !.items = list, !.total = Total(list)]]
        BY <3>2 DEF EditItems
      <4>2. purchases[p] \in PurchaseTypes
        BY DEF PurchaseTypes
      <4>3. [purchases[p] EXCEPT !.items = list, !.total = Total(list)] \in PurchaseTypes
        BY <2>1, <4>2 DEF PurchaseTypes
      <4>4. QED
        BY <4>1, <4>3 DEF PurchaseTypes
    <3>3. QED
      BY <1>3, <3>1, <3>2
  <2>3. QED
    BY <1>1, <1>3, <2>2 DEF CreatePurchase, EditItems, PurchaseTypes
<1>4. ASSUME NEW p \in Purchases, CancelPurchase(p) PROVE TypeInv'
  BY <1>1, <1>4 DEF CancelPurchase
<1>5. ASSUME NEW i \in Stocks, NEW o \in Openings, CreateStock(i, o) PROVE TypeInv'
  <2>1. o \in StockRows
    BY PurchasingAssumption DEF StockRows
  <2>2. Opened(o) \in Seq(Movement)
    BY <2>1, OpenedMoves
  <2>3. QED
    BY <1>1, <1>5, <2>1, <2>2 DEF CreateStock
<1>6. ASSUME NEW i \in Stocks, DeleteStock(i) PROVE TypeInv'
  <2>1. Absent \in StockRows
    BY RowsStored
  <2>2. QED
    BY <1>1, <1>6, <2>1 DEF DeleteStock
<1>7. ASSUME NEW i \in Stocks, Consume(i, 1) PROVE TypeInv'
  <2> DEFINE e == [kind |-> "ORDER", qty |-> -1, unit |-> 0, ref |-> "none"]
             row == [stock[i] EXCEPT !.qty = @ - 1]
  <2>1. stock[i] \in Filled /\ stock[i].qty >= 1
    BY <1>7, RowsFilled DEF Consume, Absent
  <2>2. row \in StockRows
    <3>1. stock[i].qty - 1 \in Nat
      BY <2>1 DEF Filled
    <3>2. row \in Filled
      BY <2>1, <3>1 DEF Filled
    <3>3. QED
      BY <3>2, RowsStored
  <2>3. stock' = [stock EXCEPT ![i] = row]
    BY <1>7 DEF Consume
  <2>4. e \in Movement
    BY DEF Movement
  <2>5. moves' = [moves EXCEPT ![i] = Append(moves[i], e)]
    BY <1>7 DEF Consume
  <2> HIDE DEF e, row
  <2>6. Append(moves[i], e) \in Seq(Movement)
    BY <2>4
  <2>7. stock' \in [Stocks -> StockRows] /\ moves' \in [Stocks -> Seq(Movement)]
    BY <2>2, <2>3, <2>5, <2>6
  <2>8. QED
    BY <1>1, <1>7, <2>7 DEF Consume
<1>8. QED
  BY <1>2, <1>3, <1>4, <1>5, <1>6, <1>7

-------------------------------------------------------------------------------
(* What each step does to its transaction.                                 *)

Tables == <<supplier, purchases, stock, moves, recipe, product>>

\* It begins, with rows that nobody holds, and nothing to receive.
Begins(t, new) ==
    /\ tx[t] = Idle /\ tx' = [tx EXCEPT ![t] = new]
    /\ \A row \in new.held : Free(row)
    /\ new.purchase = "none" /\ new.items = <<>> /\ new.todo = <<>>
    /\ UNCHANGED Tables

\* It goes on, with what it wrote, once there is nothing left to receive.
GoesOn(t, new) ==
    /\ t \in AtWork /\ tx' = [tx EXCEPT ![t] = new]
    /\ tx[t].held \subseteq new.held /\ \A row \in new.held \ tx[t].held : Free(row)
    /\ new.purchase = tx[t].purchase /\ new.items = tx[t].items /\ new.todo = tx[t].todo
    /\ new.wrote = tx[t].wrote /\ new.entries = tx[t].entries
    /\ tx[t].pc # "receiving" /\ new.pc # "receiving"
    /\ UNCHANGED Tables

\* An average over a purchase is what its movement does.
LEMMA AveragedMoves ==
    ASSUME NEW row \in Filled, NEW qty \in Nat \ {0}, NEW total \in Nat,
           NEW e, e.kind = "PURCHASE", e.qty = qty, e.unit = HalfUp(total, qty)
    PROVE  Moved(row, e, Averaged(row, qty, total))
<1> DEFINE new == Averaged(row, qty, total)
<1>1. new.qty = row.qty + qty /\ new.cost = HalfUp(row.qty * row.cost + total, row.qty + qty)
  BY DEF Averaged
<1> HIDE DEF new
<1>2. new.cost = HalfUp(row.qty * row.cost + total, new.qty) /\ e.qty > 0
  BY <1>1
<1>3. \E amount \in Nat : /\ e.unit = HalfUp(amount, e.qty)
                         /\ new.cost = HalfUp(row.qty * row.cost + amount, new.qty)
  BY <1>2
<1>4. Moved(row, e, new)
  BY <1>1, <1>2, <1>3 DEF Moved
<1>5. QED
  BY <1>4 DEF new

\* An adjustment is what its movement does.
LEMMA AdjustedMoves ==
    ASSUME NEW row \in Filled, NEW qty \in Int \ {0}, NEW unit \in Nat,
           NEW e, e.kind = IF qty > 0 THEN "ADJUSTMENT_IN" ELSE "ADJUSTMENT_OUT",
           e.qty = qty, qty > 0 => e.unit = unit
    PROVE  Moved(row, e, Adjusted(row, qty, unit))
<1> DEFINE new == Adjusted(row, qty, unit)
<1>1. new.qty = row.qty + qty
      /\ new.cost = IF qty > 0 THEN HalfEven(row.qty * row.cost + qty * unit, row.qty + qty) ELSE row.cost
  BY DEF Adjusted
<1> HIDE DEF new
<1>2. ASSUME qty > 0 PROVE Moved(row, e, new)
  BY <1>1, <1>2 DEF Moved
<1>3. ASSUME ~(qty > 0) PROVE Moved(row, e, new)
  BY <1>1, <1>3 DEF Moved
<1>4. Moved(row, e, new)
  BY <1>2, <1>3
<1>5. QED
  BY <1>4 DEF new

\* An adjustment has written one row and one movement.
Adjusts(new, i, e) ==
    /\ StockRow(i) \in new.held /\ stock[i] \in Filled
    /\ \E d \in Deliveries : Corrects(new, i, d)
    /\ \E row \in Filled : Moved(stock[i], e, row) /\ new.wrote = [Nothing EXCEPT ![i] = row]
    /\ new.entries = [NoEntries EXCEPT ![i] = <<e>>] /\ e.ref = "none"

\* The steps of an adjustment of one row.
LEMMA Adjusting ==
    ASSUME TypeInv, NEW t \in Txs, NEW i \in Stocks, NEW d \in Deliveries, StartAdjusting(t, i, d)
    PROVE  \E new \in Running, e \in Entry : Begins(t, new) /\ Adjusts(new, i, e)
<1> DEFINE e == Correction(i, d)
           row == Adjusted(stock[i], d.qty, d.unit)
           first == Started("costing", "none", {StockRow(i)}, <<>>)
           new == [first EXCEPT !.wrote[i] = row, !.entries[i] = <<e>>]
<1>1. d.qty \in Int \ {0} /\ d.unit \in Nat
  BY PurchasingAssumption
<1>2. stock[i] \in Filled
  BY RowsFilled DEF StartAdjusting, TypeInv, TypeOK
<1>3. stock[i].qty + d.qty >= 0
  BY DEF StartAdjusting, Adjustable
<1>4. row \in Filled
  BY <1>1, <1>2, <1>3, AdjustedRow DEF Filled
<1>5. e \in Entry /\ e.ref = "none" /\ Moved(stock[i], e, row)
  <2>1. e \in Entry /\ e.ref = "none"
    BY <1>1, <1>2 DEF Entry, Filled, Correction
  <2>2. /\ e.kind = IF d.qty > 0 THEN "ADJUSTMENT_IN" ELSE "ADJUSTMENT_OUT"
        /\ e.qty = d.qty /\ (d.qty > 0 => e.unit = d.unit)
    BY DEF Correction
  <2> HIDE DEF e
  <2>3. QED
    BY <1>1, <1>2, <2>1, <2>2, AdjustedMoves
<1>6. first \in Running
  <2>1. {StockRow(i)} \in SUBSET Rows
    BY RowsAre
  <2>2. QED
    BY <2>1, StartedRuns DEF TypeInv, TypeOK
<1>7. first.wrote = Nothing /\ first.entries = NoEntries /\ first.items = <<>> /\ first.todo = <<>>
      /\ first.purchase = "none" /\ first.held = {StockRow(i)}
  BY DEF Started
<1>8. tx[t] = Idle /\ tx' = [tx EXCEPT ![t] = new] /\ Free(StockRow(i)) /\ UNCHANGED Tables
  BY DEF StartAdjusting, Tables, Correction
<1> HIDE DEF e, row, first
<1>9. new = [first EXCEPT !.wrote = [Nothing EXCEPT ![i] = row], !.entries = [NoEntries EXCEPT ![i] = <<e>>]]
  BY <1>6, <1>7, RunningIs
<1> HIDE DEF new
<1>10. [Nothing EXCEPT ![i] = row] \in [Stocks -> StockRows]
  BY <1>4, RowsStored DEF Nothing
<1>11. [NoEntries EXCEPT ![i] = <<e>>] \in [Stocks -> Seq(Entry)]
  <2>1. <<e>> \in Seq(Entry) /\ <<>> \in Seq(Entry)
    BY <1>5
  <2>2. QED
    BY <2>1 DEF NoEntries
<1>12. new \in Running
  BY <1>6, <1>9, <1>10, <1>11, RunningIs
<1>13. /\ new.held = {StockRow(i)} /\ new.purchase = "none" /\ new.items = <<>> /\ new.todo = <<>>
       /\ new.wrote = [Nothing EXCEPT ![i] = row] /\ new.entries = [NoEntries EXCEPT ![i] = <<e>>]
  BY <1>6, <1>7, <1>9, RunningIs
<1>14. Begins(t, new)
  BY <1>8, <1>13 DEF Begins
<1>15. Adjusts(new, i, e)
  <2>1. Moved(stock[i], e, row) /\ StockRow(i) \in new.held
    BY <1>5, <1>13
  <2>2. Corrects(new, i, d)
    BY <1>2, <1>3, <1>13 DEF Corrects, e, row
  <2>3. QED
    BY <1>2, <1>4, <1>5, <1>13, <2>1, <2>2 DEF Adjusts
<1>16. QED
  BY <1>5, <1>12, <1>14, <1>15

\* An edit of the recipe, or a price, begins with nothing written.
LEMMA Editing ==
    ASSUME TypeInv, NEW t \in Txs,
           \/ \E r \in RecipeRows, i \in Stocks, n \in Needs :
                 StartAdding(t, r, i, n) \/ StartChanging(t, r, [stock |-> i, need |-> n])
           \/ \E r \in RecipeRows : StartChanging(t, r, NoRow)
           \/ \E price \in Prices : StartPricing(t, price)
    PROVE  \E new \in Running : Begins(t, new) /\ new.wrote = Nothing /\ new.entries = NoEntries
<1>1. ASSUME NEW r \in RecipeRows, NEW to \in RecipeEntries,
             tx[t] = Idle, Free(RecipeRow(r)), UNCHANGED Tables,
             tx' = [tx EXCEPT ![t] = [Started("syncing", "none", {RecipeRow(r)}, <<>>) EXCEPT
                                         !.edit = [row |-> r, to |-> to]]]
      PROVE  \E new \in Running : Begins(t, new) /\ new.wrote = Nothing /\ new.entries = NoEntries
  <2> DEFINE first == Started("syncing", "none", {RecipeRow(r)}, <<>>)
             new == [first EXCEPT !.edit = [row |-> r, to |-> to]]
  <2>1. first \in Running
    <3>1. {RecipeRow(r)} \in SUBSET Rows
      BY RowsAre
    <3>2. QED
      BY <3>1, StartedRuns DEF TypeInv, TypeOK
  <2>2. first.wrote = Nothing /\ first.entries = NoEntries /\ first.items = <<>> /\ first.todo = <<>>
        /\ first.purchase = "none" /\ first.held = {RecipeRow(r)}
    BY DEF Started
  <2> HIDE DEF first
  <2>3. new \in Running
    BY <2>1, RunningIs
  <2>4. /\ new.wrote = Nothing /\ new.entries = NoEntries /\ new.items = <<>> /\ new.todo = <<>>
        /\ new.purchase = "none" /\ new.held = {RecipeRow(r)}
    BY <2>1, <2>2, RunningIs
  <2>5. tx' = [tx EXCEPT ![t] = new]
    BY <1>1 DEF first
  <2> HIDE DEF new
  <2>6. Begins(t, new)
    BY <1>1, <2>4, <2>5 DEF Begins
  <2>7. QED
    BY <2>3, <2>4, <2>6
<1>2. ASSUME NEW r \in RecipeRows, NEW i \in Stocks, NEW n \in Needs, StartAdding(t, r, i, n)
      PROVE  \E new \in Running : Begins(t, new) /\ new.wrote = Nothing /\ new.entries = NoEntries
  <2>1. [stock |-> i, need |-> n] \in RecipeEntries
    BY DEF RecipeEntries
  <2>2. QED
    BY <1>1, <1>2, <2>1 DEF StartAdding, Tables
<1>3. ASSUME NEW r \in RecipeRows, NEW to \in RecipeEntries, StartChanging(t, r, to)
      PROVE  \E new \in Running : Begins(t, new) /\ new.wrote = Nothing /\ new.entries = NoEntries
  BY <1>1, <1>3 DEF StartChanging, Tables
<1>4. ASSUME NEW price \in Prices, StartPricing(t, price)
      PROVE  \E new \in Running : Begins(t, new) /\ new.wrote = Nothing /\ new.entries = NoEntries
  <2> DEFINE cost == [hpp |-> CostOf(stock, recipe), price |-> price]
             kind == IF cost = product THEN "ready" ELSE "pricing"
             first == Started(kind, "none", {}, <<>>)
             new == [first EXCEPT !.product = cost, !.columns = Differing(cost)]
  <2>1. first \in Running
    <3>1. kind \in {"ready", "pricing"} /\ {} \in SUBSET Rows
      OBVIOUS
    <3> HIDE DEF kind
    <3>2. QED
      BY <3>1, StartedRuns DEF TypeInv, TypeOK
  <2>2. first.wrote = Nothing /\ first.entries = NoEntries /\ first.items = <<>> /\ first.todo = <<>>
        /\ first.purchase = "none" /\ first.held = {}
    BY DEF Started
  <2>3. cost \in [hpp : Nat, price : Nat] /\ Differing(cost) \in SUBSET {"hpp", "price"}
    <3>1. CostOf(stock, recipe) \in Nat
      BY CostNat DEF TypeInv, TypeOK
    <3>2. price \in Nat
      BY PurchasingAssumption
    <3>3. QED
      BY <3>1, <3>2 DEF Differing
  <2>4. tx[t] = Idle /\ tx' = [tx EXCEPT ![t] = new] /\ UNCHANGED Tables
    BY <1>4 DEF StartPricing, Tables
  <2> HIDE DEF first, cost
  <2>5. new \in Running
    BY <2>1, <2>3, RunningIs
  <2>6. /\ new.wrote = Nothing /\ new.entries = NoEntries /\ new.items = <<>> /\ new.todo = <<>>
        /\ new.purchase = "none" /\ new.held = {}
    BY <2>1, <2>2, RunningIs
  <2> HIDE DEF new
  <2>7. Begins(t, new)
    BY <2>4, <2>6 DEF Begins
  <2>8. QED
    BY <2>5, <2>6, <2>7
<1>5. NoRow \in RecipeEntries /\ \A i \in Stocks, n \in Needs : [stock |-> i, need |-> n] \in RecipeEntries
  BY DEF RecipeEntries
<1>6. QED
  BY <1>2, <1>3, <1>4, <1>5

\* The steps that compute the product's cost, and write it.
LEMMA Costing ==
    ASSUME TypeInv, NEW t \in Txs, Recalculate(t) \/ Sync(t) \/ WritePrice(t)
    PROVE  \E new \in Running : GoesOn(t, new)
<1> DEFINE x == tx[t]
<1>1. t \in AtWork /\ x \in Running
  BY AtWorkRuns DEF Recalculate, Sync, WritePrice, TypeInv, AtWork
<1>2. tx \in [Txs -> Running \cup {Idle}] /\ product \in [hpp : Nat, price : Nat]
      /\ stock \in [Stocks -> StockRows] /\ recipe \in [RecipeRows -> RecipeEntries]
  BY DEF TypeInv, TypeOK
<1>3. x.wrote \in [Stocks -> StockRows] /\ x.edit \in [row : RecipeRows \cup {"none"}, to : RecipeEntries]
      /\ x.product \in [hpp : Nat, price : Nat]
  BY <1>1, RunningIs
<1>4. ASSUME NEW pc \in {"pricing", "ready"}, x.pc # "receiving", UNCHANGED Tables,
             NEW prod \in [hpp : Nat, price : Nat], NEW cols \in SUBSET {"hpp", "price"},
             NEW held, held = x.held \/ (held = x.held \cup {ProductRow} /\ Free(ProductRow)),
             tx' = [tx EXCEPT ![t] = [x EXCEPT !.pc = pc, !.product = prod, !.columns = cols, !.held = held]]
      PROVE  \E new \in Running : GoesOn(t, new)
  <2> DEFINE new == [x EXCEPT !.pc = pc, !.product = prod, !.columns = cols, !.held = held]
  <2>1. held \in SUBSET Rows
    <3>1. x.held \in SUBSET Rows
      BY <1>1, RunningIs
    <3>2. QED
      BY <1>4, <3>1, RowsAre
  <2>2. tx' = [tx EXCEPT ![t] = new]
    BY <1>4
  <2> HIDE DEF x
  <2>3. new \in Running
    BY <1>1, <2>1, RunningIs
  <2>4. /\ new.purchase = x.purchase /\ new.items = x.items /\ new.todo = x.todo
        /\ new.wrote = x.wrote /\ new.entries = x.entries /\ new.held = held /\ new.pc = pc
    BY <1>1, RunningIs
  <2>5. x.held \subseteq held /\ \A row \in held \ x.held : Free(row)
    BY <1>4
  <2> HIDE DEF new
  <2>6. GoesOn(t, new)
    BY <1>1, <1>4, <2>2, <2>4, <2>5 DEF GoesOn, x
  <2>7. QED
    BY <2>3, <2>6
<1>5. CASE Recalculate(t)
  <2> DEFINE hpp == CostOf(Seen(t), recipe)
             price == IF Markup = 0 THEN product.price ELSE hpp * (1 + Markup)
             prod == [hpp |-> hpp, price |-> price]
             pc == IF prod = product THEN "ready" ELSE "pricing"
  <2>1. hpp \in Nat
    <3>1. Seen(t) \in [Stocks -> StockRows]
      BY <1>2, <1>3 DEF Seen
    <3>2. QED
      BY <1>2, <3>1, CostNat
  <2> HIDE DEF hpp
  <2>2. price \in Nat
    <3>1. 1 + Markup \in Nat /\ product.price \in Nat
      BY <1>2, PurchasingAssumption
    <3>2. QED
      BY <2>1, <3>1, ProductNat
  <2> HIDE DEF price
  <2>3. prod \in [hpp : Nat, price : Nat] /\ Differing(prod) \in SUBSET {"hpp", "price"}
    BY <2>1, <2>2 DEF Differing
  <2>4. x.pc = "costing" /\ UNCHANGED Tables
    BY <1>5 DEF Recalculate, Tables
  <2>5. \/ tx' = [tx EXCEPT ![t].pc = "ready"]
        \/ tx' = [tx EXCEPT ![t].product = prod, ![t].columns = Differing(prod), ![t].pc = pc]
    BY <1>5 DEF Recalculate, hpp, price
  <2> HIDE DEF prod
  <2>6. CASE tx' = [tx EXCEPT ![t].pc = "ready"]
    <3>1. tx' = [tx EXCEPT ![t] = [x EXCEPT !.pc = "ready", !.product = x.product, !.columns = x.columns,
                                             !.held = x.held]]
      <4>1. [x EXCEPT !.pc = "ready"]
              = [x EXCEPT !.pc = "ready", !.product = x.product, !.columns = x.columns, !.held = x.held]
        BY <1>1, RunningIs
      <4>2. QED
        BY <2>6, <4>1
    <3>2. x.columns \in SUBSET {"hpp", "price"}
      BY <1>1, RunningIs
    <3>3. QED
      BY <1>3, <1>4, <2>4, <3>1, <3>2
  <2>7. CASE tx' = [tx EXCEPT ![t].product = prod, ![t].columns = Differing(prod), ![t].pc = pc]
    <3>1. tx' = [tx EXCEPT ![t] = [x EXCEPT !.pc = pc, !.product = prod, !.columns = Differing(prod),
                                             !.held = x.held]]
      <4>1. [x EXCEPT !.product = prod, !.columns = Differing(prod), !.pc = pc]
              = [x EXCEPT !.pc = pc, !.product = prod, !.columns = Differing(prod), !.held = x.held]
        BY <1>1, RunningIs
      <4>2. QED
        BY <2>7, <4>1
    <3>2. pc \in {"pricing", "ready"}
      OBVIOUS
    <3> HIDE DEF pc
    <3>3. QED
      BY <1>4, <2>3, <2>4, <3>1, <3>2
  <2>8. QED
    BY <2>5, <2>6, <2>7
<1>6. CASE Sync(t)
  <2> DEFINE hpp == CostOf(stock, Edited(t))
             prod == [x.product EXCEPT !.hpp = hpp]
  <2>1. Edited(t) \in [RecipeRows -> RecipeEntries]
    BY <1>2, <1>3 DEF Edited
  <2>2. hpp \in Nat
    BY <1>2, <2>1, CostNat
  <2> HIDE DEF hpp
  <2>3. prod \in [hpp : Nat, price : Nat]
    BY <1>3, <2>2
  <2>4. x.pc = "syncing" /\ UNCHANGED Tables
        /\ tx' = [tx EXCEPT ![t].product.hpp = hpp, ![t].columns = {"hpp"}, ![t].pc = "pricing"]
    BY <1>6 DEF Sync, Tables, hpp
  <2>5. tx' = [tx EXCEPT ![t] = [x EXCEPT !.product.hpp = hpp, !.columns = {"hpp"}, !.pc = "pricing"]]
    BY <2>4
  <2>6. [x EXCEPT !.product.hpp = hpp, !.columns = {"hpp"}, !.pc = "pricing"]
          = [x EXCEPT !.pc = "pricing", !.product = prod, !.columns = {"hpp"}, !.held = x.held]
    BY <1>1, RunningIs
  <2>7. tx' = [tx EXCEPT ![t] = [x EXCEPT !.pc = "pricing", !.product = prod, !.columns = {"hpp"},
                                           !.held = x.held]]
    BY <2>5, <2>6
  <2>8. x.pc # "receiving" /\ UNCHANGED Tables /\ {"hpp"} \in SUBSET {"hpp", "price"}
    BY <2>4
  <2> HIDE DEF prod, x
  <2>9. QED
    BY <1>4, <2>3, <2>7, <2>8
<1>7. CASE WritePrice(t)
  <2>1. x.pc = "pricing" /\ Free(ProductRow) /\ UNCHANGED Tables
        /\ tx' = [tx EXCEPT ![t] = [x EXCEPT !.held = @ \cup {ProductRow}, !.pc = "ready"]]
    BY <1>7 DEF WritePrice, Tables
  <2>2. [x EXCEPT !.held = @ \cup {ProductRow}, !.pc = "ready"]
          = [x EXCEPT !.pc = "ready", !.product = x.product, !.columns = x.columns,
                      !.held = x.held \cup {ProductRow}]
    BY <1>1, RunningIs
  <2>3. tx' = [tx EXCEPT ![t] = [x EXCEPT !.pc = "ready", !.product = x.product, !.columns = x.columns,
                                           !.held = x.held \cup {ProductRow}]]
    BY <2>1, <2>2
  <2>4. x.columns \in SUBSET {"hpp", "price"}
    BY <1>1, RunningIs
  <2> DEFINE held == x.held \cup {ProductRow}
  <2>5. held = x.held \cup {ProductRow} /\ Free(ProductRow) /\ x.pc # "receiving" /\ UNCHANGED Tables
    BY <2>1
  <2>6. tx' = [tx EXCEPT ![t] = [x EXCEPT !.pc = "ready", !.product = x.product, !.columns = x.columns,
                                           !.held = held]]
    BY <2>3
  <2> HIDE DEF held, x
  <2>7. QED
    BY <1>3, <1>4, <2>4, <2>5, <2>6
<1>8. QED
  BY <1>5, <1>6, <1>7

\* A receipt begins.
LEMMA ReceiptBegins ==
    ASSUME TypeInv, NEW t \in Txs, NEW p \in Purchases, StartReceiving(t, p)
    PROVE  LET list == purchases[p].items
               new == Started("receiving", p, {PurchaseRow(p)}, list)
           IN /\ new \in Running /\ tx[t] = Idle /\ tx' = [tx EXCEPT ![t] = new] /\ list \in Orderable
              /\ purchases[p].status = "open" /\ Free(PurchaseRow(p)) /\ UNCHANGED Tables
<1> DEFINE list == purchases[p].items
<1>1. {PurchaseRow(p)} \in SUBSET Rows
  BY RowsAre
<1>2. product \in [hpp : Nat, price : Nat] /\ list \in Orderable \cup {<<>>}
  BY DEF TypeInv, TypeOK
<1>0. /\ "receiving" \in {"receiving", "costing", "syncing", "pricing", "ready"}
      /\ p \in Purchases \cup {"none"} /\ list \in Orderable
  BY <1>2 DEF StartReceiving
<1>3. Started("receiving", p, {PurchaseRow(p)}, list) \in Running
  BY <1>0, <1>1, <1>2, StartedRuns
<1>4. QED
  BY <1>0, <1>3 DEF StartReceiving, Tables

\* The row of an item received is held, and has one movement more.
Receives(t, new, i, e) ==
    /\ stock[i] \in Filled /\ Free(StockRow(i)) /\ new.held = tx[t].held \cup {StockRow(i)}
    /\ \E row \in Filled : /\ Moved(stock[i], e, row)
                          /\ new.wrote = [tx[t].wrote EXCEPT ![i] = row]
    /\ new.entries = [tx[t].entries EXCEPT ![i] = Append(tx[t].entries[i], e)]

\* The transaction is new once the k-th item of its purchase, of row i, is in as e.
ItemStep(t, new, k, i, e) ==
    /\ tx' = [tx EXCEPT ![t] = new] /\ Received(tx[t], k - 1)
    /\ Receives(t, new, i, e) /\ i = tx[t].items[k].stock
    /\ e.qty = tx[t].items[k].qty /\ e.ref = tx[t].purchase
    /\ e = Arrival(tx[t].purchase, tx[t].items[k])
    /\ new.wrote[i] = Averaged(stock[i], tx[t].items[k].qty, tx[t].items[k].total)
    /\ new.purchase = tx[t].purchase /\ new.items = tx[t].items
    /\ new.todo = SubSeq(tx[t].items, k + 1, Len(tx[t].items))
    /\ new.pc # "receiving" => k = Len(tx[t].items)

\* An item is received: the k-th.
LEMMA ItemReceived ==
    ASSUME TypeInv, OnShelves, Receipts, NEW t \in Txs, ReceiveItem(t)
    PROVE  /\ t \in AtWork /\ tx[t].purchase \in Purchases /\ tx[t].items \in Orderable /\ UNCHANGED Tables
           /\ \E new \in Running, k \in 1..Len(tx[t].items), i \in Stocks, e \in Entry :
                 ItemStep(t, new, k, i, e)
<1> DEFINE x == tx[t]
           item == Head(x.todo)
           i == item.stock
           row == Averaged(stock[i], item.qty, item.total)
           pc == IF Len(x.todo) = 1 THEN "costing" ELSE "receiving"
<1>1. t \in AtWork /\ x \in Running
  BY AtWorkRuns DEF ReceiveItem, TypeInv, AtWork
<1>2. x.todo # <<>> /\ Free(StockRow(i)) /\ UNCHANGED Tables
  BY DEF ReceiveItem, Tables
<1>3. x.purchase \in Purchases /\ x.items \in Orderable /\ item \in Items /\ stock[i] \in Filled
  BY <1>1, <1>2, NextItem DEF TypeInv
<1>4. PICK k \in 1..Len(x.items) : /\ Received(x, k - 1) /\ item = x.items[k]
                                   /\ Tail(x.todo) = SubSeq(x.items, k + 1, Len(x.items))
                                   /\ Len(x.todo) = Len(x.items) - (k - 1)
  BY <1>1, <1>2, NextItem DEF TypeInv
<1>5. tx' = [tx EXCEPT ![t] = [x EXCEPT !.wrote[i] = row, !.entries[i] = Append(@, Arrival(x.purchase, item)),
                                         !.held = @ \cup {StockRow(i)}, !.todo = Tail(@), !.pc = pc]]
  BY DEF ReceiveItem, Arrival
<1> DEFINE new == [x EXCEPT !.wrote = [x.wrote EXCEPT ![i] = row],
                            !.entries = [x.entries EXCEPT ![i] = Append(@, Arrival(x.purchase, item))],
                            !.held = x.held \cup {StockRow(i)}, !.todo = Tail(x.todo), !.pc = pc]
<1>6. tx' = [tx EXCEPT ![t] = new]
  BY <1>5
<1>7. i \in Stocks /\ item.qty \in Nat \ {0} /\ item.total \in Nat
  BY <1>3 DEF Items
<1>8. row \in Filled
  BY <1>3, <1>7, AveragedRow DEF Filled
<1>9. Arrival(x.purchase, item) \in Entry
  <2> HIDE DEF item
  <2>1. HalfUp(item.total, item.qty) \in Nat
    <3>1. item.qty \in Nat /\ item.qty > 0
      BY <1>7
    <3>2. QED
      BY <1>7, <3>1, RoundedNat
  <2>2. QED
    BY <1>3, <1>7, <2>1 DEF Arrival, Entry
<1>10. pc \in {"receiving", "costing"} /\ (pc # "receiving" => k = Len(x.items))
  <2>1. Len(x.items) \in Nat
    BY <1>3, ListItems
  <2>2. QED
    BY <1>4, <2>1
<1>11. x.wrote \in [Stocks -> StockRows] /\ x.entries \in [Stocks -> Seq(Entry)] /\ x.held \in SUBSET Rows
       /\ x.todo \in Rests
  BY <1>1, RunningIs
<1>12. Tail(x.todo) \in Rests
  BY <1>2, <1>11, RestTail
<1>13. [x.wrote EXCEPT ![i] = row] \in [Stocks -> StockRows]
  BY <1>7, <1>8, <1>11, RowsStored
<1>14. [x.entries EXCEPT ![i] = Append(@, Arrival(x.purchase, item))] \in [Stocks -> Seq(Entry)]
  <2>1. Append(x.entries[i], Arrival(x.purchase, item)) \in Seq(Entry)
    BY <1>7, <1>9, <1>11
  <2>2. QED
    BY <1>7, <1>11, <2>1
<1>15. x.held \cup {StockRow(i)} \in SUBSET Rows
  BY <1>7, <1>11, RowsAre
<1> HIDE DEF x, item, row, pc
<1>16. new \in Running
  BY <1>1, <1>10, <1>12, <1>13, <1>14, <1>15, RunningIs
<1>17. /\ new.purchase = x.purchase /\ new.items = x.items /\ new.todo = Tail(x.todo) /\ new.pc = pc
       /\ new.held = x.held \cup {StockRow(i)} /\ new.wrote = [x.wrote EXCEPT ![i] = row]
       /\ new.entries = [x.entries EXCEPT ![i] = Append(@, Arrival(x.purchase, item))]
  BY <1>1, RunningIs
<1> HIDE DEF new
<1> DEFINE e == Arrival(x.purchase, item)
<1>18. /\ e \in Entry /\ e.qty = item.qty /\ e.ref = x.purchase
       /\ e.kind = "PURCHASE" /\ e.unit = HalfUp(item.total, item.qty)
  BY <1>9 DEF Arrival
<1>19. new.entries = [x.entries EXCEPT ![i] = Append(x.entries[i], e)]
  BY <1>17
<1> HIDE DEF e
<1>20. Receives(t, new, i, e)
  <2>1. Moved(stock[i], e, row)
    BY <1>3, <1>7, <1>18, AveragedMoves DEF row
  <2>2. QED
    BY <1>2, <1>3, <1>8, <1>17, <1>19, <2>1 DEF Receives, x
<1>21. /\ i = x.items[k].stock /\ e.qty = x.items[k].qty /\ e = Arrival(x.purchase, x.items[k])
       /\ new.wrote[i] = Averaged(stock[i], x.items[k].qty, x.items[k].total)
  <2>1. new.wrote[i] = row
    BY <1>7, <1>11, <1>17
  <2>2. QED
    BY <1>4, <1>18, <2>1 DEF e, row
<1>22. new.todo = SubSeq(x.items, k + 1, Len(x.items)) /\ (new.pc # "receiving" => k = Len(x.items))
  <2>1. new.todo = SubSeq(x.items, k + 1, Len(x.items))
    BY <1>4, <1>17, Zenon
  <2>2. QED
    BY <1>10, <1>17, <2>1, Zenon
<1> HIDE DEF i
<1>23. t \in AtWork /\ x.purchase \in Purchases /\ x.items \in Orderable /\ UNCHANGED Tables
  BY <1>1, <1>2, <1>3, Zenon
<1>24. ItemStep(t, new, k, i, e)
  BY <1>4, <1>6, <1>17, <1>18, <1>20, <1>21, <1>22 DEF ItemStep, x
<1> HIDE DEF e
<1>25. QED
  BY <1>7, <1>16, <1>18, <1>23, <1>24 DEF x

\* A commit makes what it wrote the rows, and ends.
LEMMA Commits ==
    ASSUME TypeInv, NEW t \in Txs, Commit(t)
    PROVE  /\ t \in AtWork /\ tx' = [tx EXCEPT ![t] = Idle] /\ tx[t].pc # "receiving"
           /\ stock' \in [Stocks -> StockRows] /\ moves' \in [Stocks -> Seq(Movement)]
           /\ \A i \in Stocks : stock'[i] = IF tx[t].wrote[i] # Absent THEN tx[t].wrote[i] ELSE stock[i]
           /\ \A i \in Stocks : moves'[i] = moves[i] \o tx[t].entries[i] /\ tx[t].entries[i] \in Seq(Entry)
           /\ recipe' \in [RecipeRows -> RecipeEntries] /\ product' \in [hpp : Nat, price : Nat]
           /\ purchases' \in [Purchases -> PurchaseTypes]
           /\ \A p \in Purchases :
                 purchases'[p] = IF p = tx[t].purchase
                                 THEN [status |-> "received", items |-> tx[t].items,
                                       total |-> Total(tx[t].items)]
                                 ELSE purchases[p]
           /\ UNCHANGED <<supplier, requests>>
<1> DEFINE x == tx[t]
<1>1. t \in AtWork /\ x \in Running /\ x.pc = "ready"
  BY AtWorkRuns DEF Commit, TypeInv, AtWork
<1>2. /\ x.wrote \in [Stocks -> StockRows] /\ x.entries \in [Stocks -> Seq(Entry)]
      /\ x.items \in Orderable \cup {<<>>} /\ x.purchase \in Purchases \cup {"none"}
      /\ x.edit \in [row : RecipeRows \cup {"none"}, to : RecipeEntries]
      /\ x.product \in [hpp : Nat, price : Nat]
  BY <1>1, RunningIs
<1>3. /\ stock \in [Stocks -> StockRows] /\ moves \in [Stocks -> Seq(Movement)]
      /\ recipe \in [RecipeRows -> RecipeEntries] /\ product \in [hpp : Nat, price : Nat]
      /\ purchases \in [Purchases -> PurchaseTypes]
  BY DEF TypeInv, TypeOK, PurchaseTypes
<1>4. tx' = [tx EXCEPT ![t] = Idle] /\ UNCHANGED <<supplier, requests>>
  BY DEF Commit
<1>5. /\ stock' \in [Stocks -> StockRows]
      /\ \A i \in Stocks : stock'[i] = IF x.wrote[i] # Absent THEN x.wrote[i] ELSE stock[i]
  BY <1>2, <1>3 DEF Commit, Seen
<1>6. moves' = [i \in Stocks |-> moves[i] \o x.entries[i]]
  BY DEF Commit
<1>7. ASSUME NEW i \in Stocks PROVE x.entries[i] \in Seq(Entry) /\ moves[i] \o x.entries[i] \in Seq(Movement)
  <2>1. x.entries[i] \in Seq(Entry) /\ moves[i] \in Seq(Movement)
    BY <1>2, <1>3
  <2>2. x.entries[i] \in Seq(Movement)
    BY <2>1, EntryIsMovement
  <2>3. QED
    BY <2>1, <2>2
<1>8. recipe' \in [RecipeRows -> RecipeEntries]
  BY <1>2, <1>3 DEF Commit, Edited
<1>9. product' \in [hpp : Nat, price : Nat]
  <2>1. product' = [c \in {"hpp", "price"} |-> IF c \in x.columns THEN x.product[c] ELSE product[c]]
    BY DEF Commit
  <2>2. \A c \in {"hpp", "price"} : x.product[c] \in Nat /\ product[c] \in Nat
    BY <1>2, <1>3
  <2> DEFINE f == [c \in {"hpp", "price"} |-> IF c \in x.columns THEN x.product[c] ELSE product[c]]
  <2>3. f["hpp"] \in Nat /\ f["price"] \in Nat
    BY <2>2
  <2>4. f = [hpp |-> f["hpp"], price |-> f["price"]]
    OBVIOUS
  <2> HIDE DEF f
  <2>5. f \in [hpp : Nat, price : Nat]
    BY <2>3, <2>4
  <2>6. QED
    BY <2>1, <2>5 DEF f
<1>10. /\ purchases' \in [Purchases -> PurchaseTypes]
       /\ \A p \in Purchases :
             purchases'[p] = IF p = x.purchase
                             THEN [status |-> "received", items |-> x.items, total |-> Total(x.items)]
                             ELSE purchases[p]
  <2> DEFINE new == [status |-> "received", items |-> x.items, total |-> Total(x.items)]
  <2>1. new \in PurchaseTypes
    <3>1. Total(x.items) \in Nat
      BY <1>2, TotalNat
    <3>2. QED
      BY <1>2, <3>1 DEF PurchaseTypes
  <2>2. purchases' = IF x.purchase = "none" THEN purchases ELSE [purchases EXCEPT ![x.purchase] = new]
    BY DEF Commit
  <2> HIDE DEF new
  <2>3. CASE x.purchase = "none"
    <3>1. \A p \in Purchases : p # x.purchase
      BY <2>3, PurchasingAssumption
    <3>2. QED
      BY <1>3, <2>2, <2>3, <3>1
  <2>4. CASE x.purchase # "none"
    BY <1>2, <1>3, <2>1, <2>2, <2>4 DEF new
  <2>5. QED
    BY <2>3, <2>4
<1>11. QED
  BY <1>1, <1>4, <1>5, <1>6, <1>7, <1>8, <1>9, <1>10

\* Every step keeps the types.
LEMMA TypesStep ==
    ASSUME TypeInv, OnShelves, Receipts, [Next]_vars
    PROVE  TypeInv'
<1>1. ASSUME NEW t \in Txs, NEW new \in Running \cup {Idle}, tx' = [tx EXCEPT ![t] = new], UNCHANGED Tables,
             requests' = requests \/ Request
      PROVE  TypeInv'
  <2>1. requests' \in 0..MaxRequests
    BY <1>1, RequestTypes DEF TypeInv, TypeOK
  <2>2. tx' \in [Txs -> Running \cup {Idle}]
    BY <1>1 DEF TypeInv, TypeOK
  <2>3. QED
    BY <1>1, <2>1, <2>2 DEF TypeInv, TypeOK, Tables
<1>2. CASE \/ UpdateSupplier \/ DeleteSupplier
           \/ \E p \in Purchases : (\E list \in Orderable : CreatePurchase(p, list) \/ EditItems(p, list))
                                   \/ CancelPurchase(p)
           \/ \E i \in Stocks : (\E o \in Openings : CreateStock(i, o)) \/ DeleteStock(i) \/ Consume(i, 1)
  BY <1>2, TypesTables
<1>3. ASSUME NEW t \in Txs, NEW p \in Purchases, StartReceiving(t, p)
      PROVE  TypeInv'
  BY <1>1, <1>3, ReceiptBegins DEF StartReceiving
<1>4. ASSUME NEW t \in Txs, NEW i \in Stocks, NEW d \in Deliveries, StartAdjusting(t, i, d) PROVE TypeInv'
  <2>1. PICK new \in Running : Begins(t, new)
    BY <1>4, Adjusting
  <2>2. Request
    BY <1>4 DEF StartAdjusting
  <2>3. QED
    BY <1>1, <2>1, <2>2 DEF Begins
<1>5. ASSUME NEW t \in Txs,
             \/ \E r \in RecipeRows, i \in Stocks, n \in Needs :
                   StartAdding(t, r, i, n) \/ StartChanging(t, r, [stock |-> i, need |-> n])
             \/ \E r \in RecipeRows : StartChanging(t, r, NoRow)
             \/ \E price \in Prices : StartPricing(t, price)
      PROVE  TypeInv'
  <2>1. PICK new \in Running : Begins(t, new)
    BY <1>5, Editing
  <2>2. Request
    BY <1>5 DEF StartAdding, StartChanging, StartPricing
  <2>3. QED
    BY <1>1, <2>1, <2>2 DEF Begins
<1>6. ASSUME NEW t \in Txs, Recalculate(t) \/ Sync(t) \/ WritePrice(t) PROVE TypeInv'
  <2>1. PICK new \in Running : GoesOn(t, new)
    BY <1>6, Costing
  <2>2. requests' = requests
    BY <1>6 DEF Recalculate, Sync, WritePrice
  <2>3. QED
    BY <1>1, <2>1, <2>2 DEF GoesOn
<1>7. ASSUME NEW t \in Txs, ReceiveItem(t) PROVE TypeInv'
  <2>1. UNCHANGED Tables /\ \E new \in Running : tx' = [tx EXCEPT ![t] = new]
    BY <1>7, ItemReceived DEF ItemStep
  <2>2. requests' = requests
    BY <1>7 DEF ReceiveItem
  <2>3. QED
    BY <1>1, <2>1, <2>2
<1>8. ASSUME NEW t \in Txs, Commit(t) PROVE TypeInv'
  <2>1. tx' \in [Txs -> Running \cup {Idle}]
    BY <1>8, Commits DEF TypeInv, TypeOK
  <2>2. QED
    BY <1>8, <2>1, Commits DEF TypeInv, TypeOK, PurchaseTypes
<1>9. ASSUME NEW t \in Txs, Abort(t) PROVE TypeInv'
  BY <1>1, <1>9 DEF Abort, Tables
<1>10. CASE UNCHANGED vars
  BY <1>10 DEF TypeInv, TypeOK, vars
<1>11. QED
  BY <1>2, <1>3, <1>4, <1>5, <1>6, <1>7, <1>8, <1>9, <1>10 DEF Next

-------------------------------------------------------------------------------
(* The steps, by what they do to transactions.                             *)

TableStep ==
    \/ UpdateSupplier \/ DeleteSupplier
    \/ \E p \in Purchases : (\E list \in Orderable : CreatePurchase(p, list) \/ EditItems(p, list))
                            \/ CancelPurchase(p)
    \/ \E i \in Stocks : (\E o \in Openings : CreateStock(i, o)) \/ DeleteStock(i) \/ Consume(i, 1)

\* A step changes the tables alone, or it begins, continues or ends one transaction.
LEMMA StepCases ==
    ASSUME TypeInv, [Next]_vars
    PROVE  \/ UNCHANGED vars
           \/ TableStep
           \/ \E t \in Txs, new \in Running :
                 /\ Begins(t, new)
                 /\ \/ new.wrote = Nothing /\ new.entries = NoEntries
                    \/ \E i \in Stocks, e \in Entry : Adjusts(new, i, e)
           \/ \E t \in Txs, p \in Purchases : StartReceiving(t, p)
           \/ \E t \in Txs, new \in Running : GoesOn(t, new)
           \/ \E t \in Txs : ReceiveItem(t) \/ Commit(t) \/ Abort(t)
<1>1. ASSUME NEW t \in Txs, NEW i \in Stocks, NEW d \in Deliveries, StartAdjusting(t, i, d)
      PROVE  \E new \in Running, e \in Entry : Begins(t, new) /\ Adjusts(new, i, e)
  BY <1>1, Adjusting
<1>2. ASSUME NEW t \in Txs,
             \/ \E r \in RecipeRows, i \in Stocks, n \in Needs :
                   StartAdding(t, r, i, n) \/ StartChanging(t, r, [stock |-> i, need |-> n])
             \/ \E r \in RecipeRows : StartChanging(t, r, NoRow)
             \/ \E price \in Prices : StartPricing(t, price)
      PROVE  \E new \in Running : Begins(t, new) /\ new.wrote = Nothing /\ new.entries = NoEntries
  BY <1>2, Editing
<1>3. ASSUME NEW t \in Txs, Recalculate(t) \/ Sync(t) \/ WritePrice(t)
      PROVE  \E new \in Running : GoesOn(t, new)
  BY <1>3, Costing
<1>4. CASE Next
  BY <1>1, <1>2, <1>3, <1>4 DEF Next, TableStep
<1>5. QED
  BY <1>4

\* A free row is held by nobody.
LEMMA FreeRow == \A row : Free(row) <=> \A t \in AtWork : row \notin tx[t].held
BY DEF Free, Locks, AtWork

\* A transaction at work is not idle.
LEMMA IdleIsNot == Idle \notin Running
BY DEF Idle, Running

\* What one transaction's change leaves of the others.
LEMMA OthersKeep ==
    ASSUME TypeInv, NEW t \in Txs, NEW new \in Running \cup {Idle}, tx' = [tx EXCEPT ![t] = new]
    PROVE  /\ tx'[t] = new /\ \A u \in Txs : u # t => tx'[u] = tx[u]
           /\ \A u \in Txs : u # t => (u \in AtWork' <=> u \in AtWork)
           /\ t \in AtWork' <=> new \in Running
           /\ AtWork' \subseteq Txs
<1>1. tx'[t] = new /\ \A u \in Txs : u # t => tx'[u] = tx[u]
  BY DEF TypeInv, TypeOK
<1>2. new.pc # "idle" <=> new \in Running
  BY WorkingOrIdle, IdleIsNot
<1>3. AtWork' = {u \in Txs : tx'[u].pc # "idle"}
  BY DEF AtWork
<1>4. QED
  BY <1>1, <1>2, <1>3 DEF AtWork

\* Locks stay apart if what is newly held was free.
LEMMA LocksKept ==
    ASSUME TypeInv, LocksApart, NEW t \in Txs, NEW new \in Running \cup {Idle}, tx' = [tx EXCEPT ![t] = new],
           new \in Running => \A row \in new.held : Free(row) \/ (t \in AtWork /\ row \in tx[t].held)
    PROVE  LocksApart'
<1> SUFFICES ASSUME NEW u \in AtWork', NEW v \in AtWork', NEW row \in tx'[u].held \cap tx'[v].held, u # v
             PROVE  FALSE
  BY DEF LocksApart
<1>1. ASSUME NEW w \in AtWork', w # t, t \in AtWork', row \in tx'[w].held, row \in tx'[t].held PROVE FALSE
  <2>1. w \in AtWork /\ row \in tx[w].held /\ new \in Running /\ row \in new.held
    BY <1>1, OthersKeep
  <2>2. CASE Free(row)
    BY <2>1, <2>2, FreeRow
  <2>3. CASE t \in AtWork /\ row \in tx[t].held
    BY <1>1, <2>1, <2>3 DEF LocksApart
  <2>4. QED
    BY <2>1, <2>2, <2>3
<1>2. CASE u # t /\ v # t
  <2>1. u \in AtWork /\ v \in AtWork /\ row \in tx[u].held /\ row \in tx[v].held
    BY <1>2, OthersKeep
  <2>2. QED
    BY <2>1 DEF LocksApart
<1>3. QED
  BY <1>1, <1>2

\* A request of one step leaves every transaction where it is.
LEMMA TablesKeepTx == TableStep => tx' = tx
BY DEF TableStep, UpdateSupplier, DeleteSupplier, CreatePurchase, EditItems, CancelPurchase, CreateStock,
       DeleteStock, Consume

\* Every step keeps locks apart.
LEMMA LocksStep ==
    ASSUME TypeInv, OnShelves, Receipts, LocksApart, [Next]_vars
    PROVE  LocksApart'
<1>1. ASSUME tx' = tx PROVE LocksApart'
  BY <1>1 DEF LocksApart, AtWork
<1>2. ASSUME NEW t \in Txs, NEW new \in Running, Begins(t, new) PROVE LocksApart'
  BY <1>2, LocksKept DEF Begins
<1>3. ASSUME NEW t \in Txs, NEW p \in Purchases, StartReceiving(t, p)
      PROVE  LocksApart'
  <2> DEFINE list == purchases[p].items
             new == Started("receiving", p, {PurchaseRow(p)}, list)
  <2>1. new \in Running /\ tx' = [tx EXCEPT ![t] = new] /\ Free(PurchaseRow(p))
    BY <1>3, ReceiptBegins
  <2>2. new.held = {PurchaseRow(p)}
    BY DEF Started
  <2> HIDE DEF new
  <2>3. QED
    BY <2>1, <2>2, LocksKept
<1>4. ASSUME NEW t \in Txs, NEW new \in Running, GoesOn(t, new) PROVE LocksApart'
  BY <1>4, LocksKept DEF GoesOn
<1>5. ASSUME NEW t \in Txs, ReceiveItem(t) PROVE LocksApart'
  <2>1. PICK new \in Running, i \in Stocks, e \in Entry :
           tx' = [tx EXCEPT ![t] = new] /\ Receives(t, new, i, e)
    BY <1>5, ItemReceived DEF ItemStep
  <2>2. t \in AtWork
    BY <1>5, ItemReceived
  <2>3. QED
    BY <2>1, <2>2, LocksKept DEF Receives
<1>6. ASSUME NEW t \in Txs, Commit(t) \/ Abort(t) PROVE LocksApart'
  <2>1. tx' = [tx EXCEPT ![t] = Idle]
    BY <1>6 DEF Commit, Abort
  <2>2. QED
    BY <2>1, IdleIsNot, LocksKept
<1>7. UNCHANGED vars => tx' = tx
  BY DEF vars
<1>8. QED
  BY <1>1, <1>2, <1>3, <1>4, <1>5, <1>6, <1>7, StepCases, TablesKeepTx

-------------------------------------------------------------------------------
(* Rows that exist.                                                        *)

\* What the schema layer accepts refers to rows that exist.
LEMMA AcceptableIsPresent ==
    ASSUME NEW list, \A n \in DOMAIN list : Acceptable(list[n])
    PROVE  Present(list)
BY DEF Present, Acceptable

\* The three parts of OnShelves after a step.
LEMMA ShelvesKept ==
    ASSUME TypeInv, OnShelves, stock' = stock, moves' = moves,
           \A p \in Purchases : purchases'[p].items = purchases[p].items
                                \/ \A n \in DOMAIN purchases'[p].items :
                                      stock[purchases'[p].items[n].stock] # Absent,
           \A t \in AtWork' : (t \in AtWork /\ tx'[t].items = tx[t].items)
                              \/ \A n \in DOMAIN tx'[t].items : stock[tx'[t].items[n].stock] # Absent
    PROVE  OnShelves'
BY DEF OnShelves, Present

\* A request of one step removes no row that a purchase or a transaction needs.
LEMMA ShelvesTables == ASSUME TypeInv, OnShelves, TableStep PROVE OnShelves'
<1>1. tx' = tx /\ AtWork' = AtWork
  BY TablesKeepTx DEF AtWork
<1>2. /\ \A p \in Purchases : purchases[p].items \in Orderable \cup {<<>>}
      /\ \A t \in AtWork : tx[t].items \in Orderable \cup {<<>>}
  <2>1. \A t \in AtWork : tx[t] \in Running
    BY AtWorkRuns DEF TypeInv, AtWork
  <2>2. QED
    BY <2>1, RunningIs DEF TypeInv, TypeOK
<1>3. CASE UpdateSupplier \/ DeleteSupplier
  BY <1>1, <1>3 DEF UpdateSupplier, DeleteSupplier, OnShelves, Present
<1>4. ASSUME NEW p \in Purchases, NEW list \in Orderable, CreatePurchase(p, list) \/ EditItems(p, list)
      PROVE  OnShelves'
  <2>1. Present(list) /\ stock' = stock /\ moves' = moves
    BY <1>4, AcceptableIsPresent DEF CreatePurchase, EditItems
  <2>2. \A q \in Purchases : purchases'[q].items = purchases[q].items \/ purchases'[q].items = list
    <3>1. CASE CreatePurchase(p, list)
      BY <3>1 DEF CreatePurchase, TypeInv, TypeOK
    <3>2. CASE EditItems(p, list)
      BY <3>2 DEF EditItems, TypeInv, TypeOK
    <3>3. QED
      BY <1>4, <3>1, <3>2
  <2>3. QED
    BY <1>1, <2>1, <2>2, ShelvesKept DEF Present
<1>5. ASSUME NEW p \in Purchases, CancelPurchase(p) PROVE OnShelves'
  <2>1. \A q \in Purchases : purchases'[q].items = purchases[q].items
    BY <1>5 DEF CancelPurchase, TypeInv, TypeOK
  <2>2. QED
    BY <1>1, <1>5, <2>1, ShelvesKept DEF CancelPurchase
<1>6. ASSUME NEW i \in Stocks, NEW o \in Openings, CreateStock(i, o) PROVE OnShelves'
  <2>1. o # Absent
    BY PurchasingAssumption DEF Absent
  <2>2. stock' = [stock EXCEPT ![i] = o] /\ moves' = [moves EXCEPT ![i] = Opened(o)] /\ purchases' = purchases
    BY <1>6 DEF CreateStock
  <2>3. \A j : stock[j] # Absent => stock'[j] # Absent
    BY <2>1, <2>2 DEF TypeInv, TypeOK
  <2>4. \A j \in Stocks : stock'[j] = Absent => moves'[j] = <<>>
    BY <2>1, <2>2 DEF TypeInv, TypeOK, OnShelves
  <2>5. QED
    BY <1>1, <2>2, <2>3, <2>4 DEF OnShelves, Present
<1>7. ASSUME NEW i \in Stocks, DeleteStock(i) PROVE OnShelves'
  <2>1. stock' = [stock EXCEPT ![i] = Absent] /\ moves' = moves /\ moves[i] = <<>> /\ purchases' = purchases
    BY <1>7 DEF DeleteStock
  <2>2. /\ \A p \in Purchases : \A n \in DOMAIN purchases[p].items : purchases[p].items[n].stock # i
        /\ \A t \in AtWork : \A n \in DOMAIN tx[t].items : tx[t].items[n].stock # i
    BY <1>7 DEF DeleteStock, AtWork
  <2>3. \A j : j # i => stock'[j] = stock[j]
    BY <2>1 DEF TypeInv, TypeOK
  <2>4. \A p \in Purchases : Present(purchases[p].items)'
    BY <2>1, <2>2, <2>3 DEF OnShelves, Present
  <2>5. \A t \in AtWork : Present(tx[t].items)'
    BY <1>1, <2>2, <2>3 DEF OnShelves, Present
  <2>6. \A j \in Stocks : stock'[j] = Absent => moves'[j] = <<>>
    BY <2>1, <2>3 DEF OnShelves
  <2>7. QED
    BY <1>1, <2>4, <2>5, <2>6 DEF OnShelves
<1>8. ASSUME NEW i \in Stocks, Consume(i, 1) PROVE OnShelves'
  <2>1. stock[i].qty >= 1 /\ stock' = [stock EXCEPT ![i].qty = @ - 1] /\ purchases' = purchases
    BY <1>8 DEF Consume
  <2>2. stock[i] \in Filled
    BY <2>1, RowsFilled DEF Absent, TypeInv, TypeOK
  <2>3. stock'[i].qty = stock[i].qty - 1 /\ stock'[i].qty \in Nat
    BY <2>1, <2>2 DEF Filled, TypeInv, TypeOK
  <2>4. stock'[i] # Absent
    BY <2>3 DEF Absent
  <2>5. \A j : j # i => stock'[j] = stock[j]
    BY <2>1 DEF TypeInv, TypeOK
  <2>6. \A j : stock[j] # Absent => stock'[j] # Absent
    BY <2>4, <2>5
  <2>7. \A j \in Stocks : j # i => moves'[j] = moves[j]
    BY <1>8 DEF Consume, TypeInv, TypeOK
  <2>8. \A j \in Stocks : stock'[j] = Absent => moves'[j] = <<>>
    BY <2>4, <2>5, <2>7 DEF OnShelves
  <2>9. QED
    BY <1>1, <2>1, <2>6, <2>8 DEF OnShelves, Present
<1>9. QED
  BY <1>3, <1>4, <1>5, <1>6, <1>7, <1>8 DEF TableStep

\* Every step keeps OnShelves.
LEMMA ShelvesStep ==
    ASSUME TypeInv, OnShelves, WritesAreMoves, Receipts, [Next]_vars
    PROVE  OnShelves'
<1>1. ASSUME NEW t \in Txs, NEW new \in Running \cup {Idle}, tx' = [tx EXCEPT ![t] = new], UNCHANGED Tables,
             new \in Running => \/ t \in AtWork /\ new.items = tx[t].items
                                \/ \A n \in DOMAIN new.items : stock[new.items[n].stock] # Absent
      PROVE  OnShelves'
  <2>1. \A u \in AtWork' : (u \in AtWork /\ tx'[u].items = tx[u].items)
                           \/ \A n \in DOMAIN tx'[u].items : stock[tx'[u].items[n].stock] # Absent
    <3>1. ASSUME NEW u \in AtWork', u = t
          PROVE  (u \in AtWork /\ tx'[u].items = tx[u].items)
                 \/ \A n \in DOMAIN tx'[u].items : stock[tx'[u].items[n].stock] # Absent
      <4>1. new \in Running /\ tx'[u] = new
        BY <1>1, <3>1, OthersKeep
      <4>2. QED
        BY <1>1, <3>1, <4>1
    <3>2. ASSUME NEW u \in AtWork', u # t PROVE u \in AtWork /\ tx'[u] = tx[u]
      BY <1>1, <3>2, OthersKeep
    <3>3. QED
      BY <3>1, <3>2
  <2>2. QED
    BY <1>1, <2>1, ShelvesKept DEF Tables
<1>2. ASSUME NEW t \in Txs, NEW new \in Running, Begins(t, new) PROVE OnShelves'
  <2>1. new.items = <<>> /\ DOMAIN <<>> = {}
    BY <1>2 DEF Begins
  <2>2. QED
    BY <1>1, <1>2, <2>1 DEF Begins
<1>3. ASSUME NEW t \in Txs, NEW p \in Purchases, StartReceiving(t, p)
      PROVE  OnShelves'
  <2> DEFINE list == purchases[p].items
             new == Started("receiving", p, {PurchaseRow(p)}, list)
  <2>1. new \in Running /\ tx' = [tx EXCEPT ![t] = new] /\ UNCHANGED Tables
    BY <1>3, ReceiptBegins
  <2>2. new.items = list
    BY DEF Started
  <2> HIDE DEF new
  <2>3. Present(list)
    BY DEF OnShelves
  <2>4. QED
    BY <1>1, <2>1, <2>2, <2>3 DEF Present
<1>4. ASSUME NEW t \in Txs, NEW new \in Running, GoesOn(t, new) PROVE OnShelves'
  BY <1>1, <1>4 DEF GoesOn
<1>5. ASSUME NEW t \in Txs, ReceiveItem(t) PROVE OnShelves'
  <2>1. t \in AtWork /\ UNCHANGED Tables
    BY <1>5, ItemReceived
  <2>2. PICK new \in Running : tx' = [tx EXCEPT ![t] = new] /\ new.items = tx[t].items
    BY <1>5, ItemReceived DEF ItemStep
  <2>3. QED
    BY <1>1, <2>1, <2>2
<1>6. ASSUME NEW t \in Txs, Abort(t) PROVE OnShelves'
  BY <1>1, <1>6, IdleIsNot DEF Abort, Tables
<1>7. ASSUME NEW t \in Txs, Commit(t) PROVE OnShelves'
  <2> DEFINE x == tx[t]
  <2>1. /\ t \in AtWork /\ tx' = [tx EXCEPT ![t] = Idle]
        /\ \A i \in Stocks : stock'[i] = IF x.wrote[i] # Absent THEN x.wrote[i] ELSE stock[i]
        /\ \A i \in Stocks : moves'[i] = moves[i] \o x.entries[i]
        /\ \A p \in Purchases :
              purchases'[p] = IF p = x.purchase
                              THEN [status |-> "received", items |-> x.items, total |-> Total(x.items)]
                              ELSE purchases[p]
    BY <1>7, Commits
  <2>2. \A i \in Stocks : stock[i] # Absent => stock'[i] # Absent
    BY <2>1
  <2>3. \A u \in AtWork' : u \in AtWork /\ tx'[u] = tx[u]
    BY <2>1, OthersKeep, IdleIsNot
  <2>4. x \in Running
    BY <2>1, AtWorkRuns DEF TypeInv, AtWork
  <2>5. ASSUME NEW p \in Purchases PROVE Present(purchases[p].items)'
    <3>1. purchases'[p].items \in {purchases[p].items, x.items}
      BY <2>1
    <3>2. purchases[p].items \in Orderable \cup {<<>>} /\ x.items \in Orderable \cup {<<>>}
      BY <2>4, RunningIs DEF TypeInv, TypeOK
    <3>3. Present(purchases[p].items) /\ Present(x.items)
      BY <2>1 DEF OnShelves
    <3>4. \A list \in {purchases[p].items, x.items} : \A n \in DOMAIN list : stock'[list[n].stock] # Absent
      BY <2>2, <3>2, <3>3, ListItems DEF Present
    <3>5. QED
      BY <3>1, <3>4 DEF Present
  <2>6. ASSUME NEW u \in AtWork' PROVE Present(tx[u].items)'
    <3>1. u \in AtWork /\ tx'[u] = tx[u] /\ u \in Txs
      BY <2>3 DEF AtWork
    <3>2. Present(tx[u].items) /\ tx[u].items \in Orderable \cup {<<>>}
      BY <3>1, AtWorkRuns, RunningIs DEF OnShelves, TypeInv
    <3>3. \A n \in DOMAIN tx[u].items : stock'[tx[u].items[n].stock] # Absent
      BY <2>2, <3>2, ListItems DEF Present
    <3>4. QED
      BY <3>1, <3>3 DEF Present
  <2>7. ASSUME NEW i \in Stocks, stock'[i] = Absent PROVE moves'[i] = <<>>
    <3>1. x.wrote[i] = Absent /\ stock[i] = Absent
      BY <2>1, <2>7
    <3>2. x.entries[i] = <<>> /\ moves[i] = <<>>
      BY <2>1, <3>1 DEF OnShelves, WritesAreMoves, Written
    <3>3. <<>> \o <<>> = <<>>
      OBVIOUS
    <3>4. QED
      BY <2>1, <3>2, <3>3
  <2>8. QED
    BY <2>5, <2>6, <2>7 DEF OnShelves
<1>8. CASE UNCHANGED vars
  BY <1>8 DEF vars, OnShelves, Present, AtWork
<1>9. QED
  BY <1>2, <1>3, <1>4, <1>5, <1>6, <1>7, <1>8, StepCases, ShelvesTables

-------------------------------------------------------------------------------
(* What is written and not committed.                                      *)

\* A transaction that a step leaves alone, with the rows it wrote.
LEMMA WrittenKept ==
    ASSUME WritesAreMoves, NEW u \in AtWork, tx'[u] = tx[u], NEW i \in Stocks,
           tx[u].wrote[i] # Absent => stock'[i] = stock[i]
    PROVE  Written(u, i)'
BY DEF WritesAreMoves, Written

\* Requests that change one row wait for it, or make it.
LEMMA HeldUntouched ==
    ASSUME TypeInv, WritesAreMoves, TableStep, NEW u \in AtWork, NEW i \in Stocks, tx[u].wrote[i] # Absent
    PROVE  stock'[i] = stock[i]
<1>1. stock[i] # Absent /\ ~Free(StockRow(i))
  BY FreeRow DEF WritesAreMoves, Written
<1>2. ASSUME NEW j \in Stocks, NEW o \in Openings, CreateStock(j, o) PROVE stock'[i] = stock[i]
  BY <1>1, <1>2 DEF CreateStock, TypeInv, TypeOK
<1>3. ASSUME NEW j \in Stocks, DeleteStock(j) \/ Consume(j, 1) PROVE stock'[i] = stock[i]
  BY <1>1, <1>3 DEF DeleteStock, Consume, TypeInv, TypeOK
<1>4. QED
  BY <1>2, <1>3 DEF TableStep, UpdateSupplier, DeleteSupplier, CreatePurchase, EditItems, CancelPurchase

\* One transaction changes, and no row.
LEMMA WritesKept ==
    ASSUME TypeInv, WritesAreMoves, NEW t \in Txs, NEW new \in Running \cup {Idle},
           tx' = [tx EXCEPT ![t] = new], UNCHANGED Tables,
           t \in AtWork' => \A i \in Stocks : Written(t, i)'
    PROVE  WritesAreMoves'
<1>1. ASSUME NEW u \in AtWork', NEW i \in Stocks PROVE Written(u, i)'
  <2>1. CASE u = t
    BY <2>1
  <2>2. CASE u # t
    <3>1. u \in AtWork /\ tx'[u] = tx[u] /\ stock'[i] = stock[i]
      BY <2>2, OthersKeep DEF Tables
    <3>2. QED
      BY <3>1, WrittenKept
  <2>3. QED
    BY <2>1, <2>2
<1>2. QED
  BY <1>1 DEF WritesAreMoves

\* No step separates what a transaction wrote from what it noted down.
LEMMA WritesStep ==
    ASSUME TypeInv, OnShelves, LocksApart, WritesAreMoves, Receipts, [Next]_vars
    PROVE  WritesAreMoves'
<1>1. ASSUME NEW t \in Txs, NEW new \in Running, Begins(t, new), new.wrote = Nothing, new.entries = NoEntries
      PROVE  WritesAreMoves'
  <2>1. tx' = [tx EXCEPT ![t] = new] /\ UNCHANGED Tables
    BY <1>1 DEF Begins
  <2>2. tx'[t] = new
    BY <2>1, OthersKeep
  <2>3. \A i \in Stocks : Written(t, i)'
    BY <1>1, <2>2 DEF Written, Nothing, NoEntries
  <2>4. QED
    BY <2>1, <2>3, WritesKept
<1>2. ASSUME NEW t \in Txs, NEW new \in Running, Begins(t, new), NEW i \in Stocks, NEW e \in Entry,
             Adjusts(new, i, e)
      PROVE  WritesAreMoves'
  <2>1. tx' = [tx EXCEPT ![t] = new] /\ UNCHANGED Tables
    BY <1>2 DEF Begins
  <2>2. tx'[t] = new /\ stock' = stock
    BY <2>1, OthersKeep DEF Tables
  <2>3. PICK row \in Filled : Moved(stock[i], e, row) /\ new.wrote = [Nothing EXCEPT ![i] = row]
    BY <1>2 DEF Adjusts
  <2>4. new.wrote[i] = row /\ row # Absent /\ new.entries[i] = <<e>> /\ e \in Movement
    BY <1>2, <2>3, FilledPresent, EntryIsMovement DEF Adjusts, Nothing, NoEntries
  <2>5. \A j \in Stocks : j # i => new.wrote[j] = Absent /\ new.entries[j] = <<>>
    BY <1>2, <2>3 DEF Adjusts, Nothing, NoEntries
  <2>6. stock[i] # Absent /\ StockRow(i) \in new.held
    BY <1>2, FilledPresent DEF Adjusts
  <2>7. Written(t, i)'
    BY <2>2, <2>3, <2>4, <2>6 DEF Written
  <2>8. \A j \in Stocks : j # i => Written(t, j)'
    BY <2>2, <2>5 DEF Written
  <2>9. QED
    BY <2>1, <2>7, <2>8, WritesKept
<1>3. ASSUME NEW t \in Txs, NEW p \in Purchases, StartReceiving(t, p)
      PROVE  WritesAreMoves'
  <2> DEFINE list == purchases[p].items
             new == Started("receiving", p, {PurchaseRow(p)}, list)
  <2>1. new \in Running /\ tx' = [tx EXCEPT ![t] = new] /\ UNCHANGED Tables
    BY <1>3, ReceiptBegins
  <2>2. new.wrote = Nothing /\ new.entries = NoEntries
    BY DEF Started
  <2> HIDE DEF new
  <2>3. tx'[t] = new
    BY <2>1, OthersKeep
  <2>4. \A i \in Stocks : Written(t, i)'
    BY <2>2, <2>3 DEF Written, Nothing, NoEntries
  <2>5. QED
    BY <2>1, <2>4, WritesKept
<1>4. ASSUME NEW t \in Txs, NEW new \in Running, GoesOn(t, new) PROVE WritesAreMoves'
  <2>1. t \in AtWork /\ tx' = [tx EXCEPT ![t] = new] /\ UNCHANGED Tables
    BY <1>4 DEF GoesOn
  <2>2. tx'[t] = new /\ stock' = stock
    BY <2>1, OthersKeep DEF Tables
  <2>3. \A i \in Stocks : Written(t, i)'
    BY <1>4, <2>1, <2>2 DEF Written, WritesAreMoves, GoesOn
  <2>4. QED
    BY <2>1, <2>3, WritesKept
<1>5. ASSUME NEW t \in Txs, ReceiveItem(t) PROVE WritesAreMoves'
  <2> DEFINE x == tx[t]
  <2>1. t \in AtWork /\ UNCHANGED Tables
    BY <1>5, ItemReceived
  <2>2. PICK new \in Running, i \in Stocks, e \in Entry :
           tx' = [tx EXCEPT ![t] = new] /\ Receives(t, new, i, e)
    BY <1>5, ItemReceived DEF ItemStep
  <2>3. tx'[t] = new /\ stock' = stock
    BY <2>1, <2>2, OthersKeep DEF Tables
  <2>4. x.wrote \in [Stocks -> StockRows] /\ x.entries \in [Stocks -> Seq(Entry)]
    BY <2>1, AtWorkRuns, RunningIs DEF TypeInv
  <2>5. PICK row \in Filled : Moved(stock[i], e, row) /\ new.wrote = [x.wrote EXCEPT ![i] = row]
    BY <2>2 DEF Receives
  <2>6. /\ stock[i] \in Filled /\ Free(StockRow(i)) /\ new.held = x.held \cup {StockRow(i)}
        /\ new.entries = [x.entries EXCEPT ![i] = Append(x.entries[i], e)] /\ e \in Movement
    BY <2>2, EntryIsMovement DEF Receives
  <2>7. x.wrote[i] = Absent /\ x.entries[i] = <<>>
    BY <2>1, <2>6, FreeRow DEF WritesAreMoves, Written
  <2>8. Append(<<>>, e) = <<e>>
    OBVIOUS
  <2>9. new.wrote[i] = row /\ row # Absent /\ stock[i] # Absent /\ new.entries[i] = <<e>>
        /\ StockRow(i) \in new.held
    BY <2>4, <2>5, <2>6, <2>7, <2>8, FilledPresent
  <2>10. Written(t, i)'
    BY <2>3, <2>5, <2>6, <2>9 DEF Written
  <2>11. ASSUME NEW j \in Stocks, j # i PROVE Written(t, j)'
    <3>1. new.wrote[j] = x.wrote[j] /\ new.entries[j] = x.entries[j] /\ x.held \subseteq new.held
      BY <2>4, <2>5, <2>6, <2>11
    <3>2. Written(t, j)
      BY <2>1 DEF WritesAreMoves
    <3>3. QED
      BY <2>3, <3>1, <3>2 DEF Written
  <2>12. QED
    BY <2>1, <2>2, <2>10, <2>11, WritesKept
<1>6. ASSUME NEW t \in Txs, Abort(t) PROVE WritesAreMoves'
  <2>1. tx' = [tx EXCEPT ![t] = Idle] /\ UNCHANGED Tables
    BY <1>6 DEF Abort, Tables
  <2>2. t \notin AtWork'
    BY <2>1, OthersKeep, IdleIsNot
  <2>3. QED
    BY <2>1, <2>2, WritesKept
<1>7. ASSUME NEW t \in Txs, Commit(t) PROVE WritesAreMoves'
  <2>1. /\ t \in AtWork /\ tx' = [tx EXCEPT ![t] = Idle]
        /\ \A i \in Stocks : stock'[i] = IF tx[t].wrote[i] # Absent THEN tx[t].wrote[i] ELSE stock[i]
    BY <1>7, Commits
  <2>2. ASSUME NEW u \in AtWork', NEW i \in Stocks PROVE Written(u, i)'
    <3>1. u \in AtWork /\ u # t /\ tx'[u] = tx[u]
      BY <2>1, OthersKeep, IdleIsNot
    <3>2. tx[u].wrote[i] # Absent => tx[t].wrote[i] = Absent
      BY <2>1, <3>1 DEF WritesAreMoves, Written, LocksApart
    <3>3. QED
      BY <2>1, <3>1, <3>2, WrittenKept
  <2>3. QED
    BY <2>2 DEF WritesAreMoves
<1>8. CASE TableStep
  <2>1. tx' = tx /\ AtWork' = AtWork
    BY <1>8, TablesKeepTx DEF AtWork
  <2>2. ASSUME NEW u \in AtWork', NEW i \in Stocks PROVE Written(u, i)'
    BY <1>8, <2>1, HeldUntouched, WrittenKept
  <2>3. QED
    BY <2>2 DEF WritesAreMoves
<1>9. CASE UNCHANGED vars
  BY <1>9 DEF vars, WritesAreMoves, Written, AtWork
<1>10. QED
  BY <1>1, <1>2, <1>3, <1>4, <1>5, <1>6, <1>7, <1>8, <1>9, StepCases

-------------------------------------------------------------------------------
(* Receipts.                                                               *)

\* A transaction that a step leaves alone, with the purchase it holds.
LEMMA ReceiptKept ==
    ASSUME Receipts, NEW u \in AtWork, tx'[u] = tx[u],
           tx[u].purchase # "none" => purchases'[tx[u].purchase].status = purchases[tx[u].purchase].status
    PROVE  Receiving(u)'
BY DEF Receipts, Receiving

\* Requests that change a purchase wait for it.
LEMMA HeldPurchase ==
    ASSUME TypeInv, Receipts, TableStep, NEW u \in AtWork, tx[u].purchase # "none"
    PROVE  purchases'[tx[u].purchase] = purchases[tx[u].purchase]
<1> DEFINE q == tx[u].purchase
<1>1. q \in Purchases
  BY AtWorkRuns, RunningIs DEF TypeInv, AtWork
<1>2. purchases[q].status = "open" /\ ~Free(PurchaseRow(q))
  BY FreeRow DEF Receipts, Receiving
<1> HIDE DEF q
<1>3. ASSUME NEW p \in Purchases, NEW list \in Orderable, CreatePurchase(p, list) PROVE purchases'[q] = purchases[q]
  <2>1. p # q
    BY <1>2, <1>3 DEF CreatePurchase, NoPurchase
  <2>2. QED
    BY <1>1, <1>3, <2>1 DEF CreatePurchase, TypeInv, TypeOK
<1>4. ASSUME NEW p \in Purchases, NEW list \in Orderable, EditItems(p, list) PROVE purchases'[q] = purchases[q]
  <2>1. p # q
    BY <1>2, <1>4 DEF EditItems
  <2>2. QED
    BY <1>1, <1>4, <2>1 DEF EditItems, TypeInv, TypeOK
<1>5. ASSUME NEW p \in Purchases, CancelPurchase(p) PROVE purchases'[q] = purchases[q]
  <2>1. p # q
    BY <1>2, <1>5 DEF CancelPurchase
  <2>2. QED
    BY <1>1, <1>5, <2>1 DEF CancelPurchase, TypeInv, TypeOK
<1>6. purchases'[q] = purchases[q]
  BY <1>3, <1>4, <1>5 DEF TableStep, UpdateSupplier, DeleteSupplier, CreateStock, DeleteStock, Consume
<1>7. QED
  BY <1>6 DEF q

\* One transaction changes, and no row.
LEMMA ReceiptsKept ==
    ASSUME TypeInv, Receipts, NEW t \in Txs, NEW new \in Running \cup {Idle}, tx' = [tx EXCEPT ![t] = new],
           UNCHANGED Tables, t \in AtWork' => Receiving(t)'
    PROVE  Receipts'
<1>1. ASSUME NEW u \in AtWork' PROVE Receiving(u)'
  <2>1. CASE u = t
    BY <1>1, <2>1
  <2>2. CASE u # t
    <3>1. u \in AtWork /\ tx'[u] = tx[u] /\ purchases' = purchases
      BY <1>1, <2>2, OthersKeep DEF Tables
    <3>2. QED
      BY <3>1, ReceiptKept
  <2>3. QED
    BY <2>1, <2>2
<1>2. QED
  BY <1>1 DEF Receipts

\* The k-th item of a list is in, with one movement more, and the rest is as before.
ItemIn(x, new, k, i, e) ==
    /\ x.items \in Orderable /\ new.items = x.items /\ k \in 1..Len(x.items) /\ Received(x, k - 1)
    /\ i \in Stocks /\ i = x.items[k].stock /\ e.qty = x.items[k].qty
    /\ new.entries[i] = Append(x.entries[i], e) /\ \A j \in Stocks : j # i => new.entries[j] = x.entries[j]
    /\ new.todo = SubSeq(x.items, k + 1, Len(x.items)) /\ (new.pc # "receiving" => k = Len(x.items))

\* Then the first k items are.
LEMMA OneMoreItem ==
    ASSUME NEW x, NEW new, NEW k, NEW i, NEW e, ItemIn(x, new, k, i, e)
    PROVE  Received(new, k)
<1> DEFINE items == x.items
<1>1. /\ items \in Orderable /\ new.items = items /\ k \in 1..Len(items) /\ Received(x, k - 1)
      /\ i \in Stocks /\ i = items[k].stock /\ e.qty = items[k].qty
      /\ new.entries[i] = Append(x.entries[i], e) /\ \A j \in Stocks : j # i => new.entries[j] = x.entries[j]
      /\ new.todo = SubSeq(items, k + 1, Len(items)) /\ (new.pc # "receiving" => k = Len(items))
  BY DEF ItemIn
<1>2. Len(items) \in Nat /\ \A m, n \in 1..Len(items) : items[m].stock = items[n].stock => m = n
  <2> HIDE DEF items
  <2>1. items \in Orderable \cup {<<>>}
    BY <1>1
  <2>2. DOMAIN items = 1..Len(items) /\ Len(items) \in Nat
    BY <2>1, ListItems
  <2>3. \A m, n \in DOMAIN items : items[m].stock = items[n].stock => m = n
    BY <2>1, ListItems, ZenonT(40)
  <2>4. QED
    BY <2>2, <2>3
<1>3. /\ \A n \in 1..(k - 1) : /\ x.entries[items[n].stock] # <<>>
                               /\ x.entries[items[n].stock][1].qty = items[n].qty
      /\ \A j \in Stocks : (\A n \in 1..(k - 1) : items[n].stock # j) => x.entries[j] = <<>>
  BY <1>1 DEF Received
<1> HIDE DEF items
<1>4. x.entries[i] = <<>>
  <2>1. \A n \in 1..(k - 1) : items[n].stock # i
    BY <1>1, <1>2
  <2>2. QED
    BY <1>1, <1>3, <2>1
<1>5. Append(<<>>, e) = <<e>>
  OBVIOUS
<1>6. new.entries[i] = <<e>> /\ \A j \in Stocks : j # i => new.entries[j] = x.entries[j]
  BY <1>1, <1>4, <1>5
<1>7. ASSUME NEW n \in 1..k
      PROVE  new.entries[items[n].stock] # <<>> /\ new.entries[items[n].stock][1].qty = items[n].qty
  <2>1. CASE n = k
    <3>1. <<e>> # <<>> /\ <<e>>[1] = e
      OBVIOUS
    <3>2. QED
      BY <1>1, <1>6, <2>1, <3>1
  <2>2. CASE n # k
    <3>1. n \in 1..(k - 1) /\ n \in 1..Len(items) /\ k \in 1..Len(items)
      BY <1>1, <1>2, <2>2
    <3>2. items[n].stock # i /\ items[n].stock \in Stocks
      BY <1>1, <1>2, <2>2, <3>1, ListItems
    <3>3. QED
      BY <1>3, <1>6, <3>1, <3>2
  <2>3. QED
    BY <2>1, <2>2
<1>8. ASSUME NEW j \in Stocks, \A n \in 1..k : items[n].stock # j PROVE new.entries[j] = <<>>
  <2>1. j # i /\ \A n \in 1..(k - 1) : items[n].stock # j
    BY <1>1, <1>2, <1>8
  <2>2. QED
    BY <1>3, <1>6, <2>1
<1>9. k \in 0..Len(items)
  BY <1>1, <1>2
<1>10. QED
  BY <1>1, <1>7, <1>8, <1>9 DEF Received

\* The movements refer to a purchase, or to none.
Refer(entries, p) == \A i \in Stocks : \A m \in DOMAIN entries[i] : entries[i][m].ref = p
OneMore(entries, old, i, e) ==
    i \in Stocks /\ entries[i] = Append(old[i], e) /\ \A j \in Stocks : j # i => entries[j] = old[j]

\* One movement more for the purchase leaves it so.
LEMMA OneMoreReference ==
    ASSUME NEW old \in [Stocks -> Seq(Entry)], NEW entries, NEW i, NEW e \in Entry,
           OneMore(entries, old, i, e), Refer(old, e.ref)
    PROVE  Refer(entries, e.ref)
<1>1. ASSUME NEW m \in DOMAIN entries[i] PROVE entries[i][m].ref = e.ref
  <2>1. old[i] \in Seq(Entry) /\ entries[i] = Append(old[i], e)
    BY DEF OneMore
  <2>2. m = Len(old[i]) + 1 \/ m \in DOMAIN old[i]
    BY <2>1
  <2>3. entries[i][m] = IF m = Len(old[i]) + 1 THEN e ELSE old[i][m]
    BY <2>1
  <2>4. QED
    BY <2>1, <2>2, <2>3 DEF OneMore, Refer
<1>2. QED
  BY <1>1 DEF OneMore, Refer

\* No step lets a receipt skip an item, repeat one, or lose its purchase.
LEMMA ReceiptsStep ==
    ASSUME TypeInv, OnShelves, LocksApart, Receipts, [Next]_vars
    PROVE  Receipts'
<1>1. ASSUME NEW t \in Txs, NEW new \in Running, Begins(t, new),
             \/ new.wrote = Nothing /\ new.entries = NoEntries
             \/ \E i \in Stocks, e \in Entry : Adjusts(new, i, e)
      PROVE  Receipts'
  <2>1. tx' = [tx EXCEPT ![t] = new] /\ UNCHANGED Tables
    BY <1>1 DEF Begins
  <2>2. tx'[t] = new
    BY <2>1, OthersKeep
  <2>3. ASSUME NEW j \in Stocks, NEW m \in DOMAIN new.entries[j] PROVE new.entries[j][m].ref = "none"
    <3>1. CASE new.entries = NoEntries
      BY <2>3, <3>1 DEF NoEntries
    <3>2. ASSUME NEW i \in Stocks, NEW e \in Entry, Adjusts(new, i, e) PROVE new.entries[j][m].ref = "none"
      <4>1. new.entries[j] = IF j = i THEN <<e>> ELSE <<>>
        BY <3>2 DEF Adjusts, NoEntries
      <4>2. DOMAIN <<e>> = {1} /\ <<e>>[1] = e /\ e.ref = "none" /\ DOMAIN <<>> = {}
        BY <3>2 DEF Adjusts
      <4>3. QED
        BY <2>3, <4>1, <4>2
    <3>3. QED
      BY <1>1, <3>1, <3>2
  <2>4. Receiving(t)'
    BY <1>1, <2>2, <2>3 DEF Receiving, Begins
  <2>5. QED
    BY <2>1, <2>4, ReceiptsKept
<1>2. ASSUME NEW t \in Txs, NEW p \in Purchases, StartReceiving(t, p)
      PROVE  Receipts'
  <2> DEFINE list == purchases[p].items
             new == Started("receiving", p, {PurchaseRow(p)}, list)
  <2>1. /\ new \in Running /\ tx' = [tx EXCEPT ![t] = new] /\ UNCHANGED Tables
        /\ purchases[p].status = "open" /\ list \in Orderable
    BY <1>2, ReceiptBegins
  <2>2. /\ new.entries = NoEntries /\ new.purchase = p /\ new.held = {PurchaseRow(p)}
        /\ new.items = list /\ new.todo = list /\ new.pc = "receiving"
    BY DEF Started
  <2> HIDE DEF new
  <2>3. tx'[t] = new /\ purchases' = purchases
    BY <2>1, OthersKeep DEF Tables
  <2>4. list = SubSeq(list, 0 + 1, Len(list)) /\ Len(list) \in Nat
    BY <2>1, ListItems
  <2>5. 0 \in 0..Len(list) /\ 1..0 = {}
    BY <2>4
  <2>6. Received(new, 0)
    BY <2>2, <2>4, <2>5 DEF Received, NoEntries
  <2>7. p # "none" /\ 0 \in Nat
    BY PurchasingAssumption
  <2>8. Receiving(t)'
    BY <2>1, <2>2, <2>3, <2>6, <2>7 DEF Receiving, NoEntries
  <2>9. QED
    BY <2>1, <2>8, ReceiptsKept
<1>3. ASSUME NEW t \in Txs, NEW new \in Running, GoesOn(t, new) PROVE Receipts'
  <2>1. t \in AtWork /\ tx' = [tx EXCEPT ![t] = new] /\ UNCHANGED Tables
    BY <1>3 DEF GoesOn
  <2>2. tx'[t] = new /\ purchases' = purchases
    BY <2>1, OthersKeep DEF Tables
  <2>3. ASSUME NEW k \in Nat, Received(tx[t], k) PROVE Received(new, k)
    BY <1>3, <2>3 DEF Received, GoesOn
  <2>4. Receiving(t)
    BY <2>1 DEF Receipts
  <2>5. /\ new.purchase = tx[t].purchase /\ new.items = tx[t].items /\ new.todo = tx[t].todo
        /\ new.entries = tx[t].entries /\ tx[t].held \subseteq new.held
    BY <1>3 DEF GoesOn
  <2>6. Receiving(t)'
    BY <2>2, <2>3, <2>4, <2>5 DEF Receiving
  <2>7. QED
    BY <2>1, <2>6, ReceiptsKept
<1>4. ASSUME NEW t \in Txs, ReceiveItem(t) PROVE Receipts'
  <2> DEFINE x == tx[t]
  <2>1. t \in AtWork /\ UNCHANGED Tables /\ x.purchase \in Purchases /\ x.items \in Orderable
    BY <1>4, ItemReceived
  <2>0. PICK new \in Running, k \in 1..Len(x.items), i \in Stocks, e \in Entry : ItemStep(t, new, k, i, e)
    BY <1>4, ItemReceived
  <2>2. /\ tx' = [tx EXCEPT ![t] = new] /\ Received(x, k - 1)
        /\ Receives(t, new, i, e) /\ i = x.items[k].stock
        /\ e.qty = x.items[k].qty /\ e.ref = x.purchase
        /\ new.purchase = x.purchase /\ new.items = x.items
        /\ new.todo = SubSeq(x.items, k + 1, Len(x.items))
        /\ new.pc # "receiving" => k = Len(x.items)
    BY <2>0 DEF ItemStep
  <2>3. tx'[t] = new /\ purchases' = purchases
    BY <2>1, <2>2, OthersKeep DEF Tables
  <2>4. /\ \A j \in Stocks : \A m \in DOMAIN x.entries[j] : x.entries[j][m].ref = x.purchase
        /\ x.purchase # "none" /\ PurchaseRow(x.purchase) \in x.held /\ purchases[x.purchase].status = "open"
    BY <2>1, PurchasingAssumption DEF Receipts, Receiving
  <2>5. x \in Running /\ x.entries \in [Stocks -> Seq(Entry)]
    <3>1. TypeOK
      BY DEF TypeInv
    <3>2. x \in Running
      BY <2>1, <3>1, AtWorkRuns, ZenonT(40)
    <3> HIDE DEF x
    <3>3. QED
      BY <3>2, RunWrites
  <2>6. /\ new.entries[i] = Append(x.entries[i], e) /\ x.held \subseteq new.held
        /\ \A j \in Stocks : j # i => new.entries[j] = x.entries[j]
    BY <2>2, <2>5 DEF Receives
  <2>7. /\ Received(new, k)
        /\ \A j \in Stocks : \A m \in DOMAIN new.entries[j] : new.entries[j][m].ref = x.purchase
    <3> HIDE DEF x
    <3>1. ItemIn(x, new, k, i, e)
      BY <2>1, <2>2, <2>6 DEF ItemIn
    <3>2. Received(new, k)
      BY <3>1, OneMoreItem, Zenon
    <3>3. OneMore(new.entries, x.entries, i, e) /\ Refer(x.entries, e.ref)
      BY <2>2, <2>4, <2>6 DEF OneMore, Refer
    <3>4. Refer(new.entries, e.ref)
      BY <2>5, <3>3, OneMoreReference
    <3>5. QED
      BY <2>2, <3>2, <3>4 DEF Refer
  <2>8. k \in Nat
    BY <2>1, ListItems
  <2>9. Receiving(t)'
    <3>1. \E j \in Nat : Received(new, j)
      BY <2>7, <2>8, ZenonT(40)
    <3>2. /\ new.purchase = x.purchase /\ new.purchase # "none" /\ PurchaseRow(new.purchase) \in new.held
          /\ purchases'[new.purchase].status = "open"
      BY <2>2, <2>3, <2>4, <2>6
    <3>3. \A j \in Stocks : \A m \in DOMAIN new.entries[j] : new.entries[j][m].ref = new.purchase
      BY <2>7, <3>2
    <3>4. QED
      BY <2>3, <3>1, <3>2, <3>3 DEF Receiving
  <2>10. QED
    BY <2>1, <2>2, <2>9, ReceiptsKept
<1>5. ASSUME NEW t \in Txs, Abort(t) PROVE Receipts'
  <2>1. tx' = [tx EXCEPT ![t] = Idle] /\ UNCHANGED Tables
    BY <1>5 DEF Abort, Tables
  <2>2. t \notin AtWork'
    BY <2>1, OthersKeep, IdleIsNot
  <2>3. QED
    BY <2>1, <2>2, ReceiptsKept
<1>6. ASSUME NEW t \in Txs, Commit(t) PROVE Receipts'
  <2>1. /\ t \in AtWork /\ tx' = [tx EXCEPT ![t] = Idle]
        /\ \A p \in Purchases : p # tx[t].purchase => purchases'[p] = purchases[p]
    BY <1>6, Commits
  <2>2. ASSUME NEW u \in AtWork' PROVE Receiving(u)'
    <3>1. u \in AtWork /\ u # t /\ tx'[u] = tx[u] /\ u \in Txs
      BY <2>1, <2>2, OthersKeep, IdleIsNot DEF AtWork
    <3>2. tx[u].purchase \in Purchases \cup {"none"}
      BY <3>1, AtWorkRuns, RunningIs DEF TypeInv
    <3>3. tx[u].purchase # "none" => tx[u].purchase # tx[t].purchase
      BY <2>1, <3>1 DEF Receipts, Receiving, LocksApart
    <3>4. QED
      BY <2>1, <3>1, <3>2, <3>3, ReceiptKept
  <2>3. QED
    BY <2>2 DEF Receipts
<1>7. CASE TableStep
  <2>1. tx' = tx /\ AtWork' = AtWork
    BY <1>7, TablesKeepTx DEF AtWork
  <2>2. ASSUME NEW u \in AtWork' PROVE Receiving(u)'
    BY <1>7, <2>1, <2>2, HeldPurchase, ReceiptKept
  <2>3. QED
    BY <2>2 DEF Receipts
<1>8. CASE UNCHANGED vars
  BY <1>8 DEF vars, Receipts, Receiving, AtWork
<1>9. QED
  BY <1>1, <1>2, <1>3, <1>4, <1>5, <1>6, <1>7, <1>8, StepCases

-------------------------------------------------------------------------------
(* Requests not yet committed.                                            *)

\* A transaction that a step leaves alone, with the rows it wrote.
LEMMA AskedKept ==
    ASSUME TypeInv, AsAsked, NEW u \in AtWork, tx'[u] = tx[u],
           \A i \in Stocks : tx[u].wrote[i] # Absent => stock'[i] = stock[i]
    PROVE  Asked(u)'
<1> DEFINE x == tx[u]
<1>1. x.items \in Orderable \cup {<<>>}
  BY AtWorkRuns, RunningIs DEF TypeInv, AtWork
<1>2. Asked(u)
  BY DEF AsAsked
<1>3. ASSUME x.purchase # "none", NEW n \in DOMAIN x.items, x.wrote[x.items[n].stock] # Absent
      PROVE  stock'[x.items[n].stock] = stock[x.items[n].stock]
  BY <1>1, <1>3, ListItems
<1>4. ASSUME NEW i \in Stocks, NEW d \in Deliveries, Corrects(x, i, d) PROVE Corrects(x, i, d)'
  <2>1. Adjusted(stock[i], d.qty, d.unit) \in Filled
    BY <1>4, AdjustedRow, PurchasingAssumption DEF Corrects, Filled
  <2>2. x.wrote[i] # Absent
    BY <1>4, <2>1, FilledPresent DEF Corrects, Nothing
  <2>3. stock'[i] = stock[i] /\ tx'[u] = tx[u]
    BY <2>2
  <2>4. QED
    BY <1>4, <2>3 DEF Corrects, Correction
<1>5. QED
  BY <1>2, <1>3, <1>4 DEF Asked

\* One transaction changes, and no row.
LEMMA AskedElsewhere ==
    ASSUME TypeInv, AsAsked, NEW t \in Txs, NEW new \in Running \cup {Idle},
           tx' = [tx EXCEPT ![t] = new], UNCHANGED Tables, t \in AtWork' => Asked(t)'
    PROVE  AsAsked'
<1>1. ASSUME NEW u \in AtWork' PROVE Asked(u)'
  <2>1. CASE u = t
    BY <1>1, <2>1
  <2>2. CASE u # t
    <3>1. u \in AtWork /\ tx'[u] = tx[u] /\ stock' = stock
      BY <1>1, <2>2, OthersKeep DEF Tables
    <3>2. QED
      BY <3>1, AskedKept
  <2>3. QED
    BY <2>1, <2>2
<1>2. QED
  BY <1>1 DEF AsAsked

\* One more item of a purchase is in, on a row that nobody had written.
LEMMA AskedItem ==
    ASSUME TypeInv, OnShelves, WritesAreMoves, Receipts, AsAsked, NEW t \in Txs, ReceiveItem(t)
    PROVE  Asked(t)'
<1> DEFINE x == tx[t]
<1>1. t \in AtWork /\ UNCHANGED Tables /\ x.purchase \in Purchases /\ x.items \in Orderable
  BY ItemReceived
<1>0. PICK new \in Running, k \in 1..Len(x.items), i \in Stocks, e \in Entry : ItemStep(t, new, k, i, e)
  BY ItemReceived
<1>2. /\ tx' = [tx EXCEPT ![t] = new] /\ Receives(t, new, i, e) /\ i = x.items[k].stock
      /\ e = Arrival(x.purchase, x.items[k])
      /\ new.wrote[i] = Averaged(stock[i], x.items[k].qty, x.items[k].total)
      /\ new.purchase = x.purchase /\ new.items = x.items
  BY <1>0 DEF ItemStep
<1>3. tx'[t] = new /\ stock' = stock
  BY <1>1, <1>2, OthersKeep DEF Tables
<1>4. x.purchase # "none" /\ Asked(t)
  BY <1>1, PurchasingAssumption DEF AsAsked
<1>5. x.wrote \in [Stocks -> StockRows] /\ x.entries \in [Stocks -> Seq(Entry)]
  <2>1. x \in Running
    BY <1>1, AtWorkRuns DEF TypeInv
  <2> HIDE DEF x
  <2>2. QED
    BY <2>1, RunWrites
<1>6. PICK row : new.wrote = [x.wrote EXCEPT ![i] = row]
  BY <1>2 DEF Receives
<1>7. new.entries = [x.entries EXCEPT ![i] = Append(x.entries[i], e)] /\ Free(StockRow(i))
  <2>1. Receives(t, new, i, e)
    BY <1>2
  <2>2. QED
    BY <2>1 DEF Receives
<1>8. x.entries[i] = <<>>
  BY <1>1, <1>7, FreeRow DEF WritesAreMoves, Written
<1>9. Append(<<>>, e) = <<e>>
  OBVIOUS
<1>10. /\ new.entries[i] = <<e>>
       /\ \A j \in Stocks : j # i => new.entries[j] = x.entries[j] /\ new.wrote[j] = x.wrote[j]
  BY <1>5, <1>6, <1>7, <1>8, <1>9
<1> DEFINE In(n) == /\ new.wrote[x.items[n].stock]
                        = Averaged(stock[x.items[n].stock], x.items[n].qty, x.items[n].total)
                   /\ new.entries[x.items[n].stock] = <<Arrival(x.purchase, x.items[n])>>
<1>11. ASSUME NEW n \in DOMAIN x.items, new.wrote[x.items[n].stock] # Absent
       PROVE  In(n)
  <2>1. CASE x.items[n].stock = i
    <3>1. n = k
      BY <1>1, <1>2, <2>1, ListItems
    <3>2. QED
      BY <1>2, <1>10, <3>1
  <2>2. CASE x.items[n].stock # i
    <3>1. x.items[n].stock \in Stocks
      BY <1>1, ListItems
    <3>2. QED
      BY <1>4, <1>10, <1>11, <2>2, <3>1 DEF Asked
  <2> HIDE DEF In
  <2>3. QED
    BY <2>1, <2>2, Zenon
<1>12. /\ tx'[t].purchase = x.purchase /\ tx'[t].items = x.items
       /\ tx'[t].wrote = new.wrote /\ tx'[t].entries = new.entries
  BY <1>2, <1>3
<1> HIDE DEF x
<1>13. QED
  BY <1>1, <1>3, <1>4, <1>11, <1>12, Zenon DEF Asked

\* No step lets a row change under a transaction that wrote it.
LEMMA AskedStep ==
    ASSUME TypeInv, OnShelves, LocksApart, WritesAreMoves, Receipts, AsAsked, [Next]_vars
    PROVE  AsAsked'
<1>1. ASSUME NEW t \in Txs, NEW new \in Running, Begins(t, new),
             \/ new.wrote = Nothing /\ new.entries = NoEntries
             \/ \E i \in Stocks, e \in Entry : Adjusts(new, i, e)
      PROVE  AsAsked'
  <2>1. tx' = [tx EXCEPT ![t] = new] /\ UNCHANGED Tables /\ new.purchase = "none"
    BY <1>1 DEF Begins
  <2>2. tx'[t] = new /\ stock' = stock
    BY <2>1, OthersKeep DEF Tables
  <2>3. CASE new.wrote = Nothing /\ new.entries = NoEntries
    <3>1. Asked(t)'
      BY <2>1, <2>2, <2>3 DEF Asked, Nothing, NoEntries
    <3>2. QED
      BY <2>1, <3>1, AskedElsewhere
  <2>4. ASSUME NEW i \in Stocks, NEW d \in Deliveries, Corrects(new, i, d) PROVE AsAsked'
    <3>1. Corrects(tx[t], i, d)'
      BY <2>2, <2>4 DEF Corrects, Correction, Nothing, NoEntries
    <3>2. Asked(t)'
      BY <2>1, <2>2, <3>1 DEF Asked
    <3>3. QED
      BY <2>1, <3>2, AskedElsewhere
  <2>5. QED
    BY <1>1, <2>3, <2>4 DEF Adjusts
<1>2. ASSUME NEW t \in Txs, NEW p \in Purchases, StartReceiving(t, p)
      PROVE  AsAsked'
  <2> DEFINE list == purchases[p].items
             new == Started("receiving", p, {PurchaseRow(p)}, list)
  <2>1. new \in Running /\ tx' = [tx EXCEPT ![t] = new] /\ list \in Orderable /\ UNCHANGED Tables
    BY <1>2, ReceiptBegins
  <2>2. new.wrote = Nothing /\ new.purchase = p /\ new.items = list
    BY DEF Started
  <2> HIDE DEF new, list
  <2>3. tx'[t] = new
    BY <2>1, OthersKeep
  <2>4. \A n \in DOMAIN list : list[n].stock \in Stocks
    BY <2>1, ListItems
  <2>5. p # "none"
    BY PurchasingAssumption
  <2>6. Asked(t)'
    BY <2>1, <2>2, <2>3, <2>4, <2>5 DEF Asked, Nothing
  <2>7. QED
    BY <2>1, <2>6, AskedElsewhere
<1>3. ASSUME NEW t \in Txs, NEW new \in Running, GoesOn(t, new) PROVE AsAsked'
  <2>1. t \in AtWork /\ tx' = [tx EXCEPT ![t] = new] /\ UNCHANGED Tables
    BY <1>3 DEF GoesOn
  <2>2. tx'[t] = new /\ stock' = stock
    BY <2>1, OthersKeep DEF Tables
  <2>3. /\ new.purchase = tx[t].purchase /\ new.items = tx[t].items
        /\ new.wrote = tx[t].wrote /\ new.entries = tx[t].entries
    BY <1>3 DEF GoesOn
  <2>4. ASSUME NEW i \in Stocks, NEW d \in Deliveries, Corrects(tx[t], i, d) PROVE Corrects(tx[t], i, d)'
    BY <2>2, <2>3, <2>4 DEF Corrects, Correction, Nothing, NoEntries
  <2>5. Asked(t)'
    <3>1. Asked(t)
      BY <2>1 DEF AsAsked
    <3>2. CASE tx[t].purchase = "none"
      <4>1. CASE tx[t].wrote = Nothing /\ tx[t].entries = NoEntries
        BY <2>2, <2>3, <3>2, <4>1 DEF Asked, Nothing, NoEntries
      <4>2. ASSUME NEW i \in Stocks, NEW d \in Deliveries, Corrects(tx[t], i, d) PROVE Asked(t)'
        <5>1. Corrects(tx[t], i, d)'
          BY <2>4, <4>2
        <5>2. QED
          BY <2>2, <2>3, <3>2, <5>1 DEF Asked
      <4>3. QED
        BY <3>1, <3>2, <4>1, <4>2 DEF Asked
    <3>3. CASE tx[t].purchase # "none"
      BY <2>2, <2>3, <3>1, <3>3 DEF Asked
    <3>4. QED
      BY <3>2, <3>3
  <2>6. QED
    BY <2>1, <2>5, AskedElsewhere
<1>4. ASSUME NEW t \in Txs, ReceiveItem(t) PROVE AsAsked'
  <2>1. UNCHANGED Tables /\ \E new \in Running : tx' = [tx EXCEPT ![t] = new]
    BY <1>4, ItemReceived DEF ItemStep
  <2>2. QED
    BY <1>4, <2>1, AskedItem, AskedElsewhere
<1>5. ASSUME NEW t \in Txs, Abort(t) PROVE AsAsked'
  <2>1. tx' = [tx EXCEPT ![t] = Idle] /\ UNCHANGED Tables
    BY <1>5 DEF Abort, Tables
  <2>2. t \notin AtWork'
    BY <2>1, OthersKeep, IdleIsNot
  <2>3. QED
    BY <2>1, <2>2, AskedElsewhere
<1>6. ASSUME NEW t \in Txs, Commit(t) PROVE AsAsked'
  <2>1. /\ t \in AtWork /\ tx' = [tx EXCEPT ![t] = Idle]
        /\ \A i \in Stocks : stock'[i] = IF tx[t].wrote[i] # Absent THEN tx[t].wrote[i] ELSE stock[i]
    BY <1>6, Commits
  <2>2. ASSUME NEW u \in AtWork' PROVE Asked(u)'
    <3>1. u \in AtWork /\ u # t /\ tx'[u] = tx[u]
      BY <2>1, <2>2, OthersKeep, IdleIsNot
    <3>2. \A i \in Stocks : tx[u].wrote[i] # Absent => tx[t].wrote[i] = Absent
      BY <2>1, <3>1 DEF WritesAreMoves, Written, LocksApart
    <3>3. QED
      BY <2>1, <3>1, <3>2, AskedKept
  <2>3. QED
    BY <2>2 DEF AsAsked
<1>7. CASE TableStep
  <2>1. tx' = tx /\ AtWork' = AtWork
    BY <1>7, TablesKeepTx DEF AtWork
  <2>2. ASSUME NEW u \in AtWork' PROVE Asked(u)'
    BY <1>7, <2>1, <2>2, HeldUntouched, AskedKept
  <2>3. QED
    BY <2>2 DEF AsAsked
<1>8. CASE UNCHANGED vars
  <2>1. AtWork' = AtWork /\ \A u \in AtWork : Asked(u)' = Asked(u)
    BY <1>8 DEF vars, Asked, AtWork, Corrects, Correction, Nothing, NoEntries
  <2>2. QED
    BY <2>1 DEF AsAsked
<1>9. QED
  BY <1>1, <1>2, <1>3, <1>4, <1>5, <1>6, <1>7, <1>8, StepCases

-------------------------------------------------------------------------------
(* Purchases and the ledger.                                               *)

\* The movements of a list that refer to a purchase, and the items of the
\* purchase that ask for a row.
ArrivedIn(list, p) == {n \in DOMAIN list : list[n].ref = p}
Asking(items, i) == {n \in DOMAIN items : items[n].stock = i}

\* A row's movements have a received purchase's item for it, once, or it has none.
Ledgered(bought, p, list, i) ==
    IF bought.status = "received"
    THEN \/ ArrivedIn(list, p) = {} /\ Asking(bought.items, i) = {}
         \/ \E m \in DOMAIN list, n \in DOMAIN bought.items :
               /\ ArrivedIn(list, p) = {m} /\ Asking(bought.items, i) = {n}
               /\ list[m].qty = bought.items[n].qty
    ELSE ArrivedIn(list, p) = {}

PurchasesLedgered ==
    \A p \in Purchases :
        /\ purchases[p] # NoPurchase => supplier # "gone" /\ purchases[p].total = Total(purchases[p].items)
        /\ \A i \in Stocks : Ledgered(purchases[p], p, moves[i], i)

\* With one movement for each item of a received purchase, it is received once.
LEMMA LedgeredOnce == PurchasesLedgered => ReceivedOnce
<1> SUFFICES ASSUME PurchasesLedgered, NEW p \in Purchases, NEW i \in Stocks
             PROVE  LET items == purchases[p].items
                        of == {n \in DOMAIN items : items[n].stock = i}
                        here == {n \in DOMAIN moves[i] : moves[i][n].ref = p}
                    IN IF purchases[p].status = "received"
                       THEN /\ Cardinality(here) = Cardinality(of)
                            /\ \A n \in of, m \in here : moves[i][m].qty = items[n].qty
                       ELSE here = {}
  BY DEF ReceivedOnce, PurchasesLedgered
<1>1. Ledgered(purchases[p], p, moves[i], i)
  BY DEF PurchasesLedgered
<1>2. CASE purchases[p].status # "received"
  BY <1>1, <1>2 DEF Ledgered, ArrivedIn
<1>3. CASE purchases[p].status = "received"
  <2> DEFINE here == ArrivedIn(moves[i], p)
             of == Asking(purchases[p].items, i)
  <2>1. Cardinality(here) = Cardinality(of) /\ \A n \in of, m \in here : moves[i][m].qty = purchases[p].items[n].qty
    <3>1. CASE here = {} /\ of = {}
      BY <3>1
    <3>2. ASSUME NEW m, NEW n, here = {m}, of = {n}, moves[i][m].qty = purchases[p].items[n].qty
          PROVE  Cardinality(here) = Cardinality(of)
                 /\ \A a \in of, b \in here : moves[i][b].qty = purchases[p].items[a].qty
      <4>1. Cardinality({m}) = 1 /\ Cardinality({n}) = 1
        BY FS_Singleton
      <4> HIDE DEF here, of
      <4>2. QED
        BY <3>2, <4>1
    <3>3. QED
      BY <1>1, <1>3, <3>1, <3>2 DEF Ledgered
  <2>2. QED
    BY <1>3, <2>1 DEF ArrivedIn, Asking
<1>4. QED
  BY <1>2, <1>3

\* Movements that refer to something else leave a purchase's alone.
LEMMA ArrivedOther ==
    ASSUME NEW s \in Seq(Movement), NEW r \in Seq(Movement), NEW p, \A n \in DOMAIN r : r[n].ref # p
    PROVE  ArrivedIn(s \o r, p) = ArrivedIn(s, p) /\ \A n \in DOMAIN s : n \in DOMAIN (s \o r) /\ (s \o r)[n] = s[n]
<1> DEFINE c == s \o r
<1>1. /\ DOMAIN s = 1..Len(s) /\ DOMAIN r = 1..Len(r) /\ DOMAIN c = 1..(Len(s) + Len(r))
      /\ Len(s) \in Nat /\ Len(r) \in Nat
  OBVIOUS
<1>2. \A n \in 1..(Len(s) + Len(r)) : c[n] = IF n <= Len(s) THEN s[n] ELSE r[n - Len(s)]
  OBVIOUS
<1> HIDE DEF c
<1>3. ASSUME NEW n \in DOMAIN c, c[n].ref = p PROVE n \in DOMAIN s /\ s[n].ref = p
  <2>1. CASE n <= Len(s)
    BY <1>1, <1>2, <1>3, <2>1
  <2>2. CASE ~(n <= Len(s))
    <3>1. n - Len(s) \in DOMAIN r /\ c[n] = r[n - Len(s)]
      BY <1>1, <1>2, <2>2
    <3>2. QED
      BY <1>3, <3>1
  <2>3. QED
    BY <2>1, <2>2
<1>4. \A n \in DOMAIN s : n \in DOMAIN c /\ c[n] = s[n]
  BY <1>1, <1>2
<1>5. ArrivedIn(c, p) = ArrivedIn(s, p)
  BY <1>3, <1>4 DEF ArrivedIn
<1>6. QED
  BY <1>4, <1>5 DEF c

\* The first movement that refers to it.
LEMMA ArrivedFirst ==
    ASSUME NEW s \in Seq(Movement), NEW e \in Movement, ArrivedIn(s, e.ref) = {}
    PROVE  /\ Len(s) + 1 \in DOMAIN (s \o <<e>>) /\ (s \o <<e>>)[Len(s) + 1] = e
           /\ ArrivedIn(s \o <<e>>, e.ref) = {Len(s) + 1}
<1> DEFINE c == s \o <<e>>
<1>1. DOMAIN s = 1..Len(s) /\ DOMAIN c = 1..(Len(s) + 1) /\ Len(s) \in Nat
  OBVIOUS
<1>2. c[Len(s) + 1] = e /\ \A n \in 1..Len(s) : c[n] = s[n]
  OBVIOUS
<1> HIDE DEF c
<1>3. \A n \in DOMAIN c : c[n].ref = e.ref => n = Len(s) + 1
  BY <1>1, <1>2 DEF ArrivedIn
<1>4. Len(s) + 1 \in DOMAIN c
  BY <1>1
<1>5. ArrivedIn(c, e.ref) = {Len(s) + 1}
  BY <1>2, <1>3, <1>4 DEF ArrivedIn
<1>6. QED
  BY <1>2, <1>4, <1>5 DEF c

\* A row's list grows by movements that refer to something else.
LEMMA LedgeredOther ==
    ASSUME NEW bought, NEW p, NEW s \in Seq(Movement), NEW r \in Seq(Movement), NEW i,
           \A n \in DOMAIN r : r[n].ref # p, Ledgered(bought, p, s, i)
    PROVE  Ledgered(bought, p, s \o r, i)
<1> DEFINE c == s \o r
<1>1. ArrivedIn(c, p) = ArrivedIn(s, p) /\ \A n \in DOMAIN s : n \in DOMAIN c /\ c[n] = s[n]
  BY ArrivedOther
<1> HIDE DEF c
<1>2. Ledgered(bought, p, c, i)
  BY <1>1 DEF Ledgered
<1>3. QED
  BY <1>2 DEF c

\* The tables a request of one step leaves as they should be.
LEMMA LedgeredTables ==
    ASSUME TypeInv, OnShelves, PurchasesLedgered, TableStep
    PROVE  PurchasesLedgered'
<1>1. CASE UpdateSupplier
  BY <1>1 DEF UpdateSupplier, PurchasesLedgered
<1>2. CASE DeleteSupplier
  BY <1>2 DEF DeleteSupplier, PurchasesLedgered
<1>3. ASSUME NEW p \in Purchases, NEW bought, purchases' = [purchases EXCEPT ![p] = bought], moves' = moves,
             supplier' = supplier, supplier # "gone", bought.total = Total(bought.items),
             purchases[p].status # "received", bought.status # "received"
      PROVE  PurchasesLedgered'
  <2>1. purchases'[p] = bought /\ \A q \in Purchases : q # p => purchases'[q] = purchases[q]
    BY <1>3 DEF TypeInv, TypeOK
  <2>2. \A i \in Stocks : Ledgered(bought, p, moves[i], i)
    BY <1>3 DEF PurchasesLedgered, Ledgered
  <2>3. QED
    BY <1>3, <2>1, <2>2 DEF PurchasesLedgered
<1>4. ASSUME NEW p \in Purchases, NEW list \in Orderable, CreatePurchase(p, list) PROVE PurchasesLedgered'
  <2> DEFINE bought == [status |-> "open", items |-> list, total |-> Total(list)]
  <2>1. purchases' = [purchases EXCEPT ![p] = bought] /\ moves' = moves /\ supplier' = supplier
        /\ supplier # "gone" /\ purchases[p].status # "received"
    BY <1>4 DEF CreatePurchase, NoPurchase
  <2>2. bought.total = Total(bought.items) /\ bought.status # "received"
    OBVIOUS
  <2> HIDE DEF bought
  <2>3. QED
    BY <1>3, <2>1, <2>2
<1>5. ASSUME NEW p \in Purchases, purchases[p].status = "open"
      PROVE  supplier # "gone" /\ purchases[p].total = Total(purchases[p].items)
  <2>1. purchases[p] # NoPurchase
    BY <1>5 DEF NoPurchase
  <2>2. QED
    BY <2>1 DEF PurchasesLedgered
<1>6. ASSUME NEW p \in Purchases, NEW list \in Orderable, EditItems(p, list) PROVE PurchasesLedgered'
  <2> DEFINE bought == [purchases[p] EXCEPT !.items = list, !.total = Total(list)]
  <2>1. purchases' = [purchases EXCEPT ![p] = bought] /\ moves' = moves /\ supplier' = supplier
        /\ purchases[p].status = "open"
    BY <1>6 DEF EditItems
  <2>2. bought.total = Total(bought.items) /\ bought.status = purchases[p].status
    BY DEF TypeInv, TypeOK
  <2> HIDE DEF bought
  <2>3. QED
    BY <1>3, <1>5, <2>1, <2>2
<1>7. ASSUME NEW p \in Purchases, CancelPurchase(p) PROVE PurchasesLedgered'
  <2> DEFINE bought == [purchases[p] EXCEPT !.status = "cancelled"]
  <2>1. purchases' = [purchases EXCEPT ![p] = bought] /\ moves' = moves /\ supplier' = supplier
        /\ purchases[p].status = "open"
    BY <1>7 DEF CancelPurchase
  <2>2. bought.total = purchases[p].total /\ bought.items = purchases[p].items /\ bought.status = "cancelled"
    BY DEF TypeInv, TypeOK
  <2> HIDE DEF bought
  <2>3. QED
    BY <1>3, <1>5, <2>1, <2>2
<1>8. ASSUME NEW i \in Stocks, NEW r \in Seq(Movement), \A n \in DOMAIN r : r[n].ref = "none",
             purchases' = purchases, supplier' = supplier, moves' = [moves EXCEPT ![i] = moves[i] \o r]
      PROVE  PurchasesLedgered'
  <2>1. ASSUME NEW p \in Purchases PROVE Ledgered(purchases[p], p, moves[i] \o r, i)
    <3>1. \A n \in DOMAIN r : r[n].ref # p
      BY <1>8, PurchasingAssumption
    <3>2. moves[i] \in Seq(Movement) /\ Ledgered(purchases[p], p, moves[i], i)
      BY DEF TypeInv, PurchasesLedgered
    <3>3. QED
      BY <3>1, <3>2, LedgeredOther
  <2>2. \A j \in Stocks : moves'[j] = IF j = i THEN moves[i] \o r ELSE moves[j]
    BY <1>8 DEF TypeInv
  <2>3. QED
    BY <1>8, <2>1, <2>2 DEF PurchasesLedgered
<1>9. ASSUME NEW i \in Stocks, NEW o \in Openings, CreateStock(i, o) PROVE PurchasesLedgered'
  <2>1. o \in StockRows
    BY PurchasingAssumption DEF StockRows
  <2>2. Opened(o) \in Seq(Movement)
    BY <2>1, OpenedMoves
  <2>3. \A n \in DOMAIN Opened(o) : Opened(o)[n].ref = "none"
    BY DEF Opened
  <2>4. moves[i] = <<>> /\ <<>> \o Opened(o) = Opened(o)
    BY <1>9, <2>2 DEF CreateStock, OnShelves
  <2>5. purchases' = purchases /\ supplier' = supplier /\ moves' = [moves EXCEPT ![i] = moves[i] \o Opened(o)]
    BY <1>9, <2>4 DEF CreateStock
  <2>6. QED
    BY <1>8, <2>2, <2>3, <2>5
<1>10. ASSUME NEW i \in Stocks, DeleteStock(i) PROVE PurchasesLedgered'
  BY <1>10 DEF DeleteStock, PurchasesLedgered
<1>11. ASSUME NEW i \in Stocks, Consume(i, 1) PROVE PurchasesLedgered'
  <2> DEFINE e == [kind |-> "ORDER", qty |-> -1, unit |-> 0, ref |-> "none"]
  <2>1. e \in Movement /\ e.ref = "none"
    BY DEF Movement
  <2>2. purchases' = purchases /\ supplier' = supplier /\ moves' = [moves EXCEPT ![i] = Append(moves[i], e)]
    BY <1>11 DEF Consume
  <2> HIDE DEF e
  <2>3. moves[i] \in Seq(Movement)
    BY DEF TypeInv
  <2>4. Append(moves[i], e) = moves[i] \o <<e>> /\ <<e>> \in Seq(Movement) /\ DOMAIN <<e>> = {1} /\ <<e>>[1] = e
    BY <2>1, <2>3
  <2> DEFINE r == <<e>>
  <2>5. r \in Seq(Movement) /\ (\A n \in DOMAIN r : r[n].ref = "none") /\ moves' = [moves EXCEPT ![i] = moves[i] \o r]
    BY <2>1, <2>2, <2>4
  <2> HIDE DEF r
  <2>6. QED
    BY <1>8, <2>2, <2>5
<1>12. QED
  BY <1>1, <1>2, <1>4, <1>6, <1>7, <1>9, <1>10, <1>11 DEF TableStep

\* What the transaction that commits wrote of a row: nothing, or one movement
\* for its purchase, of the one item that asks for the row.
LEMMA CommittedMoves ==
    ASSUME TypeInv, WritesAreMoves, Receipts, NEW t \in AtWork, tx[t].pc # "receiving", NEW i \in Stocks
    PROVE  /\ \A n \in DOMAIN tx[t].entries[i] : tx[t].entries[i][n].ref = tx[t].purchase
           /\ tx[t].purchase # "none" =>
                 \/ tx[t].entries[i] = <<>> /\ Asking(tx[t].items, i) = {}
                 \/ \E e \in Movement, n \in DOMAIN tx[t].items :
                       /\ tx[t].entries[i] = <<e>> /\ e.ref = tx[t].purchase
                       /\ Asking(tx[t].items, i) = {n} /\ e.qty = tx[t].items[n].qty
<1> DEFINE x == tx[t]
<1>1. \A n \in DOMAIN x.entries[i] : x.entries[i][n].ref = x.purchase
  BY DEF Receipts, Receiving
<1>2. x.items \in Orderable \cup {<<>>}
  BY AtWorkRuns, RunningIs DEF TypeInv, AtWork
<1>3. ASSUME x.purchase # "none", x.entries[i] = <<>> PROVE Asking(x.items, i) = {}
  <2>1. PICK k \in Nat : Received(x, k)
    BY <1>3 DEF Receipts, Receiving
  <2>2. \A n \in 1..Len(x.items) : x.entries[x.items[n].stock] # <<>>
    BY <2>1 DEF Received
  <2>3. DOMAIN x.items = 1..Len(x.items)
    BY <1>2, ListItems
  <2>4. QED
    BY <1>3, <2>2, <2>3 DEF Asking
<1>4. ASSUME x.purchase # "none", x.entries[i] # <<>>
      PROVE  \E e \in Movement, n \in DOMAIN x.items :
                /\ x.entries[i] = <<e>> /\ e.ref = x.purchase
                /\ Asking(x.items, i) = {n} /\ e.qty = x.items[n].qty
  <2>1. PICK e \in Movement : x.entries[i] = <<e>>
    BY <1>4 DEF WritesAreMoves, Written
  <2>2. DOMAIN <<e>> = {1} /\ <<e>>[1] = e
    OBVIOUS
  <2>3. e.ref = x.purchase
    BY <1>1, <2>1, <2>2
  <2>4. PICK k \in Nat : Received(x, k)
    BY <1>4 DEF Receipts, Receiving
  <2>5. k = Len(x.items) /\ DOMAIN x.items = 1..Len(x.items)
    BY <1>2, <2>4, ListItems DEF Received
  <2>6. PICK n \in DOMAIN x.items : x.items[n].stock = i
    BY <1>4, <2>4, <2>5 DEF Received
  <2>7. e.qty = x.items[n].qty
    BY <2>1, <2>2, <2>4, <2>5, <2>6 DEF Received
  <2>8. Asking(x.items, i) = {n}
    BY <1>2, <2>6, ListItems DEF Asking
  <2>9. QED
    BY <2>1, <2>3, <2>7, <2>8
<1>5. QED
  BY <1>1, <1>3, <1>4

\* A commit brings a purchase's items into the ledger with its status.
LEMMA LedgeredCommit ==
    ASSUME TypeInv, WritesAreMoves, Receipts, PurchasesLedgered, NEW t \in Txs, Commit(t)
    PROVE  PurchasesLedgered'
<1> DEFINE x == tx[t]
<1>1. /\ t \in AtWork /\ x.pc # "receiving" /\ supplier' = supplier
      /\ \A i \in Stocks : moves'[i] = moves[i] \o x.entries[i] /\ x.entries[i] \in Seq(Entry)
      /\ \A p \in Purchases :
            purchases'[p] = IF p = x.purchase
                            THEN [status |-> "received", items |-> x.items, total |-> Total(x.items)]
                            ELSE purchases[p]
  BY Commits
<1>2. \A i \in Stocks : moves[i] \in Seq(Movement) /\ x.entries[i] \in Seq(Movement)
  BY <1>1, EntryIsMovement DEF TypeInv
<1>3. ASSUME NEW p \in Purchases, p # x.purchase
      PROVE  /\ purchases'[p] # NoPurchase => supplier' # "gone" /\ purchases'[p].total = Total(purchases'[p].items)
             /\ \A i \in Stocks : Ledgered(purchases'[p], p, moves'[i], i)
  <2>1. purchases'[p] = purchases[p]
    BY <1>1, <1>3
  <2>2. ASSUME NEW i \in Stocks PROVE Ledgered(purchases[p], p, moves[i] \o x.entries[i], i)
    <3>1. \A n \in DOMAIN x.entries[i] : x.entries[i][n].ref # p
      BY <1>1, <1>3, CommittedMoves
    <3>2. Ledgered(purchases[p], p, moves[i], i)
      BY DEF PurchasesLedgered
    <3>3. QED
      BY <1>2, <3>1, <3>2, LedgeredOther
  <2>3. QED
    BY <1>1, <2>1, <2>2 DEF PurchasesLedgered
<1>4. ASSUME NEW p \in Purchases, p = x.purchase
      PROVE  /\ supplier' # "gone" /\ purchases'[p].total = Total(purchases'[p].items)
             /\ \A i \in Stocks : Ledgered(purchases'[p], p, moves'[i], i)
  <2> DEFINE bought == [status |-> "received", items |-> x.items, total |-> Total(x.items)]
  <2>1. purchases'[p] = bought
    BY <1>1, <1>4
  <2>2. bought.status = "received" /\ bought.items = x.items /\ bought.total = Total(x.items)
    OBVIOUS
  <2> HIDE DEF bought
  <2>3. p # "none" /\ purchases[p].status = "open"
    BY <1>1, <1>4, PurchasingAssumption DEF Receipts, Receiving
  <2>4. supplier # "gone"
    BY <2>3 DEF PurchasesLedgered, NoPurchase
  <2>5. ASSUME NEW i \in Stocks PROVE Ledgered(bought, p, moves[i] \o x.entries[i], i)
    <3> DEFINE s == moves[i]
    <3>1. s \in Seq(Movement) /\ ArrivedIn(s, p) = {}
      BY <1>2, <2>3 DEF PurchasesLedgered, Ledgered
    <3>2. CASE x.entries[i] = <<>> /\ Asking(x.items, i) = {}
      <4>1. s \o <<>> = s
        BY <3>1
      <4>2. Ledgered(bought, p, s, i)
        BY <2>2, <3>1, <3>2 DEF Ledgered
      <4>3. QED
        BY <3>2, <4>1, <4>2
    <3>3. ASSUME NEW e \in Movement, NEW n \in DOMAIN x.items, x.entries[i] = <<e>>, e.ref = p,
                 Asking(x.items, i) = {n}, e.qty = x.items[n].qty
          PROVE  Ledgered(bought, p, s \o x.entries[i], i)
      <4> HIDE DEF s
      <4> DEFINE c == s \o <<e>>
      <4>1. Len(s) + 1 \in DOMAIN c /\ c[Len(s) + 1] = e /\ ArrivedIn(c, p) = {Len(s) + 1}
        BY <3>1, <3>3, ArrivedFirst
      <4> HIDE DEF c
      <4>2. Ledgered(bought, p, c, i)
        BY <2>2, <3>3, <4>1 DEF Ledgered
      <4>3. QED
        BY <3>3, <4>2 DEF c
    <3>4. QED
      BY <1>1, <1>4, <2>3, <3>2, <3>3, CommittedMoves
  <2>6. QED
    BY <1>1, <2>1, <2>2, <2>4, <2>5
<1>5. QED
  BY <1>3, <1>4 DEF PurchasesLedgered

\* No step makes the ledger and the purchases disagree.
LEMMA LedgeredStep ==
    ASSUME TypeInv, OnShelves, WritesAreMoves, Receipts, PurchasesLedgered, [Next]_vars
    PROVE  PurchasesLedgered'
<1>1. ASSUME UNCHANGED <<supplier, purchases, moves>> PROVE PurchasesLedgered'
  BY <1>1 DEF PurchasesLedgered
<1>2. ASSUME NEW t \in Txs, NEW new \in Running, Begins(t, new) \/ GoesOn(t, new) PROVE PurchasesLedgered'
  BY <1>1, <1>2 DEF Begins, GoesOn, Tables
<1>3. ASSUME NEW t \in Txs, NEW p \in Purchases, StartReceiving(t, p)
      PROVE  PurchasesLedgered'
  <2>1. UNCHANGED <<stock, purchases, supplier, moves>>
    BY <1>3 DEF StartReceiving
  <2>2. QED
    BY <1>1, <2>1
<1>4. ASSUME NEW t \in Txs, ReceiveItem(t) \/ Abort(t) PROVE PurchasesLedgered'
  BY <1>1, <1>4 DEF ReceiveItem, Abort
<1>5. UNCHANGED vars => UNCHANGED <<supplier, purchases, moves>>
  BY DEF vars
<1>6. QED
  BY <1>1, <1>2, <1>3, <1>4, <1>5, StepCases, LedgeredTables, LedgeredCommit

-------------------------------------------------------------------------------
(* Quantities.                                                             *)

\* One step of Replay: a row, and the row that a movement makes of it.
NextRow(row, m) ==
    LET worth == row.qty * row.cost + m.qty * m.unit
        qty == row.qty + m.qty
    IN [qty |-> qty,
        cost |-> CASE m.kind = "OPENING_BALANCE" -> m.unit
                   [] m.kind = "PURCHASE"        -> HalfUp(worth, qty)
                   [] m.kind = "ADJUSTMENT_IN"   -> HalfEven(worth, qty)
                   [] OTHER                      -> row.cost]

\* Its recursion.
ReplayRow(list, after, n) == IF n = 0 THEN [qty |-> 0, cost |-> 0] ELSE NextRow(after[n - 1], list[n])
Replays(list) == CHOOSE after : after = [n \in 0..Len(list) |-> ReplayRow(list, after, n)]

\* Replay is the last row of its recursion.
LEMMA ReplayByRecursion == ASSUME NEW list PROVE Replay(list) = Replays(list)[Len(list)]
BY DEF Replay, Replays, ReplayRow, NextRow

\* A row of the replay depends on the one before it.
LEMMA ReplayRowBefore ==
    ASSUME NEW list, NEW n, NEW f, NEW g, n # 0 => f[n - 1] = g[n - 1]
    PROVE  ReplayRow(list, f, n) = ReplayRow(list, g, n)
BY DEF ReplayRow

\* The recursion has a solution: it is built from the first row on.
LEMMA ReplaysSolve ==
    ASSUME NEW list, Len(list) \in Nat
    PROVE  Replays(list) = [n \in 0..Len(list) |-> ReplayRow(list, Replays(list), n)]
<1> DEFINE N == Len(list)
           Solves(f, m) == f = [n \in 0..m |-> ReplayRow(list, f, n)]
           Solved == {m \in 0..N : \E f : Solves(f, m)}
<1>1. 0 \in Solved
  <2> DEFINE f == [n \in 0..0 |-> [qty |-> 0, cost |-> 0]]
  <2>1. \A n \in 0..0 : ReplayRow(list, f, n) = [qty |-> 0, cost |-> 0]
    BY DEF ReplayRow
  <2>2. Solves(f, 0)
    BY <2>1
  <2>3. QED
    BY <2>2
<1>2. ASSUME NEW m \in 1..N, m - 1 \in Solved PROVE m \in Solved
  <2>1. PICK f : Solves(f, m - 1)
    BY <1>2
  <2> DEFINE g == [n \in 0..m |-> IF n = m THEN ReplayRow(list, f, m) ELSE f[n]]
  <2>2. ASSUME NEW n \in 0..m PROVE g[n] = ReplayRow(list, g, n)
    <3>1. n # 0 => n - 1 \in 0..(m - 1) /\ n - 1 # m
      BY <1>2
    <3>2. n # 0 => f[n - 1] = g[n - 1]
      BY <3>1
    <3>3. ReplayRow(list, f, n) = ReplayRow(list, g, n)
      <4> HIDE DEF g
      <4>1. QED
        BY <3>2, ReplayRowBefore
    <3>4. n # m => f[n] = ReplayRow(list, f, n)
      <4> HIDE DEF g
      <4>1. QED
        BY <1>2, <2>1, SMTT(30)
    <3>5. QED
      BY <3>3, <3>4
  <2>3. g = [n \in 0..m |-> ReplayRow(list, g, n)]
    BY <2>2
  <2> HIDE DEF g
  <2>4. Solves(g, m)
    BY <2>3
  <2>5. QED
    BY <2>4
<1>3. 0..N \subseteq Solved
  <2> HIDE DEF Solved, N
  <2>1. N \in Nat
    BY DEF N
  <2>2. QED
    BY <1>1, <1>2, <2>1, BoundedInduction
<1>4. \E f : f = [n \in 0..N |-> ReplayRow(list, f, n)]
  BY <1>3
<1>5. QED
  BY <1>4 DEF Replays

\* Each row of the replay comes from the one before it.
LEMMA ReplayRows ==
    ASSUME NEW s \in Seq(Movement)
    PROVE  /\ Replays(s)[0] = [qty |-> 0, cost |-> 0]
           /\ \A n \in 1..Len(s) : Replays(s)[n] = NextRow(Replays(s)[n - 1], s[n])
<1>1. Len(s) \in Nat
  OBVIOUS
<1> DEFINE f == Replays(s)
<1>2. f = [n \in 0..Len(s) |-> ReplayRow(s, f, n)]
  BY <1>1, ReplaysSolve
<1> HIDE DEF f
<1>3. \A n \in 0..Len(s) : f[n] = ReplayRow(s, f, n)
  BY <1>2
<1>4. f[0] = [qty |-> 0, cost |-> 0]
  <2>1. 0 \in 0..Len(s)
    BY <1>1
  <2>2. ReplayRow(s, f, 0) = [qty |-> 0, cost |-> 0]
    BY DEF ReplayRow
  <2>3. QED
    BY <1>3, <2>1, <2>2
<1>5. ASSUME NEW n \in 1..Len(s) PROVE f[n] = NextRow(f[n - 1], s[n])
  <2>1. n \in 0..Len(s) /\ n # 0
    BY <1>1
  <2>2. ReplayRow(s, f, n) = NextRow(f[n - 1], s[n])
    BY <2>1 DEF ReplayRow
  <2>3. QED
    BY <1>3, <2>1, <2>2
<1>6. QED
  BY <1>4, <1>5 DEF f

\* No movements leave nothing.
LEMMA ReplayNone == Replay(<<>>) = [qty |-> 0, cost |-> 0]
<1>1. <<>> \in Seq(Movement) /\ Len(<<>>) = 0
  OBVIOUS
<1>2. QED
  BY <1>1, ReplayRows, ReplayByRecursion

\* One movement more is one step more.
LEMMA ReplayMore ==
    ASSUME NEW s \in Seq(Movement), NEW e \in Movement
    PROVE  Replay(s \o <<e>>) = NextRow(Replay(s), e)
<1> DEFINE c == s \o <<e>>
           N == Len(s)
           T == {n \in 0..N : Replays(c)[n] = Replays(s)[n]}
<1>1. /\ c \in Seq(Movement) /\ Len(c) = N + 1 /\ N \in Nat
      /\ c[N + 1] = e /\ \A n \in 1..N : c[n] = s[n]
  OBVIOUS
<1> HIDE DEF c, N
<1>2. 0 \in T
  BY <1>1, ReplayRows
<1>3. ASSUME NEW n \in 1..N, n - 1 \in T PROVE n \in T
  <2>1. n \in 1..Len(s) /\ n \in 1..Len(c) /\ n \in 0..N
    BY <1>1 DEF N
  <2>2. Replays(c)[n] = NextRow(Replays(c)[n - 1], c[n])
    BY <1>1, <2>1, ReplayRows
  <2>3. Replays(s)[n] = NextRow(Replays(s)[n - 1], s[n])
    BY <2>1, ReplayRows
  <2>4. QED
    BY <1>1, <1>3, <2>1, <2>2, <2>3
<1>4. 0..N \subseteq T
  <2> HIDE DEF T
  <2>1. QED
    BY <1>1, <1>2, <1>3, BoundedInduction
<1>5. Replays(c)[N] = Replays(s)[N]
  BY <1>1, <1>4
<1>6. N + 1 \in 1..Len(c) /\ (N + 1) - 1 = N
  BY <1>1
<1>7. Replays(c)[N + 1] = NextRow(Replays(c)[N], e)
  BY <1>1, <1>6, ReplayRows
<1>8. QED
  BY <1>1, <1>5, <1>7, ReplayByRecursion DEF c, N

\* One movement more adds its quantity.
LEMMA ReplayQuantity ==
    ASSUME NEW s \in Seq(Movement), NEW e \in Movement
    PROVE  Replay(s \o <<e>>).qty = Replay(s).qty + e.qty
<1>1. NextRow(Replay(s), e).qty = Replay(s).qty + e.qty
  BY DEF NextRow
<1>2. QED
  BY <1>1, ReplayMore

\* An opening balance is the row as it is opened; with nothing there is none.
LEMMA ReplayOpened ==
    ASSUME NEW o \in Filled
    PROVE  /\ Replay(Opened(o)) \in Filled /\ Replay(Opened(o)).qty = o.qty
           /\ Opened(o) # <<>> => Replay(Opened(o)).cost = o.cost
<1>1. o # Absent /\ o.qty \in Nat /\ o.cost \in Nat
  BY FilledPresent DEF Filled
<1>2. CASE o.qty = 0
  <2>1. Opened(o) = <<>>
    BY <1>2 DEF Opened
  <2>2. QED
    BY <1>2, <2>1, ReplayNone DEF Filled
<1>3. CASE o.qty # 0
  <2> DEFINE e == [kind |-> "OPENING_BALANCE", qty |-> o.qty, unit |-> o.cost, ref |-> "none"]
             first == [qty |-> 0, cost |-> 0]
  <2>1. e \in Movement
    BY <1>1 DEF Movement
  <2>2. Opened(o) = <<e>>
    BY <1>1, <1>3 DEF Opened
  <2>3. NextRow(first, e) = [qty |-> 0 + o.qty, cost |-> o.cost]
    BY DEF NextRow
  <2>4. NextRow(first, e) \in Filled /\ NextRow(first, e).qty = o.qty /\ NextRow(first, e).cost = o.cost
    BY <1>1, <2>3 DEF Filled
  <2> HIDE DEF e
  <2>5. <<>> \in Seq(Movement) /\ <<>> \o <<e>> = <<e>>
    OBVIOUS
  <2>6. Replay(<<e>>) = NextRow(first, e)
    BY <2>1, <2>5, ReplayMore, ReplayNone
  <2>7. QED
    BY <2>2, <2>4, <2>6
<1>4. QED
  BY <1>2, <1>3

\* The ledgers of the rows that are opened add up.
LEMMA QuantitiesBegin == Init => Quantities
<1> SUFFICES ASSUME Init, NEW i \in Stocks, stock[i] # Absent PROVE Replay(moves[i]).qty = stock[i].qty
  BY DEF Quantities
<1>1. stock[i] \in Filled /\ moves[i] = Opened(stock[i])
  BY PurchasingAssumption DEF Init, Filled
<1>2. QED
  BY <1>1, ReplayOpened

\* A request of one step moves a quantity and notes down as much.
LEMMA QuantitiesTables ==
    ASSUME TypeInv, OnShelves, Quantities, TableStep
    PROVE  Quantities'
<1>1. ASSUME NEW i \in Stocks, NEW o \in Openings, CreateStock(i, o) PROVE Quantities'
  <2>1. o \in Filled
    BY PurchasingAssumption DEF Filled
  <2>2. \A j \in Stocks : /\ stock'[j] = IF j = i THEN o ELSE stock[j]
                          /\ moves'[j] = IF j = i THEN Opened(o) ELSE moves[j]
    BY <1>1 DEF CreateStock, TypeInv, TypeOK
  <2>3. QED
    BY <2>1, <2>2, ReplayOpened DEF Quantities
<1>2. ASSUME NEW i \in Stocks, DeleteStock(i) PROVE Quantities'
  <2>1. \A j \in Stocks : stock'[j] = (IF j = i THEN Absent ELSE stock[j]) /\ moves'[j] = moves[j]
    BY <1>2 DEF DeleteStock, TypeInv, TypeOK
  <2>2. QED
    BY <2>1 DEF Quantities
<1>3. ASSUME NEW i \in Stocks, Consume(i, 1) PROVE Quantities'
  <2> DEFINE e == [kind |-> "ORDER", qty |-> -1, unit |-> 0, ref |-> "none"]
  <2>1. e \in Movement /\ e.qty = -1
    BY DEF Movement
  <2>2. stock[i] \in Filled
    BY <1>3, RowsFilled DEF Consume, Absent, TypeInv, TypeOK
  <2>3. stock'[i].qty = stock[i].qty - 1 /\ stock[i] # Absent
    BY <1>3, <2>2, FilledPresent DEF Consume, Filled, TypeInv, TypeOK
  <2>4. \A j \in Stocks : j # i => stock'[j] = stock[j] /\ moves'[j] = moves[j]
    BY <1>3 DEF Consume, TypeInv, TypeOK
  <2>5. moves'[i] = Append(moves[i], e) /\ moves[i] \in Seq(Movement)
    BY <1>3 DEF Consume, TypeInv
  <2> HIDE DEF e
  <2>6. moves'[i] = moves[i] \o <<e>>
    BY <2>1, <2>5
  <2>7. Replay(moves'[i]).qty = Replay(moves[i]).qty + e.qty
    BY <2>1, <2>5, <2>6, ReplayQuantity
  <2>8. Replay(moves[i]).qty = stock[i].qty /\ stock[i].qty \in Nat
    BY <2>2, <2>3 DEF Quantities, Filled
  <2>9. Replay(moves'[i]).qty = stock'[i].qty
    BY <2>1, <2>3, <2>7, <2>8
  <2>10. QED
    BY <2>4, <2>9 DEF Quantities
<1>4. CASE UNCHANGED <<stock, moves>>
  BY <1>4 DEF Quantities
<1>5. QED
  BY <1>1, <1>2, <1>3, <1>4 DEF TableStep, UpdateSupplier, DeleteSupplier, CreatePurchase, EditItems, CancelPurchase

\* No step makes a quantity differ from what its movements add up to.
LEMMA QuantitiesStep ==
    ASSUME TypeInv, OnShelves, WritesAreMoves, Quantities, [Next]_vars
    PROVE  Quantities'
<1>1. ASSUME UNCHANGED <<stock, moves>> PROVE Quantities'
  BY <1>1 DEF Quantities
<1>2. ASSUME NEW t \in Txs, NEW new \in Running, Begins(t, new) \/ GoesOn(t, new) PROVE Quantities'
  BY <1>1, <1>2 DEF Begins, GoesOn, Tables
<1>3. ASSUME NEW t \in Txs, NEW p \in Purchases, StartReceiving(t, p)
      PROVE  Quantities'
  <2>1. UNCHANGED <<stock, purchases, supplier, moves>>
    BY <1>3 DEF StartReceiving
  <2>2. QED
    BY <1>1, <2>1
<1>4. ASSUME NEW t \in Txs, ReceiveItem(t) \/ Abort(t) PROVE Quantities'
  BY <1>1, <1>4 DEF ReceiveItem, Abort
<1>5. ASSUME NEW t \in Txs, Commit(t) PROVE Quantities'
  <2> DEFINE x == tx[t]
  <2>1. /\ t \in AtWork
        /\ \A i \in Stocks : stock'[i] = IF x.wrote[i] # Absent THEN x.wrote[i] ELSE stock[i]
        /\ \A i \in Stocks : moves'[i] = moves[i] \o x.entries[i]
    BY <1>5, Commits
  <2>2. ASSUME NEW i \in Stocks, stock'[i] # Absent PROVE Replay(moves'[i]).qty = stock'[i].qty
    <3>1. moves[i] \in Seq(Movement)
      BY DEF TypeInv
    <3>2. CASE x.wrote[i] = Absent
      <4>1. stock'[i] = stock[i] /\ x.entries[i] = <<>>
        BY <2>1, <3>2 DEF WritesAreMoves, Written
      <4>2. moves[i] \o <<>> = moves[i]
        BY <3>1
      <4>3. moves'[i] = moves[i]
        BY <2>1, <4>1, <4>2
      <4>4. QED
        BY <2>2, <4>1, <4>3 DEF Quantities
    <3>3. CASE x.wrote[i] # Absent
      <4>1. PICK e \in Movement : x.entries[i] = <<e>> /\ x.wrote[i].qty = stock[i].qty + e.qty
        BY <2>1, <3>3 DEF WritesAreMoves, Written, Moved
      <4>2. stock[i] # Absent /\ stock'[i] = x.wrote[i]
        BY <2>1, <3>3 DEF WritesAreMoves, Written
      <4>3. Replay(moves[i]).qty = stock[i].qty
        BY <4>2 DEF Quantities
      <4>4. Replay(moves[i] \o <<e>>).qty = stock[i].qty + e.qty
        BY <3>1, <4>3, ReplayQuantity
      <4>5. QED
        BY <2>1, <4>1, <4>2, <4>4
    <3>4. QED
      BY <3>2, <3>3
  <2>3. QED
    BY <2>2 DEF Quantities
<1>6. UNCHANGED vars => UNCHANGED <<stock, moves>>
  BY DEF vars
<1>7. QED
  BY <1>1, <1>2, <1>3, <1>4, <1>5, <1>6, StepCases, QuantitiesTables

-------------------------------------------------------------------------------
(* Costs.                                                                  *)

\* An average over what a purchase cost, and one over its unit cost as the ledger
\* has it: close if the costs they begin with are, however long they have been apart.
LEMMA PurchaseClose ==
    ASSUME NEW a \in Nat, NEW c \in Nat, NEW k \in Nat, a = 0 \/ Close(c, k),
           NEW q \in Nat, q > 0, NEW total \in Nat, NEW unit \in Nat, unit = HalfUp(total, q)
    PROVE  Close(HalfUp(a * c + q * unit, a + q), HalfUp(a * k + total, a + q))
<1> DEFINE x == a * c + q * unit
           y == a * k + total
           b == a + q
<1>1. a * c \in Nat /\ a * k \in Nat /\ q * unit \in Nat
  BY ProductNat
<1>2. 2 * (q * unit) <= 2 * total + q /\ 2 * total <= 2 * (q * unit) + q
  BY HalfUpNearest DEF Nearest
<1>3. a * c - a * k <= a /\ a * k - a * c <= a
  BY WorthClose DEF Close
<1>4. x \in Nat /\ y \in Nat /\ b \in Nat /\ b > 0 /\ x - y < b /\ y - x < b
  BY <1>1, <1>2, <1>3
<1> HIDE DEF x, y, b
<1>5. HalfUp(x, b) \in Nat /\ HalfUp(y, b) \in Nat
  BY <1>4, RoundedNat
<1>6. Nearest(HalfUp(x, b), x, b) /\ Nearest(HalfUp(y, b), y, b)
  BY <1>4, HalfUpNearest
<1>7. HalfUp(x, b) - HalfUp(y, b) \in {-1, 0, 1}
  BY <1>4, <1>5, <1>6, NearestClose
<1>8. QED
  BY <1>7 DEF Close, x, y, b

\* So are two averages over the same adjustment.
LEMMA AdjustmentClose ==
    ASSUME NEW a \in Nat, NEW c \in Nat, NEW k \in Nat, a = 0 \/ Close(c, k),
           NEW q \in Nat, q > 0, NEW unit \in Nat
    PROVE  Close(HalfEven(a * c + q * unit, a + q), HalfEven(a * k + q * unit, a + q))
<1> DEFINE x == a * c + q * unit
           y == a * k + q * unit
           b == a + q
<1>1. a * c \in Nat /\ a * k \in Nat /\ q * unit \in Nat
  BY ProductNat
<1>2. a * c - a * k <= a /\ a * k - a * c <= a
  BY WorthClose DEF Close
<1>3. x \in Nat /\ y \in Nat /\ b \in Nat /\ b > 0 /\ x - y < b /\ y - x < b
  BY <1>1, <1>2
<1> HIDE DEF x, y, b
<1>4. HalfEven(x, b) \in Nat /\ HalfEven(y, b) \in Nat
  BY <1>3, RoundedNat
<1>5. Nearest(HalfEven(x, b), x, b) /\ Nearest(HalfEven(y, b), y, b)
  BY <1>3, HalfEvenNearest
<1>6. HalfEven(x, b) - HalfEven(y, b) \in {-1, 0, 1}
  BY <1>3, <1>4, <1>5, NearestClose
<1>7. QED
  BY <1>6 DEF Close, x, y, b

\* Two rows of one quantity, whose costs are close, stay close when one of them
\* moves as the requests have it and the other as the replay has it.
LEMMA MovedClose ==
    ASSUME NEW old \in Filled, NEW new \in Filled, NEW row \in Filled, NEW e \in Movement, Moved(old, e, new),
           row.qty = old.qty, old.qty = 0 \/ Close(row.cost, old.cost)
    PROVE  NextRow(row, e) \in Filled /\ Close(NextRow(row, e).cost, new.cost)
<1>1. /\ old.qty \in Nat /\ old.cost \in Nat /\ new.qty \in Nat /\ new.cost \in Nat /\ row.cost \in Nat
      /\ e.qty \in Int /\ e.unit \in Nat /\ new.qty = old.qty + e.qty
  BY DEF Filled, Movement, Moved
<1>2. NextRow(row, e).qty = new.qty
  BY <1>1 DEF NextRow
<1>3. NextRow(row, e).cost \in Nat /\ Close(NextRow(row, e).cost, new.cost)
  <2>1. ASSUME e.kind = "PURCHASE", e.qty > 0, NEW total \in Nat, e.unit = HalfUp(total, e.qty),
               new.cost = HalfUp(old.qty * old.cost + total, new.qty)
        PROVE  NextRow(row, e).cost \in Nat /\ Close(NextRow(row, e).cost, new.cost)
    <3>1. NextRow(row, e).cost = HalfUp(old.qty * row.cost + e.qty * e.unit, old.qty + e.qty)
      BY <2>1 DEF NextRow
    <3>2. e.qty \in Nat /\ new.cost = HalfUp(old.qty * old.cost + total, old.qty + e.qty)
      BY <1>1, <2>1
    <3>3. Close(NextRow(row, e).cost, new.cost)
      <4>1. Close(HalfUp(old.qty * row.cost + e.qty * e.unit, old.qty + e.qty),
                  HalfUp(old.qty * old.cost + total, old.qty + e.qty))
        BY <1>1, <2>1, <3>2, PurchaseClose, Zenon
      <4>2. QED
        BY <3>1, <3>2, <4>1
    <3>4. old.qty * row.cost + e.qty * e.unit \in Nat /\ old.qty + e.qty \in Nat /\ old.qty + e.qty > 0
      <4>1. old.qty * row.cost \in Nat /\ e.qty * e.unit \in Nat
        BY <1>1, <3>2, ProductNat, Zenon
      <4>2. e.qty \in Nat /\ e.qty > 0 /\ old.qty \in Nat
        BY <1>1, <2>1
      <4>3. QED
        BY <4>1, <4>2
    <3>5. QED
      BY <3>1, <3>3, <3>4, RoundedNat
  <2>2. ASSUME e.kind = "ADJUSTMENT_IN", e.qty > 0,
               new.cost = HalfEven(old.qty * old.cost + e.qty * e.unit, new.qty)
        PROVE  NextRow(row, e).cost \in Nat /\ Close(NextRow(row, e).cost, new.cost)
    <3>1. NextRow(row, e).cost = HalfEven(old.qty * row.cost + e.qty * e.unit, old.qty + e.qty)
      BY <2>2 DEF NextRow
    <3>2. e.qty \in Nat /\ new.cost = HalfEven(old.qty * old.cost + e.qty * e.unit, old.qty + e.qty)
      BY <1>1, <2>2
    <3>3. Close(NextRow(row, e).cost, new.cost)
      <4>1. Close(HalfEven(old.qty * row.cost + e.qty * e.unit, old.qty + e.qty),
                  HalfEven(old.qty * old.cost + e.qty * e.unit, old.qty + e.qty))
        BY <1>1, <2>2, <3>2, AdjustmentClose, Zenon
      <4>2. QED
        BY <3>1, <3>2, <4>1
    <3>4. old.qty * row.cost + e.qty * e.unit \in Nat /\ old.qty + e.qty \in Nat /\ old.qty + e.qty > 0
      <4>1. old.qty * row.cost \in Nat /\ e.qty * e.unit \in Nat
        BY <1>1, <3>2, ProductNat, Zenon
      <4>2. e.qty \in Nat /\ e.qty > 0 /\ old.qty \in Nat
        BY <1>1, <2>2
      <4>3. QED
        BY <4>1, <4>2
    <3>5. QED
      BY <3>1, <3>3, <3>4, RoundedNat
  <2>3. ASSUME e.kind \in {"ADJUSTMENT_OUT", "ORDER"}, e.qty < 0, new.cost = old.cost
        PROVE  NextRow(row, e).cost \in Nat /\ Close(NextRow(row, e).cost, new.cost)
    <3>1. old.qty # 0
      BY <1>1, <2>3
    <3>2. NextRow(row, e).cost = row.cost
      BY <2>3 DEF NextRow
    <3>3. QED
      BY <1>1, <2>3, <3>1, <3>2
  <2>4. QED
    BY <2>1, <2>2, <2>3 DEF Moved
<1>4. QED
  <2>1. NextRow(row, e) = [qty |-> NextRow(row, e).qty, cost |-> NextRow(row, e).cost]
    BY DEF NextRow
  <2>2. QED
    BY <1>1, <1>2, <1>3, <2>1 DEF Filled

\* A movement that a row and its ledger both take.
LEMMA CostsMore ==
    ASSUME NEW s \in Seq(Movement), NEW e \in Movement, NEW old \in Filled, NEW new \in Filled,
           Moved(old, e, new), Replay(s) \in Filled, Replay(s).qty = old.qty,
           s = <<>> \/ Close(Replay(s).cost, old.cost)
    PROVE  Replay(s \o <<e>>) \in Filled /\ Close(Replay(s \o <<e>>).cost, new.cost)
<1> DEFINE row == Replay(s)
<1>1. s = <<>> => old.qty = 0
  BY ReplayNone
<1>2. row \in Filled /\ row.qty = old.qty /\ (old.qty = 0 \/ Close(row.cost, old.cost))
  BY <1>1
<1> HIDE DEF row
<1>3. NextRow(row, e) \in Filled /\ Close(NextRow(row, e).cost, new.cost)
  BY <1>2, MovedClose
<1>4. QED
  BY <1>3, ReplayMore DEF row

\* The ledgers of the rows that are opened have their costs.
LEMMA CostsBegin == Init => Costs
<1> SUFFICES ASSUME Init, NEW i \in Stocks, stock[i] # Absent
             PROVE  /\ Replay(moves[i]) \in Filled
                    /\ moves[i] = <<>> \/ Close(Replay(moves[i]).cost, stock[i].cost)
  BY DEF Costs
<1>1. stock[i] \in Filled /\ moves[i] = Opened(stock[i])
  BY PurchasingAssumption DEF Init, Filled
<1>2. stock[i].cost - stock[i].cost = 0
  BY <1>1 DEF Filled
<1>3. QED
  BY <1>1, <1>2, ReplayOpened DEF Close

\* A request of one step leaves the cost of a row, or opens it.
LEMMA CostsTables ==
    ASSUME TypeInv, Quantities, Costs, TableStep
    PROVE  Costs'
<1>1. ASSUME NEW i \in Stocks, NEW o \in Openings, CreateStock(i, o) PROVE Costs'
  <2>1. o \in Filled /\ o.cost - o.cost = 0
    BY PurchasingAssumption DEF Filled
  <2>2. \A j \in Stocks : /\ stock'[j] = IF j = i THEN o ELSE stock[j]
                          /\ moves'[j] = IF j = i THEN Opened(o) ELSE moves[j]
    BY <1>1 DEF CreateStock, TypeInv, TypeOK
  <2>3. Replay(Opened(o)) \in Filled /\ (Opened(o) = <<>> \/ Close(Replay(Opened(o)).cost, o.cost))
    BY <2>1, ReplayOpened DEF Close
  <2>4. QED
    BY <2>2, <2>3 DEF Costs
<1>2. ASSUME NEW i \in Stocks, DeleteStock(i) PROVE Costs'
  <2>1. \A j \in Stocks : stock'[j] = (IF j = i THEN Absent ELSE stock[j]) /\ moves'[j] = moves[j]
    BY <1>2 DEF DeleteStock, TypeInv, TypeOK
  <2>2. QED
    BY <2>1 DEF Costs
<1>3. ASSUME NEW i \in Stocks, Consume(i, 1) PROVE Costs'
  <2> DEFINE e == [kind |-> "ORDER", qty |-> -1, unit |-> 0, ref |-> "none"]
             new == [stock[i] EXCEPT !.qty = @ - 1]
  <2>1. e \in Movement
    BY DEF Movement
  <2>2. stock[i] \in Filled /\ stock[i].qty >= 1
    BY <1>3, RowsFilled DEF Consume, Absent, TypeInv, TypeOK
  <2>3. stock'[i] = new /\ stock[i] # Absent
    BY <1>3, <2>2, FilledPresent DEF Consume, TypeInv, TypeOK
  <2>4. \A j \in Stocks : j # i => stock'[j] = stock[j] /\ moves'[j] = moves[j]
    BY <1>3 DEF Consume, TypeInv, TypeOK
  <2>5. moves'[i] = Append(moves[i], e) /\ moves[i] \in Seq(Movement)
    BY <1>3 DEF Consume, TypeInv
  <2>6. new \in Filled /\ Moved(stock[i], e, new)
    BY <2>2 DEF Moved, Filled
  <2> HIDE DEF e, new
  <2>7. moves'[i] = moves[i] \o <<e>>
    BY <2>1, <2>5
  <2>8. /\ Replay(moves[i]) \in Filled /\ Replay(moves[i]).qty = stock[i].qty
        /\ moves[i] = <<>> \/ Close(Replay(moves[i]).cost, stock[i].cost)
    BY <2>3 DEF Quantities, Costs
  <2>9. Replay(moves'[i]) \in Filled /\ Close(Replay(moves'[i]).cost, new.cost)
    BY <2>1, <2>2, <2>5, <2>6, <2>7, <2>8, CostsMore
  <2>10. QED
    BY <2>3, <2>4, <2>9 DEF Costs
<1>4. CASE UNCHANGED <<stock, moves>>
  BY <1>4 DEF Costs
<1>5. QED
  BY <1>1, <1>2, <1>3, <1>4 DEF TableStep, UpdateSupplier, DeleteSupplier, CreatePurchase, EditItems, CancelPurchase

\* No step takes a cost away from the one its movements come to.
LEMMA CostsStep ==
    ASSUME TypeInv, WritesAreMoves, Quantities, Costs, [Next]_vars
    PROVE  Costs'
<1>1. ASSUME UNCHANGED <<stock, moves>> PROVE Costs'
  BY <1>1 DEF Costs
<1>2. ASSUME NEW t \in Txs, NEW new \in Running, Begins(t, new) \/ GoesOn(t, new) PROVE Costs'
  BY <1>1, <1>2 DEF Begins, GoesOn, Tables
<1>3. ASSUME NEW t \in Txs, NEW p \in Purchases, StartReceiving(t, p)
      PROVE  Costs'
  <2>1. UNCHANGED <<stock, purchases, supplier, moves>>
    BY <1>3 DEF StartReceiving
  <2>2. QED
    BY <1>1, <2>1
<1>4. ASSUME NEW t \in Txs, ReceiveItem(t) \/ Abort(t) PROVE Costs'
  BY <1>1, <1>4 DEF ReceiveItem, Abort
<1>5. ASSUME NEW t \in Txs, Commit(t) PROVE Costs'
  <2> DEFINE x == tx[t]
             Kept(i) == /\ Replay(moves'[i]) \in Filled
                        /\ moves'[i] = <<>> \/ Close(Replay(moves'[i]).cost, stock'[i].cost)
  <2>1. /\ t \in AtWork /\ stock' \in [Stocks -> StockRows]
        /\ \A i \in Stocks : stock'[i] = IF x.wrote[i] # Absent THEN x.wrote[i] ELSE stock[i]
        /\ \A i \in Stocks : moves'[i] = moves[i] \o x.entries[i]
    BY <1>5, Commits
  <2>2. ASSUME NEW i \in Stocks, stock'[i] # Absent PROVE Kept(i)
    <3>1. moves[i] \in Seq(Movement)
      BY DEF TypeInv
    <3>2. CASE x.wrote[i] = Absent
      <4>1. stock'[i] = stock[i] /\ x.entries[i] = <<>>
        BY <2>1, <3>2 DEF WritesAreMoves, Written
      <4>2. moves[i] \o <<>> = moves[i]
        BY <3>1
      <4>3. moves'[i] = moves[i]
        BY <2>1, <4>1, <4>2
      <4>4. QED
        BY <2>2, <4>1, <4>3 DEF Costs
    <3>3. CASE x.wrote[i] # Absent
      <4>1. PICK e \in Movement : x.entries[i] = <<e>> /\ Moved(stock[i], e, x.wrote[i])
        BY <2>1, <3>3 DEF WritesAreMoves, Written
      <4>2. stock[i] # Absent /\ stock'[i] = x.wrote[i] /\ moves'[i] = moves[i] \o <<e>>
        BY <2>1, <3>3, <4>1 DEF WritesAreMoves, Written
      <4>3. stock[i] \in Filled /\ stock'[i] \in Filled
        BY <2>1, <2>2, <4>2, RowsFilled DEF TypeInv, TypeOK
      <4>4. /\ Replay(moves[i]) \in Filled /\ Replay(moves[i]).qty = stock[i].qty
            /\ moves[i] = <<>> \/ Close(Replay(moves[i]).cost, stock[i].cost)
        BY <4>2 DEF Quantities, Costs
      <4>5. Replay(moves[i] \o <<e>>) \in Filled /\ Close(Replay(moves[i] \o <<e>>).cost, stock'[i].cost)
        BY <3>1, <4>1, <4>2, <4>3, <4>4, CostsMore
      <4>6. QED
        BY <4>2, <4>5
    <3>4. QED
      BY <3>2, <3>3
  <2> HIDE DEF Kept
  <2>3. \A i \in Stocks : stock'[i] # Absent => Kept(i)
    BY <2>2
  <2>4. QED
    BY <2>3 DEF Costs, Kept
<1>6. UNCHANGED vars => UNCHANGED <<stock, moves>>
  BY DEF vars
<1>7. QED
  BY <1>1, <1>2, <1>3, <1>4, <1>5, <1>6, StepCases, CostsTables

-------------------------------------------------------------------------------
(* One request at a time.                                                 *)

\* The purchases received, which the promise keeps as a set.
Arrived == {p \in Purchases : purchases[p].status = "received"}

\* Statuses change to and from other values only.
LEMMA ArrivedKept ==
    ASSUME TypeInv, \A p \in Purchases : purchases'[p].status = "received" <=> purchases[p].status = "received"
    PROVE  Arrived' = Arrived
BY DEF Arrived

\* A request of one step is one of the promise, or changes nothing it knows of.
LEMMA SerialTables ==
    ASSUME TypeInv, OnShelves, TableStep
    PROVE  [Room!Next]_Room!vars
<1>1. ASSUME UNCHANGED <<stock, moves>>,
             \A p \in Purchases : purchases'[p].status = "received" <=> purchases[p].status = "received"
      PROVE  UNCHANGED Room!vars
  BY <1>1, ArrivedKept DEF Room!vars, Arrived
<1>2. CASE UpdateSupplier \/ DeleteSupplier
  BY <1>1, <1>2 DEF UpdateSupplier, DeleteSupplier
<1>3. ASSUME NEW p \in Purchases, NEW list \in Orderable, CreatePurchase(p, list) \/ EditItems(p, list)
      PROVE  UNCHANGED Room!vars
  <2>1. purchases[p].status # "received" /\ purchases \in [Purchases -> PurchaseTypes]
    BY <1>3 DEF CreatePurchase, EditItems, NoPurchase, TypeInv, TypeOK, PurchaseTypes
  <2>2. CASE CreatePurchase(p, list)
    BY <1>1, <2>1, <2>2 DEF CreatePurchase
  <2>3. CASE EditItems(p, list)
    <3>1. purchases[p].status = "open"
      BY <2>3 DEF EditItems
    <3>2. /\ purchases'[p].status = "open" /\ \A q \in Purchases : q # p => purchases'[q] = purchases[q]
          /\ UNCHANGED <<stock, moves>>
      BY <2>1, <2>3, <3>1 DEF EditItems, PurchaseTypes
    <3>3. QED
      BY <1>1, <2>1, <3>2
  <2>4. QED
    BY <1>3, <2>2, <2>3
<1>4. ASSUME NEW p \in Purchases, CancelPurchase(p) PROVE UNCHANGED Room!vars
  <2>1. /\ UNCHANGED <<stock, moves>> /\ purchases[p].status # "received"
        /\ purchases'[p].status = "cancelled" /\ \A q \in Purchases : q # p => purchases'[q] = purchases[q]
    BY <1>4 DEF CancelPurchase, TypeInv, TypeOK
  <2>2. QED
    BY <1>1, <2>1
<1>5. ASSUME NEW i \in Stocks, NEW o \in Openings, CreateStock(i, o) PROVE Room!Open(i, o)
  BY <1>5 DEF CreateStock, Room!Open
<1>6. ASSUME NEW i \in Stocks, DeleteStock(i) PROVE Room!Close(i)
  BY <1>6 DEF DeleteStock, Room!Close
<1>7. ASSUME NEW i \in Stocks, Consume(i, 1) PROVE Room!Take(i)
  <2>1. stock[i] # Absent
    BY <1>7 DEF Consume, Absent
  <2>2. QED
    BY <1>7, <2>1 DEF Consume, Room!Take
<1>8. QED
  BY <1>2, <1>3, <1>4, <1>5, <1>6, <1>7 DEF TableStep, Room!Next

\* The commit of an adjustment is the adjustment, of the row as it is now.
LEMMA SerialAdjustment ==
    ASSUME TypeInv, NEW t \in Txs, Commit(t), tx[t].purchase = "none",
           NEW i \in Stocks, NEW d \in Deliveries, Corrects(tx[t], i, d)
    PROVE  Room!Adjust(i, d)
<1> DEFINE x == tx[t]
           new == Adjusted(stock[i], d.qty, d.unit)
           e == Correction(i, d)
<1>1. /\ stock' \in [Stocks -> StockRows] /\ moves' \in [Stocks -> Seq(Movement)]
      /\ \A j \in Stocks : stock'[j] = IF x.wrote[j] # Absent THEN x.wrote[j] ELSE stock[j]
      /\ \A j \in Stocks : moves'[j] = moves[j] \o x.entries[j]
      /\ \A p \in Purchases : p # x.purchase => purchases'[p] = purchases[p]
  BY Commits
<1>2. stock[i] \in Filled /\ stock[i].qty + d.qty >= 0
  BY DEF Corrects
<1>3. new \in Filled
  BY <1>2, AdjustedRow, PurchasingAssumption DEF Filled
<1>4. x.wrote = [Nothing EXCEPT ![i] = new] /\ x.entries = [NoEntries EXCEPT ![i] = <<e>>]
  BY DEF Corrects
<1>5. \A j \in Stocks : moves[j] \in Seq(Movement) /\ moves[j] \o <<>> = moves[j]
  BY DEF TypeInv
<1> HIDE DEF new, e, x
<1>6. stock \in [Stocks -> StockRows] /\ moves \in [Stocks -> Seq(Movement)]
  BY DEF TypeInv, TypeOK
<1>7. new # Absent
  BY <1>3, FilledPresent
<1>8. \A j \in Stocks : stock'[j] = IF j = i THEN new ELSE stock[j]
  BY <1>1, <1>4, <1>7 DEF Nothing
<1>9. stock' = [stock EXCEPT ![i] = new]
  BY <1>1, <1>6, <1>8
<1>10. \A j \in Stocks : moves'[j] = IF j = i THEN moves[i] \o <<e>> ELSE moves[j]
  <2>1. \A j \in Stocks : x.entries[j] = IF j = i THEN <<e>> ELSE <<>>
    BY <1>4 DEF NoEntries
  <2>2. QED
    BY <1>1, <1>5, <2>1
<1>11. moves[i] \o <<e>> = Append(moves[i], e)
  BY <1>6
<1>12. moves' = [moves EXCEPT ![i] = Append(@, e)]
  BY <1>1, <1>6, <1>10, <1>11
<1>13. \A p \in Purchases : p # x.purchase
  BY PurchasingAssumption DEF x
<1>14. Arrived' = Arrived
  BY <1>1, <1>13, ArrivedKept
<1>15. stock[i] # Absent
  BY <1>2, FilledPresent
<1>16. QED
  BY <1>2, <1>9, <1>12, <1>14, <1>15 DEF Room!Adjust, Correction, Arrived, new, e

\* The commit of a receipt is the receipt, of all its items, each on its row as it
\* is now.
LEMMA SerialReceipt ==
    ASSUME TypeInv, OnShelves, WritesAreMoves, Receipts, AsAsked,
           NEW t \in Txs, NEW p \in Purchases, NEW list \in Orderable,
           Commit(t), tx[t].purchase = p, tx[t].items = list
    PROVE  Room!Receive(p, list)
<1> DEFINE x == tx[t]
<1>1. /\ t \in AtWork /\ x.pc # "receiving"
      /\ stock' \in [Stocks -> StockRows] /\ moves' \in [Stocks -> Seq(Movement)]
      /\ \A i \in Stocks : stock'[i] = IF x.wrote[i] # Absent THEN x.wrote[i] ELSE stock[i]
      /\ \A i \in Stocks : moves'[i] = moves[i] \o x.entries[i]
      /\ \A q \in Purchases : purchases'[q] = IF q = p
                                 THEN [status |-> "received", items |-> list, total |-> Total(list)]
                                 ELSE purchases[q]
  BY Commits
<1>2. p # "none" /\ x.purchase = p /\ x.items = list
  BY PurchasingAssumption
<1>3. PICK k \in Nat : Received(x, k)
  BY <1>1, <1>2 DEF Receipts, Receiving
<1>4. purchases[p].status = "open" /\ Asked(t) /\ Present(list)
  BY <1>1, <1>2 DEF Receipts, Receiving, AsAsked, OnShelves
<1>5. k = Len(list) /\ DOMAIN list = 1..Len(list)
  BY <1>1, <1>2, <1>3, ListItems DEF Received
<1>6. ASSUME NEW i \in Stocks, NEW n \in DOMAIN list, list[n].stock = i
      PROVE  /\ stock'[i] = Averaged(stock[i], list[n].qty, list[n].total)
             /\ moves'[i] = Append(moves[i], Arrival(p, list[n]))
  <2>1. x.entries[i] # <<>>
    BY <1>3, <1>5, <1>6 DEF Received
  <2>2. x.wrote[i] # Absent
    BY <1>1, <2>1 DEF WritesAreMoves, Written
  <2>3. x.wrote[i] = Averaged(stock[i], list[n].qty, list[n].total) /\ x.entries[i] = <<Arrival(p, list[n])>>
    BY <1>2, <1>4, <1>6, <2>2 DEF Asked
  <2>4. moves[i] \in Seq(Movement)
    BY DEF TypeInv
  <2>5. moves[i] \o <<Arrival(p, list[n])>> = Append(moves[i], Arrival(p, list[n]))
    BY <2>4
  <2>6. QED
    BY <1>1, <2>2, <2>3, <2>5
<1>7. ASSUME NEW i \in Stocks, \A n \in DOMAIN list : list[n].stock # i
      PROVE  stock'[i] = stock[i] /\ moves'[i] = moves[i]
  <2>1. x.entries[i] = <<>>
    BY <1>3, <1>5, <1>7 DEF Received
  <2>2. x.wrote[i] = Absent
    <3>1. SUFFICES ASSUME x.wrote[i] # Absent PROVE FALSE
      OBVIOUS
    <3>2. PICK e \in Movement : x.entries[i] = <<e>>
      BY <1>1, <3>1 DEF WritesAreMoves, Written
    <3>3. <<e>> # <<>>
      OBVIOUS
    <3>4. QED
      BY <2>1, <3>2, <3>3
  <2>3. moves[i] \o <<>> = moves[i]
    BY DEF TypeInv
  <2>4. QED
    BY <1>1, <2>1, <2>2, <2>3
<1>8. Arrived' = Arrived \cup {p} /\ p \notin Arrived
  BY <1>1, <1>2, <1>4 DEF Arrived
<1>9. ASSUME NEW i \in Stocks, Room!Asks(list, i)
      PROVE  \E n \in DOMAIN list : list[n].stock = i /\ Room!ItemOf(list, i) = list[n]
  BY <1>9 DEF Room!Asks, Room!ItemOf
<1> DEFINE rows == [i \in Stocks |->
              IF Room!Asks(list, i)
              THEN Averaged(stock[i], Room!ItemOf(list, i).qty, Room!ItemOf(list, i).total) ELSE stock[i]]
           ledger == [i \in Stocks |->
              IF Room!Asks(list, i) THEN Append(moves[i], Arrival(p, Room!ItemOf(list, i))) ELSE moves[i]]
<1>10. ASSUME NEW i \in Stocks PROVE stock'[i] = rows[i] /\ moves'[i] = ledger[i]
  <2>1. CASE Room!Asks(list, i)
    BY <1>6, <1>9, <2>1
  <2>2. CASE ~Room!Asks(list, i)
    BY <1>7, <2>2 DEF Room!Asks
  <2>3. QED
    BY <2>1, <2>2
<1>11. stock' = rows /\ moves' = ledger
  BY <1>1, <1>10
<1>12. QED
  BY <1>4, <1>8, <1>11 DEF Room!Receive, Arrived, Arrival, Present

\* Every step is a request of the promise, done at once, or changes nothing in it.
LEMMA SerialStep ==
    ASSUME TypeInv, OnShelves, WritesAreMoves, Receipts, AsAsked, [Next]_vars
    PROVE  [Room!Next]_Room!vars
<1>1. ASSUME UNCHANGED <<stock, moves, purchases>> PROVE UNCHANGED Room!vars
  BY <1>1 DEF Room!vars
<1>2. ASSUME NEW t \in Txs, NEW new \in Running, Begins(t, new) \/ GoesOn(t, new)
      PROVE  UNCHANGED <<stock, moves, purchases>>
  BY <1>2 DEF Begins, GoesOn, Tables
<1>3. ASSUME NEW t \in Txs, NEW p \in Purchases, StartReceiving(t, p)
      PROVE  UNCHANGED <<stock, moves, purchases>>
  BY <1>3 DEF StartReceiving
<1>4. ASSUME NEW t \in Txs, ReceiveItem(t) \/ Abort(t) PROVE UNCHANGED <<stock, moves, purchases>>
  BY <1>4 DEF ReceiveItem, Abort
<1>5. ASSUME NEW t \in Txs, Commit(t) PROVE [Room!Next]_Room!vars
  <2>1. t \in AtWork /\ Asked(t)
    BY <1>5, Commits DEF AsAsked
  <2>2. CASE tx[t].purchase # "none"
    <3>1. PICK p \in Purchases, list \in Orderable : tx[t].purchase = p /\ tx[t].items = list
      BY <2>1, <2>2, AtWorkRuns, RunningIs DEF TypeInv, Asked
    <3>2. Room!Receive(p, list)
      BY <1>5, <3>1, SerialReceipt
    <3>3. QED
      BY <3>2 DEF Room!Next
  <2>3. ASSUME tx[t].purchase = "none", NEW i \in Stocks, NEW d \in Deliveries, Corrects(tx[t], i, d)
        PROVE  Room!Next
    BY <1>5, <2>3, SerialAdjustment DEF Room!Next
  <2>4. CASE tx[t].purchase = "none" /\ tx[t].wrote = Nothing /\ tx[t].entries = NoEntries
    <3>1. /\ stock' \in [Stocks -> StockRows] /\ moves' \in [Stocks -> Seq(Movement)]
          /\ \A i \in Stocks : stock'[i] = IF tx[t].wrote[i] # Absent THEN tx[t].wrote[i] ELSE stock[i]
          /\ \A i \in Stocks : moves'[i] = moves[i] \o tx[t].entries[i]
          /\ \A p \in Purchases : p # tx[t].purchase => purchases'[p] = purchases[p]
      BY <1>5, Commits
    <3>2. stock \in [Stocks -> StockRows] /\ moves \in [Stocks -> Seq(Movement)]
      BY DEF TypeInv, TypeOK
    <3>3. \A i \in Stocks : moves[i] \o <<>> = moves[i]
      BY <3>2
    <3>4. \A i \in Stocks : stock'[i] = stock[i] /\ moves'[i] = moves[i]
      BY <2>4, <3>1, <3>3 DEF Nothing, NoEntries
    <3>5. stock' = stock /\ moves' = moves
      BY <3>1, <3>2, <3>4
    <3>6. Arrived' = Arrived
      BY <2>4, <3>1, PurchasingAssumption, ArrivedKept
    <3>7. QED
      BY <3>5, <3>6 DEF Room!vars, Arrived
  <2>5. QED
    BY <2>1, <2>2, <2>3, <2>4 DEF Asked
<1>6. CASE UNCHANGED vars
  BY <1>1, <1>6 DEF vars
<1>7. QED
  BY <1>1, <1>2, <1>3, <1>4, <1>5, <1>6, StepCases, SerialTables

-------------------------------------------------------------------------------
(* The theorems.                                                           *)

Invariant ==
    /\ TypeInv /\ LocksApart /\ OnShelves /\ WritesAreMoves /\ Receipts /\ AsAsked
    /\ PurchasesLedgered /\ Quantities /\ Costs

\* The initial state has every part of the invariant.
LEMMA InvariantBegins == Init => Invariant
<1> SUFFICES ASSUME Init PROVE Invariant
  OBVIOUS
<1>1. AtWork = {}
  BY DEF Init, AtWork, Idle
<1>2. TypeInv /\ Quantities /\ Costs
  BY TypesBegin, QuantitiesBegin, CostsBegin
<1>3. LocksApart /\ WritesAreMoves /\ Receipts /\ AsAsked
  BY <1>1 DEF LocksApart, WritesAreMoves, Receipts, AsAsked
<1>4. OnShelves
  BY <1>1 DEF OnShelves, Present, Init, NoPurchase, Opened
<1>5. PurchasesLedgered
  <2>1. ASSUME NEW p \in Purchases, NEW i \in Stocks PROVE Ledgered(purchases[p], p, moves[i], i)
    <3>1. \A n \in DOMAIN Opened(stock[i]) : Opened(stock[i])[n].ref = "none"
      BY DEF Opened
    <3>2. ArrivedIn(moves[i], p) = {}
      BY <3>1, PurchasingAssumption DEF Init, ArrivedIn
    <3>3. QED
      BY <3>2 DEF Init, NoPurchase, Ledgered
  <2>2. QED
    BY <2>1 DEF PurchasesLedgered, Init
<1>6. QED
  BY <1>2, <1>3, <1>4, <1>5 DEF Invariant

\* The invariant holds of every behaviour of the requests.
THEOREM PurchasingInvariant == Spec => []Invariant
<1>1. Init => Invariant
  BY InvariantBegins
<1>2. Invariant /\ [Next]_vars => Invariant'
  BY TypesStep, LocksStep, ShelvesStep, WritesStep, ReceiptsStep, AskedStep, LedgeredStep,
     QuantitiesStep, CostsStep
     DEF Invariant
<1>3. QED
  BY <1>1, <1>2, PTL DEF Spec

\* Rows, purchases, recipe and product stay in their types, however many
\* requests overlap: quantities and costs do not become negative.
THEOREM PurchasingTypes == Spec => []TypeOK
<1>1. Invariant => TypeOK
  BY DEF Invariant, TypeInv
<1>2. QED
  BY <1>1, PurchasingInvariant, PTL

\* update_purchase receives a purchase once: its items are in the ledger one
\* movement each if it was received, and none if not, however its edits, its
\* receipts and its cancellation race; and the supplier it was made with stays.
THEOREM PurchasesReceivedOnce == Spec => []ReceivedOnce
<1>1. Invariant => ReceivedOnce
  BY LedgeredOnce DEF Invariant
<1>2. QED
  BY <1>1, PurchasingInvariant, PTL

\* A row's quantity is what the ledger says it is, in every reachable state and
\* for every number of requests, rows and purchases.
THEOREM QuantitiesFollowMoves == Spec => []QuantityReplays
<1>1. Invariant => QuantityReplays
  BY DEF Invariant, OnShelves, Quantities, QuantityReplays
<1>2. QED
  BY <1>1, PurchasingInvariant, PTL

\* The average cost of a row never differs by more than a unit of the last place
\* from the one the ledger comes to, for any purchases, adjustments and orders and
\* however many: an earlier difference weighs in the next average with the old
\* quantity, the rounding of a unit cost with half the new one, and together they
\* stay below one. The tolerance of _validate_stock_ledger is enough for every
\* ledger that these requests write.
THEOREM CostsFollowMoves == Spec => []CostReplays
<1>1. Invariant => CostReplays
  <2> SUFFICES ASSUME Invariant, NEW i \in Stocks, moves[i] # <<>>
               PROVE  /\ Replay(moves[i]).qty = stock[i].qty
                      /\ Replay(moves[i]).cost - stock[i].cost \in {-1, 0, 1}
    BY DEF CostReplays
  <2>1. QED
    BY DEF Invariant, OnShelves, Quantities, Costs, Close
<1>2. QED
  BY <1>1, PurchasingInvariant, PTL

\* Overlapping receipts, adjustments and orders do to the stock master and to its
\* ledger what they would do one at a time: each takes effect at its commit, whole,
\* on the rows as they are then, and a purchase is received at most once. What
\* update_average_cost and adjust_stock read some steps before is still so, for the
\* row lock they read it under is kept to the end.
THEOREM OneRequestAtATime == Spec => OneAtATime
<1>1. Init => Room!Init
  BY DEF Init, Room!Init, NoPurchase
<1>2. Invariant /\ [Next]_vars => [Room!Next]_Room!vars
  BY SerialStep DEF Invariant
<1>3. QED
  BY <1>1, <1>2, PurchasingInvariant, PTL DEF Spec, OneAtATime, Room!Spec

=============
