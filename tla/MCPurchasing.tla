----------------------------- MODULE MCPurchasing -----------------------------
(***************************************************************************)
(* Instances of Purchasing for TLC, and statements the code does not keep.   *)
(***************************************************************************)
EXTENDS Purchasing, TLC

Item(i, q, t) == [stock |-> i, qty |-> q, total |-> t, confirmed |-> TRUE]
\* Totals that do not divide by their quantities, rows out of order; a price far
\* off the average, not confirmed.
Lists == {<<Item(2, 2, 3), Item(1, 2, 5)>>, <<[Item(1, 1, 9) EXCEPT !.confirmed = FALSE]>>}
InAndOut == {[qty |-> 1, unit |-> 3], [qty |-> -1, unit |-> 0]}
OneOrNone == {[qty |-> 1, cost |-> 2], [qty |-> 0, cost |-> 0]}

\* product_repo.py, calculate_and_update_product_price: called whenever a recipe
\* or an ingredient's cost changes. Not enough to keep the cost: two requests
\* that change two ingredients at once each count the other's old cost.
CostIsCurrent ==
    (\A t \in Txs : tx[t] = Idle) => product.hpp = CostOf(stock, recipe)

\* recipe_service.py, add_ingredient: an ingredient is in a recipe once. Two
\* requests that add it at once both find it missing.
OneRowPerIngredient ==
    \A r, q \in RecipeRows : recipe[r] # NoRow /\ recipe[r].stock = recipe[q].stock => r = q

Symmetry == Permutations(Txs) \cup Permutations(Purchases)
===============================================================================
