SPECIFICATION Spec
CONSTANTS
  Stocks = {1, 2}
  Purchases = {p1, p2}
  Txs = {t1, t2}
  Orderable <- Lists
  Deliveries <- InAndOut
  Openings <- OneOrNone
  RecipeRows = {r1}
  Needs = {1}
  Prices = {9}
  Markup = 1
  Deviation = 3
  MaxRequests = 5
  p1 = p1
  p2 = p2
  t1 = t1
  t2 = t2
  r1 = r1
INVARIANTS
  ReceivedOnce
  CostReplays
PROPERTIES
  OneAtATime
SYMMETRY Symmetry
CHECK_DEADLOCK FALSE
