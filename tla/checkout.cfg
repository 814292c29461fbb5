SPECIFICATION OrderedSpec
CONSTANTS
  Txs = {t1, t2, t3}
  Customers = {c1}
  Buyers = {b1}
  c1 = c1
  b1 = b1
  CustomerOf <- Number
  Keys = {k1}
  NoKey = NoKey
  Portions = {1, 2}
  Ingredients = {1, 2}
  Recipes <- EditedRecipe
  Accessories <- OddRecipe
  Opening = 2
  Adjustments <- Loss
  MaxClock = 4
  Requests <- EveryChannel
  t1 = t1
  t2 = t2
  t3 = t3
  k1 = k1
INVARIANTS
  OneOpenBill
  KeyOnce
  AnswersAgree
  ReturnedWhole
  StockIsLedger
CHECK_DEADLOCK FALSE
PROPERTIES
  EveryRequestEnds
