SPECIFICATION ExpirySpec
CONSTANTS
  Total = 2
  MaxPayments = 1
  Keys = {}
  Workers = {w1,w2}
  MaxClock = 2
  ExpiresAt = 2
  w1 = w1
  w2 = w2
INVARIANTS
  AlertOnce
PROPERTIES
  UnpaidOrdersEnd
