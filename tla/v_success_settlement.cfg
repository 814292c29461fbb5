SPECIFICATION PaidSpec
CONSTANTS
  Total = 2
  MaxPayments = 2
  Keys = {k1,k2}
  Workers = {}
  MaxClock = 1
  ExpiresAt = 2
  k1 = k1
  k2 = k2
INVARIANTS
  SuccessNeedsSettlement
