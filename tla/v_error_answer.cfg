SPECIFICATION Spec
CONSTANTS
  Total = 2
  MaxPayments = 1
  Keys = {}
  Workers = {}
  MaxClock = 1
  ExpiresAt = 2
INVARIANTS
  LiveChargeReserved
