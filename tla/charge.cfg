SPECIFICATION Spec
CONSTANTS
  Total = 2
  MaxPayments = 2
  Keys = {}
  Workers = {w1}
  MaxClock = 3
  ExpiresAt = 2
  w1 = w1
VIEW ChargeView
INVARIANTS
  WithinTotal
  InvoiceAgrees
  DeadOrderTakesNoMoney
  SuccessIsSettled
  ProductionIsFunded
  OnlyPartlyPaidExpire
  AtMostOnePending
  SettledIsNotFailed
PROPERTIES
  PaymentsForward
  KeepsContract
