SPECIFICATION SettledSpec
CONSTANTS
  Total = 4
  MaxPayments = 2
  Keys = {k1,k2,k3}
  Workers = {}
  MaxClock = 1
  ExpiresAt = 2
  k1 = k1
  k2 = k2
  k3 = k3
SYMMETRY KeySymmetry
INVARIANTS
  InvoiceAgrees
  RefundsMatchPayments
  GatewayRefundNeedsBank
