\* One transaction at a time, one partner, two payments, one payout.
SPECIFICATION MCSpec
CONSTANTS
  p1 = p1
  p2 = p2
  p3 = p3
  k1 = k1
  k2 = k2
  n1 = n1
  n2 = n2
  None = None
  Workers = {w1}
  Partners = {n1}
  Customers = {k1}
  Payments = {p1, p2}
  Payouts = {q1}
  MaxCommissions = 2
  MaxRows = 3
  PartnerOf <- MCPartnerOf
  CustomerOf <- MCCustomerOf
  Collected <- MCCollected
  Rate = 30
INVARIANT
  FailedPayoutReturnsCommissions
CHECK_DEADLOCK FALSE
