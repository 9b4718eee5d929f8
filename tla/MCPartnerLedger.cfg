\* Two concurrent transactions, two partners, three payments, three rows.
SPECIFICATION MCSpec
CONSTANTS
  p1 = p1
  p2 = p2
  p3 = p3
  k1 = k1
  k2 = k2
  n1 = n1
  n2 = n2
  None = None
  Workers = {w1, w2}
  Partners = {n1, n2}
  Customers = {k1, k2}
  Payments = {p1, p2, p3}
  Payouts = {q1, q2}
  MaxCommissions = 2
  MaxRows = 3
  PartnerOf <- MCPartnerOf
  CustomerOf <- MCCustomerOf
  Collected <- MCCollected
  Rate = 30
INVARIANTS
  TypeOK
  
  HoldRespected
  PaidThroughPayout
  PayoutCovered
  SerialReservationsDisjoint
SYMMETRY Symmetric
CHECK_DEADLOCK FALSE
