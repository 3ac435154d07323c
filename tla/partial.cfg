\* Half of a payment is refunded.
CONSTANTS
  p1 = p1
  p2 = p2
  None = None
  Payments = {p1}
  Endpoints = 1
  Amount = 2
  RefundAmounts = {1}
  Releasable = {p1}
  MaxStalls = 0
SPECIFICATION Spec
CHECK_DEADLOCK FALSE
INVARIANTS
  WholeRefundOnlyIfBooked
