\* A second endpoint is asked after the first one lost its answer.
CONSTANTS
  p1 = p1
  p2 = p2
  None = None
  Payments = {p1}
  Endpoints = 2
  Amount = 1
  RefundAmounts = {1}
  Releasable = {p1}
  MaxStalls = 0
SPECIFICATION Spec
CHECK_DEADLOCK FALSE
INVARIANTS
  FailedHoldsNoMoney
