\* Two payments of one payer, one endpoint, a worker that may die.
CONSTANTS
  p1 = p1
  p2 = p2
  None = None
  Payments = {p1, p2}
  Endpoints = 1
  Amount = 1
  RefundAmounts = {1}
  Releasable = {p1}
  MaxStalls = 1
SPECIFICATION Spec
CHECK_DEADLOCK FALSE
INVARIANTS
  EscrowTypeOK
  PaidOnlyIfEscrowed
  FailedHoldsNoMoney
  
  RefundedOnlyIfBooked

  
  
