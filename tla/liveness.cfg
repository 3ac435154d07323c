\* Every open payment is closed.
CONSTANTS
  p1 = p1
  p2 = p2
  b1 = b1
  c1 = c1
  c2 = c2
  x1 = x1
  x2 = x2
  None = None
  Bookings = {b1}
  Payments = {p1}
  Requests <- OneRequest
  HttpCalls = {c1}
  CronCalls = {x1}
  MaxInFlight = 2
  Operations = {"initiate", "webhook", "cron", "force"}
  RefundAmounts = {1, 2}
  RefundTries = 2
  TTL = 0
  MaxNow = 0
  MaxAttempts = 1
  MaxRestarts = 1
  MaxBatch = 1
  DueAfter = 0
  ReviewAfter = 1
  BackoffBase = 1
  BackoffMax = 2
SPECIFICATION FairSpec
PROPERTIES
  EventuallyClosed
