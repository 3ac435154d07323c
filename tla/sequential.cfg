\* One call at a time, two keys for one booking.
CONSTANTS
  p1 = p1
  p2 = p2
  b1 = b1
  c1 = c1
  c2 = c2
  x1 = x1
  x2 = x2
  None = None
  Bookings = {b1}
  Payments = {p1, p2}
  Requests <- UnequalRequests
  HttpCalls = {c1}
  CronCalls = {x1}
  MaxInFlight = 1
  Operations = {"initiate", "webhook", "rejected_webhook", "verify_return", "cron", "force", "resolve", "void", "refund"}
  RefundAmounts = {1, 2}
  RefundTries = 1
  TTL = 1
  MaxNow = 0
  MaxAttempts = 0
  MaxRestarts = 0
  MaxBatch = 1
  DueAfter = 0
  ReviewAfter = 1
  BackoffBase = 1
  BackoffMax = 1
SPECIFICATION Spec
VIEW WithoutHistory
PROPERTIES
  ImplementsLifecycle
