---------------------------- MODULE PaymentStore ----------------------------
(***************************************************************************)
(* What the payment services share: the payments, payment_refunds and      *)
(* payment_confirmation_events tables, the payment provider, the clock,    *)
(* and the calls in flight.                                                *)
(*                                                                         *)
(* Node runs a call without interruption from one await to the next, so    *)
(* a call is a record whose field "at" names the await it is suspended on, *)
(* and every action of the project is the code between two awaits.  What a *)
(* call holds in "snap" is the entity object it has read from the database *)
(* and may since have changed in memory.                                   *)
(***************************************************************************)
EXTENDS Integers, FiniteSets, PaymentStateMachine

CONSTANTS
  Payments,      \* payment identities; see Key below
  Bookings,
  Requests,      \* bodies of POST /payments/initiate that clients may send
  HttpCalls,     \* HTTP requests that can be in flight at once
  CronCalls,     \* scheduled reconciliation passes that can overlap
  None,          \* no payment, booking or call
  Operations,    \* the operations the environment issues in this instance
  RefundAmounts, \* amounts an administrator asks to refund
  TTL,           \* PAYMENT_INITIATED_TTL_MINUTES, in clock ticks
  MaxNow,        \* bound: from here the clock only runs for open payments
  MaxAttempts,   \* bound: reconciliationAttempts saturates here
  MaxInFlight,   \* bound: how many calls overlap (1: one at a time)
  MaxRestarts    \* bound: how often the server process may die

(***************************************************************************)
(* A request is [key, booking, amount].  The unique index on (user,        *)
(* idempotency key) and the absence of deletes make the key an identity of *)
(* the row, so the model names a payment by its key; user, currency and    *)
(* rail go with the amount in what assertSamePayload compares.             *)
(***************************************************************************)
ASSUME StoreAssumption ==
  /\ Requests \subseteq [key: Payments, booking: Bookings, amount: Nat \ {0}]
  /\ None \notin Payments \cup Bookings \cup HttpCalls \cup CronCalls
  /\ HttpCalls \cap CronCalls = {}
  /\ RefundAmounts \subseteq Nat \ {0}
  /\ TTL \in Nat /\ MaxNow \in Nat /\ MaxAttempts \in Nat
  /\ MaxInFlight \in Nat /\ MaxRestarts \in Nat

VARIABLES
  payments,   \* the payments table
  refunded,   \* SUM(payment_refunds.amount) of each payment
  events,     \* payment_confirmation_events, without duplicates
  rowLock,    \* who holds the SELECT ... FOR UPDATE lock of a payment's row
  calls,      \* the calls in flight
  charge,     \* the provider's verdict on each payment, once it has an order
  returned,   \* money the provider has paid back
  decisions,  \* <<payment, status>> that an administrator resolved by hand
  now,        \* the clock
  restarts    \* how often the server process has died

vars == <<payments, refunded, events, rowLock, calls, charge, returned,
          decisions, now, restarts>>

Calls == HttpCalls \cup CronCalls
Verdicts == {"confirmed", "failed"}
Outcomes == Verdicts \cup {"pending"}
Charges == Outcomes \cup {"none"}
Reasons == {"none", "DECLINED", "EXPIRED", "ABANDONED"}
NeverReconciled == -1

NoRequest == [key |-> None, booking |-> None, amount |-> 0]

\* The payment row a request creates (buildInitiatedPayment); expiresAt is
\* createdAt + TTL.  provider_error_streak and manual_review_reason are only
\* ever written, and left out.
NewRow(req, time) ==
  [status |-> "INITIATED", req |-> req, ref |-> FALSE, reason |-> "none",
   attempts |-> 0, last |-> NeverReconciled, createdAt |-> time]

NoRow == [NewRow(NoRequest, 0) EXCEPT !.status = "ABSENT"]

Row == [status: Statuses \cup {"ABSENT"}, req: Requests \cup {NoRequest},
        ref: BOOLEAN, reason: Reasons, attempts: 0..MaxAttempts,
        last: Nat \cup {NeverReconciled}, createdAt: Nat]

Exists(p) == payments[p].status # "ABSENT"
ExpiresAt(row) == row.createdAt + TTL
Amount(row) == row.req.amount

Columns == {"status", "ref", "reason", "attempts", "last"}

Labels ==
  {"idle", "done", "check_booking", "insert", "read_winner", "rail_initiate",
   "save", "flush", "verify", "apply", "log", "log_applied", "after_apply",
   "record", "escalate", "sweep", "poll", "refund_sum", "refund_commit",
   "refund_provider"}

AllOperations ==
  {"initiate", "webhook", "rejected_webhook", "verify_return", "cron", "force",
   "resolve", "void", "refund"}

Args == Outcomes \cup {"none", "error", "conflict", "ok"}

\* A call: what it does, where it is suspended, the payment and the entity it
\* works on, the entity its handler was first given, the columns its save()
\* found changed, the rest of the batch it loops over, the time its pass
\* began, and a refund's amount and the SUM it read.
Call ==
  [at: Labels, op: AllOperations \cup {"none"}, pay: Payments \cup {None},
   snap: Row, given: Row, arg: Args, dirty: SUBSET Columns,
   batch: SUBSET (Payments \X Row), time: Nat, amount: Nat, sum: Nat]

IdleCall ==
  [at |-> "idle", op |-> "none", pay |-> None, snap |-> NoRow,
   given |-> NoRow, arg |-> "none", dirty |-> {}, batch |-> {}, time |-> 0,
   amount |-> 0, sum |-> 0]

NewCall(op, p) == [IdleCall EXCEPT !.op = op, !.pay = p]

\* The entry logEvent writes: which payment (None when not found), from where,
\* whether it moved the status, and the anomaly.
Sources == {"WEBHOOK", "VERIFY_RETURN", "RECONCILIATION"}
Event == [pay: Payments \cup {None}, source: Sources,
          status: Statuses \cup {"ABSENT"}, applied: BOOLEAN,
          anomaly: {"none", "payment_not_found", "conflicting_event",
                    "invalid_signature", "malformed_payload"}]

TypeOK ==
  /\ payments \in [Payments -> Row]
  /\ refunded \in [Payments -> Nat]
  /\ events \subseteq Event
  /\ rowLock \in [Payments -> Calls \cup {None}]
  /\ calls \in [Calls -> Call]
  /\ charge \in [Payments -> Charges]
  /\ returned \in [Payments -> Nat]
  /\ decisions \subseteq Payments \X Statuses
  /\ now \in Nat
  /\ restarts \in 0..MaxRestarts

Init ==
  /\ payments = [p \in Payments |-> NoRow]
  /\ refunded = [p \in Payments |-> 0]
  /\ events = {}
  /\ rowLock = [p \in Payments |-> None]
  /\ calls = [c \in Calls |-> IdleCall]
  /\ charge = [p \in Payments |-> "none"]
  /\ returned = [p \in Payments |-> 0]
  /\ decisions = {}
  /\ now = 0
  /\ restarts = 0

(***************************************************************************)
(* Suspending and ending calls.                                            *)
(***************************************************************************)

Suspended(c, label) == calls[c].at = label

GoTo(c, call) == calls' = [calls EXCEPT ![c] = call]

At(call, label) == [call EXCEPT !.at = label]

\* The handler returns or throws.  What the call worked with is forgotten,
\* but for the request and the payment that initiate() answers with.
Done(call, result) ==
  LET answer == [NewCall(call.op, call.pay) EXCEPT !.at = "done", !.arg = result]
  IN IF call.op = "initiate" /\ result = "ok"
     THEN [answer EXCEPT !.given = call.given, !.snap = call.snap] ELSE answer

\* Back to the loop over the batch.
NextItem(call, label) ==
  [call EXCEPT !.at = label, !.pay = None, !.snap = NoRow, !.given = NoRow,
               !.arg = "none", !.dirty = {}]

\* An exception: an HTTP caller gets it, a scheduled pass dies of it and with
\* it the rest of its batch.
Thrown(call) == IF call.op = "cron" THEN IdleCall ELSE Done(call, "error")

(***************************************************************************)
(* TypeORM's repository.save(entity) on an existing row: a SELECT to find  *)
(* the columns in which the entity differs from the row, then an UPDATE of *)
(* those columns, whatever the row holds by then.                          *)
(***************************************************************************)

Changed(row, entity) == {col \in Columns : row[col] # entity[col]}

Written(row, entity, cols) ==
  [row EXCEPT
     !.status   = IF "status" \in cols THEN entity.status ELSE row.status,
     !.ref      = IF "ref" \in cols THEN entity.ref ELSE row.ref,
     !.reason   = IF "reason" \in cols THEN entity.reason ELSE row.reason,
     !.attempts = IF "attempts" \in cols THEN entity.attempts ELSE row.attempts,
     !.last     = IF "last" \in cols THEN entity.last ELSE row.last]

\* Mutant: apply() returns without writing its audit event.
AfterSilentSave(call) ==
  IF call.op = "cron"
  THEN NextItem(call, IF call.snap.status = "EXPIRED" THEN "sweep" ELSE "poll")
  ELSE Done(call, "ok")

\* Where a call goes on after its save(): apply() has its event to write, the
\* sweep and the escalation are through with the payment.
AfterSave(call) ==
  IF call.op \in {"initiate", "resolve", "void"} THEN Done(call, "ok")
  ELSE IF call.snap.status \in {"CONFIRMED", "FAILED"}
       THEN [call EXCEPT !.at = "log_applied", !.dirty = {}]
  ELSE IF call.op = "force" THEN Done(call, "ok")
  ELSE NextItem(call, IF call.snap.status = "EXPIRED" THEN "sweep" ELSE "poll")

\* An UPDATE waits for the row lock.
MayWrite(p, c) == rowLock[p] \in {None, c}

\* Mutant: the unique index covers INITIATED payments only.
IndexOnInitiated(p, row) ==
  /\ row.status = "INITIATED"
  /\ \E q \in Payments \ {p} :
       /\ payments[q].status = "INITIATED"
       /\ payments[q].req.booking = row.req.booking

\* uq_payments_booking_id_non_terminal refuses this row.
BookingTaken(p, row) ==
  /\ row.status \in OpenStatuses
  /\ \E q \in Payments \ {p} :
       /\ payments[q].status \in OpenStatuses
       /\ payments[q].req.booking = row.req.booking

SaveSelect(c) ==
  /\ Suspended(c, "save")
  /\ LET call == calls[c]
         cols == Changed(payments[call.pay], call.snap)
     IN GoTo(c, IF cols = {} THEN AfterSave(call)
                ELSE [call EXCEPT !.at = "flush", !.dirty = cols])
  /\ UNCHANGED <<payments, refunded, events, rowLock, charge, returned,
                 decisions, now, restarts>>

\* Only initiate() writes an open status, so only it can meet the unique index.
SaveUpdate(c) ==
  LET call == calls[c]
      row == Written(payments[call.pay], call.snap, call.dirty)
  IN
  /\ Suspended(c, "flush")
  /\ MayWrite(call.pay, c)
  /\ \/ /\ ~BookingTaken(call.pay, row)
        /\ payments' = [payments EXCEPT ![call.pay] = row]
        /\ GoTo(c, AfterSave(call))
     \/ /\ BookingTaken(call.pay, row)
        /\ GoTo(c, Done(call, "conflict"))
        /\ UNCHANGED payments
  /\ UNCHANGED <<refunded, events, rowLock, charge, returned, decisions, now,
                 restarts>>

\* The HTTP response is sent.
Reply(c) ==
  /\ Suspended(c, "done")
  /\ GoTo(c, IdleCall)
  /\ UNCHANGED <<payments, refunded, events, rowLock, charge, returned,
                 decisions, now, restarts>>

\* A request arrives, or the scheduler fires.
Start(c, op) ==
  /\ Suspended(c, "idle")
  /\ op \in Operations
  /\ Cardinality({d \in Calls : ~Suspended(d, "idle")}) < MaxInFlight
=============================================================================
