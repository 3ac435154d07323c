--------------------------- MODULE Reconciliation ---------------------------
(***************************************************************************)
(* ReconciliationService: the scheduled pass (expiry sweep, then a poll of *)
(* every due AWAITING_CONFIRMATION payment) and the administrator's        *)
(* recovery actions.  Nothing keeps two passes from overlapping.           *)
(***************************************************************************)
EXTENDS PaymentConfirmation

CONSTANTS
  MaxBatch,    \* PAYMENT_RECONCILE_MAX_BATCH
  DueAfter,    \* PAYMENT_RECONCILE_DUE_AFTER_MINUTES, in clock ticks
  ReviewAfter, \* PAYMENT_MANUAL_REVIEW_AFTER_HOURS, in clock ticks
  BackoffBase, \* PAYMENT_RECONCILE_BACKOFF_BASE_MINUTES, in clock ticks
  BackoffMax   \* PAYMENT_RECONCILE_BACKOFF_MAX_MINUTES, in clock ticks

\* With the last clause saturating the attempts changes no backoff.
ASSUME ReconciliationAssumption ==
  /\ MaxBatch \in Nat \ {0}
  /\ DueAfter \in Nat /\ ReviewAfter \in Nat
  /\ BackoffBase \in Nat /\ BackoffMax \in Nat
  /\ BackoffBase * 2^MaxAttempts >= BackoffMax

\* computeBackoffMinutes.
Backoff(attempts) ==
  LET doubled == BackoffBase * 2^attempts
  IN IF doubled < BackoffMax THEN doubled ELSE BackoffMax

Age(row, time) == time - row.createdAt

\* isDueForPoll: everything it reads is in the row as found and the pass's time.
IsDueForPoll(row, time) ==
  /\ Age(row, time) >= DueAfter
  /\ row.last # NeverReconciled => time >= row.last + Backoff(row.attempts)

Snapshots(rows) == {<<p, payments[p]>> : p \in rows}

\* Mutant: the sweep looks for INITIATED payments only.
IsAbandoned(row) == row.status = "INITIATED" /\ ExpiresAt(row) < now

\* Mutant: a payment expires with its last minute, not after it.
IsExpiring(row) == row.status \in OpenStatuses /\ ExpiresAt(row) <= now

IsExpired(row) == row.status \in OpenStatuses /\ ExpiresAt(row) < now

\* handleCron, reconcileDueBatch and the SELECT of sweepExpired.
CronStart(c) ==
  /\ c \in CronCalls
  /\ Start(c, "cron")
  /\ GoTo(c, [NewCall("cron", None) EXCEPT
                !.at = "sweep", !.time = now,
                !.batch = Snapshots({p \in Payments : IsExpired(payments[p])})])
  /\ UNCHANGED <<payments, refunded, events, rowLock, charge, returned,
                 decisions, now, restarts>>

Expired(row) ==
  [row EXCEPT !.status = "EXPIRED",
              !.reason = IF row.status = "INITIATED" THEN "ABANDONED" ELSE "EXPIRED"]

\* One iteration of sweepExpired up to its save(): the entity is the one found
\* when the pass began.
SweepOne(c) ==
  LET call == calls[c] IN
  /\ Suspended(c, "sweep")
  /\ \E item \in call.batch :
       GoTo(c, [call EXCEPT !.at = "save", !.pay = item[1],
                            !.snap = Expired(item[2]), !.batch = @ \ {item}])
  /\ UNCHANGED <<payments, refunded, events, rowLock, charge, returned,
                 decisions, now, restarts>>

\* The SELECT of reconcileDueBatch: at most MaxBatch rows, in no given order,
\* of which the loop polls those that are due.
FindAwaiting(c) ==
  LET call == calls[c]
      awaiting == {p \in Payments : payments[p].status = "AWAITING_CONFIRMATION"}
  IN
  /\ Suspended(c, "sweep")
  /\ call.batch = {}
  /\ \E found \in SUBSET awaiting :
       /\ Cardinality(found) <= MaxBatch
       /\ Cardinality(found) < MaxBatch => found = awaiting
       /\ GoTo(c, [call EXCEPT
                     !.at = "poll",
                     !.batch = {item \in Snapshots(found) :
                                  IsDueForPoll(item[2], call.time)}])
  /\ UNCHANGED <<payments, refunded, events, rowLock, charge, returned,
                 decisions, now, restarts>>

\* reconcileOne is called with the next entity of the batch.
PollOne(c) ==
  LET call == calls[c] IN
  /\ Suspended(c, "poll")
  /\ \E item \in call.batch :
       GoTo(c, [call EXCEPT !.at = "verify", !.pay = item[1],
                            !.given = item[2], !.batch = @ \ {item}])
  /\ UNCHANGED <<payments, refunded, events, rowLock, charge, returned,
                 decisions, now, restarts>>

PassEnd(c) ==
  /\ Suspended(c, "poll")
  /\ calls[c].batch = {}
  /\ GoTo(c, IdleCall)
  /\ UNCHANGED <<payments, refunded, events, rowLock, charge, returned,
                 decisions, now, restarts>>

\* The reconciliation of one payment is over.
AfterItem(call) ==
  IF call.op = "force" THEN Done(call, "ok") ELSE NextItem(call, "poll")

NextAttempts(row) ==
  IF row.attempts < MaxAttempts THEN row.attempts + 1 ELSE MaxAttempts

\* Mutant: the reason is written whatever apply() returned.
AlwaysDeclined(call) == TRUE

\* applied?.status === FAILED.
DeclinedBy(call) == call.snap.status = "FAILED"

\* reconcileOne after apply(): UPDATE of the bookkeeping columns, from the
\* attempts of the entity it was given, and of the reason if apply() returned
\* a FAILED payment.
AfterApply(c) ==
  LET call == calls[c]
      row == payments[call.pay]
  IN
  /\ Suspended(c, "after_apply")
  /\ MayWrite(call.pay, c)
  /\ payments' = [payments EXCEPT ![call.pay] =
       [row EXCEPT !.attempts = NextAttempts(call.given), !.last = call.time,
                   !.reason = IF DeclinedBy(call) THEN "DECLINED" ELSE @]]
  /\ GoTo(c, AfterItem(call))
  /\ UNCHANGED <<refunded, events, rowLock, charge, returned, decisions, now,
                 restarts>>

\* Mutant: a provider error counts as an answer.
OldEnough(call) == Age(call.given, call.time) >= ReviewAfter

ShouldEscalate(call) ==
  call.arg # "error" /\ Age(call.given, call.time) >= ReviewAfter

\* recordAttempt: the UPDATE, then the decision to escalate.
RecordAttempt(c) ==
  LET call == calls[c] IN
  /\ Suspended(c, "record")
  /\ MayWrite(call.pay, c)
  /\ payments' = [payments EXCEPT
                    ![call.pay].attempts = NextAttempts(call.given),
                    ![call.pay].last = call.time]
  /\ GoTo(c, IF ShouldEscalate(call) THEN At(call, "escalate")
             ELSE AfterItem(call))
  /\ UNCHANGED <<refunded, events, rowLock, charge, returned, decisions, now,
                 restarts>>

\* recordAttempt's fresh read and the escalation up to its save().
Escalate(c) ==
  LET call == calls[c]
      fresh == payments[call.pay]
  IN
  /\ Suspended(c, "escalate")
  /\ GoTo(c, IF CanTransition(fresh.status, "MANUAL_REVIEW")
             THEN [call EXCEPT !.at = "save",
                               !.snap = [fresh EXCEPT !.status = "MANUAL_REVIEW"]]
             ELSE Thrown(call))
  /\ UNCHANGED <<payments, refunded, events, rowLock, charge, returned,
                 decisions, now, restarts>>

(***************************************************************************)
(* Administrator's actions.  A call that is refused at its first check     *)
(* changes nothing and is left out.                                        *)
(***************************************************************************)

\* forceReconcileNow up to the provider's answer.
ForceReconcile(c) ==
  /\ Start(c, "force")
  /\ \E p \in Payments :
       /\ payments[p].status = "AWAITING_CONFIRMATION"
       /\ GoTo(c, [NewCall("force", p) EXCEPT
                     !.at = "verify", !.given = payments[p], !.time = now])
  /\ UNCHANGED <<payments, refunded, events, rowLock, charge, returned,
                 decisions, now, restarts>>

Resolved(row, resolution) ==
  [row EXCEPT !.status = resolution,
              !.reason = IF resolution = "FAILED" THEN "DECLINED" ELSE @]

\* resolveManually up to its save().
ResolveManually(c) ==
  /\ Start(c, "resolve")
  /\ \E p \in Payments, resolution \in {"CONFIRMED", "FAILED"} :
       /\ CanTransition(payments[p].status, resolution)
       /\ GoTo(c, [NewCall("resolve", p) EXCEPT
                     !.at = "save", !.snap = Resolved(payments[p], resolution)])
       /\ decisions' = decisions \cup {<<p, resolution>>}
  /\ UNCHANGED <<payments, refunded, events, rowLock, charge, returned, now,
                 restarts>>

\* void up to its save().
VoidPayment(c) ==
  /\ Start(c, "void")
  /\ \E p \in Payments :
       /\ CanTransition(payments[p].status, "VOIDED")
       /\ GoTo(c, [NewCall("void", p) EXCEPT
                     !.at = "save", !.snap = [payments[p] EXCEPT !.status = "VOIDED"]])
  /\ UNCHANGED <<payments, refunded, events, rowLock, charge, returned,
                 decisions, now, restarts>>

ReconciliationPass(c) ==
  \/ CronStart(c) \/ SweepOne(c) \/ FindAwaiting(c) \/ PollOne(c) \/ PassEnd(c)

Reconcile(c) ==
  \/ AfterApply(c) \/ RecordAttempt(c) \/ Escalate(c)

Administer(c) ==
  \/ ForceReconcile(c) \/ ResolveManually(c) \/ VoidPayment(c)
=============================================================================
