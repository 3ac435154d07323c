------------------------- MODULE PaymentsProperties -------------------------
(***************************************************************************)
(* What the payments module must satisfy, and what its documentation says  *)
(* of it that it does not.                                                 *)
(***************************************************************************)
EXTENDS PaymentsSystem

PaidStatuses == {"CONFIRMED", "PARTIALLY_REFUNDED", "REFUNDED"}

Open(p) == payments[p].status \in OpenStatuses

\* Some call is between two awaits of work on this payment.
Busy(p) == \E c \in Calls : calls[c].pay = p /\ calls[c].at \notin {"idle", "done"}

(***************************************************************************)
(* Refunds.                                                                *)
(***************************************************************************)

\* However many refund requests overlap, and whatever else writes the payment
\* meanwhile, what is booked never exceeds what was captured
\* (RefundsService.bookRefund: FOR UPDATE, SUM, compare, INSERT).
RefundsWithinCaptured == \A p \in Payments : refunded[p] <= Amount(payments[p])

\* A refund is only ever booked on a payment that is refundable at the moment
\* of the commit, and leaves the status that the new total calls for, although
\* both were decided two awaits earlier.
RefundMatchesLedger ==
  [][\A p \in Payments :
       refunded'[p] # refunded[p] =>
         /\ payments[p].status \in RefundableStatuses
         /\ payments'[p].status = IF refunded'[p] = Amount(payments'[p])
                                  THEN "REFUNDED" ELSE "PARTIALLY_REFUNDED"]_vars

\* The provider is never asked for money that was not booked before, and pays
\* a refund out at most once per attempt of retryWithBackoff.
PaidBackOnlyWhatIsBooked ==
  \A p \in Payments : returned[p] <= RefundTries * refunded[p]

(***************************************************************************)
(* Confirmation.                                                           *)
(***************************************************************************)

\* A payment counts as paid only if the provider confirmed the charge or an
\* administrator did, whichever stale entities are saved on top of each other
\* (the "hard rule" of verifyOnReturn, for every path).
PaidOnlyIfCharged ==
  \A p \in Payments : payments[p].status \in PaidStatuses =>
    charge[p] = "confirmed" \/ <<p, "CONFIRMED">> \in decisions

\* A payment is FAILED, or tagged DECLINED, only on the provider's or an
\* administrator's word: no error, timeout or pending answer ever does it.
FailedOnlyIfDeclined ==
  \A p \in Payments :
    payments[p].status = "FAILED" \/ payments[p].reason = "DECLINED" =>
      charge[p] = "failed" \/ <<p, "FAILED">> \in decisions

\* While webhooks and verify-on-return calls race each other (no scheduled
\* pass, no administrator, no refund), the first verdict stands.
VerdictIsFinal ==
  [][\A p \in Payments :
       payments[p].status \in TerminalStatuses =>
         payments'[p].status = payments[p].status]_vars

\* If the process never died, a payment that the provider's verdict moved has
\* its audit event as soon as no call works on it: the save() and the event
\* are two writes.
MovedPaymentIsAudited ==
  \A p \in Payments :
    /\ payments[p].status \in {"CONFIRMED", "FAILED"}
    /\ \A s \in Statuses : <<p, s>> \notin decisions
    /\ ~Busy(p)
    /\ restarts = 0
    => \E e \in events : e.pay = p /\ e.applied /\ e.status = payments[p].status

\* An audit event that claims to have moved a payment reports the provider's
\* verdict on that payment.
AuditReportsVerdict ==
  \A e \in events : e.applied =>
    charge[e.pay] = IF e.status = "CONFIRMED" THEN "confirmed" ELSE "failed"

\* What the provider's webhook says is never swallowed.  Once the server has
\* acknowledged a verdict, the audit says that it moved the payment, that the
\* payment had that status already, that it contradicts the payment, or that
\* nobody knew the reference, whatever else was settling the payment meanwhile.
\* An event that assertValidTransition refuses is answered with an error.
AnsweredWebhookIsLogged ==
  \A c \in Calls :
    /\ calls[c].at = "done"
    /\ calls[c].op = "webhook"
    /\ calls[c].arg \in Outcomes
    => \E e \in events :
         /\ e.source = "WEBHOOK"
         /\ \/ e.anomaly = "payment_not_found"
            \/ /\ e.pay = calls[c].pay
               /\ \/ calls[c].arg = "pending"
                  \/ e.status = Implied(calls[c].arg)
                  \/ e.anomaly = "conflicting_event"

(***************************************************************************)
(* Initiation.                                                             *)
(***************************************************************************)

\* At most one payment of a booking is in progress, although a slow initiate()
\* may bring an expired one back (the partial unique index decides).
OneOpenPaymentPerBooking ==
  \A p, q \in Payments :
    Open(p) /\ Open(q) /\ payments[p].req.booking = payments[q].req.booking => p = q

\* A payment that awaits confirmation can be found by its provider reference,
\* so that a webhook will match it and a poll can ask about it.
AwaitingHasReference ==
  \A p \in Payments :
    payments[p].status = "AWAITING_CONFIRMATION" => payments[p].ref

\* One payment gets one order at the provider, however many initiate() calls
\* carry its key: only one of them passes the insert, and only once.
OneOrderPerPayment ==
  \A c \in HttpCalls :
    calls[c].at = "rail_initiate" =>
      /\ charge[calls[c].pay] = "none"
      /\ \A d \in HttpCalls \ {c} :
           calls[d].at = "rail_initiate" => calls[d].pay # calls[c].pay

(***************************************************************************)
(* Reconciliation.                                                         *)
(***************************************************************************)

\* Escalation to MANUAL_REVIEW needs a provider that answered "pending" on an
\* old payment; an outage never escalates (recordAttempt).
EscalationNeedsAnswer ==
  [][\A p \in Payments :
       /\ payments[p].status # "MANUAL_REVIEW"
       /\ payments'[p].status = "MANUAL_REVIEW"
       => /\ payments[p].createdAt + ReviewAfter <= now
          /\ \E c \in Calls : /\ calls[c].pay = p
                              /\ calls[c].at = "flush"
                              /\ calls[c].arg = "pending"]_vars

\* A payment that reconciliation counts as resolved is closed and stays so,
\* also when apply() found that another call had settled it, or that a stale
\* save had erased the reference.
ResolvedIsClosed ==
  \A c \in Calls : calls[c].at = "after_apply" => ~Open(calls[c].pay)

\* Every payment leaves INITIATED and AWAITING_CONFIRMATION for good: the
\* sweep outlives stuck clients, a silent provider, polls and crashes.
EventuallyClosed == <>[](\A p \in Payments : ~Open(p))

(***************************************************************************)
(* One call at a time.                                                     *)
(***************************************************************************)

Lifecycle == INSTANCE PaymentLifecycle WITH
  status <- [p \in Payments |-> payments[p].status],
  request <- [p \in Payments |-> payments[p].req]

\* Without overlapping calls, the services implement the promised lifecycle.
ImplementsLifecycle == Lifecycle!LifecycleSpec

(***************************************************************************)
(* Any calls at once.                                                      *)
(***************************************************************************)

\* initiate() has inserted the payment's row and is not through with it.
HandingOver(p) ==
  \E c \in Calls :
    /\ calls[c].op = "initiate"
    /\ calls[c].at \in {"rail_initiate", "save", "flush"}
    /\ calls[c].pay = p

Contract == INSTANCE PaymentContract WITH
  status <- [p \in Payments |-> payments[p].status],
  request <- [p \in Payments |-> payments[p].req],
  since <- [p \in Payments |-> payments[p].createdAt],
  handover <- {p \in Payments : HandingOver(p)}

\* Whatever overlaps, is stale or dies, the services implement the promised
\* contract: a payment is handed over once, and every later status has the
\* grounds that it claims at the moment it is written.
ImplementsContract == Contract!ContractSpec

(***************************************************************************)
(* What the documentation claims of overlapping calls.                     *)
(***************************************************************************)

\* payment-confirmation.service.ts:32: "A terminal Payment status is never
\* overwritten by a later event".  A refund is the one legal way on.
TerminalNeverOverwritten ==
  [][\A p \in Payments :
       /\ payments[p].status \in TerminalStatuses
       /\ payments'[p].status # payments[p].status
       => payments'[p].status \in {"REFUNDED", "PARTIALLY_REFUNDED"}]_vars

\* payments.service.ts:114: a key "was already used with a different payload"
\* is answered with a conflict, never with the other payload's payment.
ReplyMatchesRequest ==
  \A c \in HttpCalls :
    /\ calls[c].at = "done"
    /\ calls[c].op = "initiate"
    /\ calls[c].arg = "ok"
    => calls[c].snap.req = calls[c].given.req
=============================================================================
