------------------------ MODULE PaymentConfirmation ------------------------
(***************************************************************************)
(* PaymentConfirmationService: webhooks, verify-on-return and the apply()  *)
(* they share with reconciliation.  apply() reads the payment, decides,    *)
(* saves and writes the audit event in four separate database operations.  *)
(***************************************************************************)
EXTENDS PaymentStore

\* Mutant: the name of the handler is stored as the source.
RawSource(call) == call.op

Source(call) ==
  CASE call.op = "webhook" -> "WEBHOOK"
    [] call.op = "verify_return" -> "VERIFY_RETURN"
    [] OTHER -> "RECONCILIATION"

\* What the provider may answer when asked, or announce: a settled charge's
\* verdict never changes, but it may not be visible yet.
Answers(p) == {"pending"} \cup ({charge[p]} \cap Verdicts)

(***************************************************************************)
(* The provider delivers a correctly signed webhook: late, repeatedly or   *)
(* out of order, as long as it has an order to speak of.                   *)
(***************************************************************************)
WebhookReceive(c) ==
  /\ Start(c, "webhook")
  /\ \E p \in Payments :
       /\ charge[p] # "none"
       /\ \E outcome \in Answers(p) :
            GoTo(c, [NewCall("webhook", p) EXCEPT !.at = "apply", !.arg = outcome])
  /\ UNCHANGED <<payments, refunded, events, rowLock, charge, returned,
                 decisions, now, restarts>>

\* logRejectedWebhook: a bad signature or a malformed body, then 401 or 400.
RejectWebhook(c) ==
  /\ Start(c, "rejected_webhook")
  /\ \E anomaly \in {"invalid_signature", "malformed_payload"} :
       events' = events \cup {[pay |-> None, source |-> "WEBHOOK",
                               status |-> "ABSENT", applied |-> FALSE,
                               anomaly |-> anomaly]}
  /\ UNCHANGED <<payments, refunded, rowLock, calls, charge, returned,
                 decisions, now, restarts>>

\* POST /payments/:id/verify-return: findOne, then verifyOnReturn's checks.
VerifyReturnStart(c) ==
  /\ Start(c, "verify_return")
  /\ \E p \in Payments :
       LET call == [NewCall("verify_return", p) EXCEPT !.given = payments[p]]
       IN /\ Exists(p)
          /\ GoTo(c, IF \/ payments[p].status \in TerminalStatuses
                        \/ ~payments[p].ref
                     THEN Done(call, "ok") ELSE At(call, "verify"))
  /\ UNCHANGED <<payments, refunded, events, rowLock, charge, returned,
                 decisions, now, restarts>>

\* Mutant: a pending answer is not told from a verdict.
AnyAnswer(answer) == answer # "error"

IsVerdict(answer) == answer \in Verdicts

\* verifyByReference under withTimeout: an error, a timeout, or an answer.
\* reconcileOne finds no reference to ask about: it counts as an error.
VerifyAnswer(c) ==
  LET call == calls[c]
      answers == IF call.given.ref THEN Answers(call.pay) ELSE {}
  IN
  /\ Suspended(c, "verify")
  /\ \E answer \in answers \cup {"error"} :
       GoTo(c, IF IsVerdict(answer)
               THEN [call EXCEPT !.at = "apply", !.arg = answer]
               ELSE IF call.op = "verify_return" THEN Done(call, answer)
               ELSE [call EXCEPT !.at = "record", !.arg = answer])
  /\ UNCHANGED <<payments, refunded, events, rowLock, charge, returned,
                 decisions, now, restarts>>

\* Mutant: whatever is not pending counts as confirmed.
AlwaysConfirmed(outcome) == "CONFIRMED"

Implied(outcome) == IF outcome = "confirmed" THEN "CONFIRMED" ELSE "FAILED"

IsTerminal(row) == row.status \in TerminalStatuses

\* Mutant: a pending outcome falls through to the FAILED branch.
OnlyTerminal(row, outcome) == IsTerminal(row)

\* The two early returns of apply().
ChangesNothing(row, outcome) == IsTerminal(row) \/ outcome = "pending"

\* apply() up to its first write.  A reference no row holds is logged with no
\* payment; a terminal payment and a pending outcome are logged as no-ops; a
\* transition that is not allowed throws before anything is logged.
Apply(c) ==
  LET call == calls[c]
      row == payments[call.pay]
      next == Implied(call.arg)
  IN
  /\ Suspended(c, "apply")
  /\ GoTo(c,
       IF ~row.ref THEN [call EXCEPT !.at = "log", !.snap = NoRow]
       ELSE IF ChangesNothing(row, call.arg)
            THEN [call EXCEPT !.at = "log", !.snap = row]
       ELSE IF ~CanTransition(row.status, next) THEN Thrown(call)
       ELSE [call EXCEPT !.at = "save", !.snap = [row EXCEPT !.status = next]])
  /\ UNCHANGED <<payments, refunded, events, rowLock, charge, returned,
                 decisions, now, restarts>>

\* Mutant: a replay is never compared with the status.
OnlyUnknown(call) == IF call.snap = NoRow THEN "payment_not_found" ELSE "none"

\* describeReplay, and payment_not_found.
Anomaly(call) ==
  IF call.snap = NoRow THEN "payment_not_found"
  ELSE IF /\ IsTerminal(call.snap)
          /\ call.arg \in Verdicts
          /\ Implied(call.arg) # call.snap.status
       THEN "conflicting_event" ELSE "none"

\* Where apply() returns to: the HTTP handler, or reconcileOne.
Applied(call) ==
  IF call.op \in {"webhook", "verify_return"} THEN Done(call, call.arg)
  ELSE At(call, "after_apply")

\* logEvent of an event that changed nothing.
LogNoOp(c) ==
  LET call == calls[c] IN
  /\ Suspended(c, "log")
  /\ events' = events \cup
       {[pay |-> IF call.snap = NoRow THEN None ELSE call.pay,
         source |-> Source(call), status |-> call.snap.status,
         applied |-> FALSE, anomaly |-> Anomaly(call)]}
  /\ GoTo(c, Applied(call))
  /\ UNCHANGED <<payments, refunded, rowLock, charge, returned, decisions, now,
                 restarts>>

\* logEvent of the event that moved the status.
LogApplied(c) ==
  LET call == calls[c] IN
  /\ Suspended(c, "log_applied")
  /\ events' = events \cup
       {[pay |-> call.pay, source |-> Source(call),
         status |-> call.snap.status, applied |-> TRUE, anomaly |-> "none"]}
  /\ GoTo(c, Applied(call))
  /\ UNCHANGED <<payments, refunded, rowLock, charge, returned, decisions, now,
                 restarts>>

Confirm(c) ==
  \/ WebhookReceive(c) \/ RejectWebhook(c) \/ VerifyReturnStart(c)
  \/ VerifyAnswer(c) \/ Apply(c) \/ LogNoOp(c) \/ LogApplied(c)
=============================================================================
