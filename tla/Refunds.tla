------------------------------ MODULE Refunds ------------------------------
(***************************************************************************)
(* RefundsService.requestRefund: a transaction that locks the payment's    *)
(* row, compares the amount with what the refunds table leaves, books the  *)
(* refund and moves the status; then the provider is asked to pay it out.  *)
(***************************************************************************)
EXTENDS PaymentStore

CONSTANT RefundTries   \* maxAttempts of retryWithBackoff

ASSUME RefundAssumption == RefundTries \in Nat \ {0}

\* Mutant: SELECT without FOR UPDATE.
LockNothing(p, c) == UNCHANGED rowLock

\* setLock('pessimistic_write').
LockRow(p, c) == rowLock' = [rowLock EXCEPT ![p] = c]

\* bookRefund up to the SUM.  A payment that cannot be refunded changes
\* nothing (the transaction is rolled back) and is left out.
RefundLock(c) ==
  /\ Start(c, "refund")
  /\ \E p \in Payments, amount \in RefundAmounts :
       /\ rowLock[p] = None
       /\ payments[p].status \in RefundableStatuses
       /\ LockRow(p, c)
       /\ GoTo(c, [NewCall("refund", p) EXCEPT
                     !.at = "refund_sum", !.snap = payments[p], !.amount = amount])
  /\ UNCHANGED <<payments, refunded, events, charge, returned, decisions, now,
                 restarts>>

Remaining(call) == Amount(call.snap) - refunded[call.pay]

\* SELECT SUM(refund.amount), and the check against the captured amount.
RefundSum(c) ==
  LET call == calls[c] IN
  /\ Suspended(c, "refund_sum")
  /\ \/ /\ call.amount > Remaining(call)
        /\ GoTo(c, Done(call, "conflict"))
        /\ rowLock' = [rowLock EXCEPT ![call.pay] = None]
     \/ /\ call.amount <= Remaining(call)
        /\ GoTo(c, [call EXCEPT !.at = "refund_commit", !.sum = refunded[call.pay]])
        /\ UNCHANGED rowLock
  /\ UNCHANGED <<payments, refunded, events, charge, returned, decisions, now,
                 restarts>>

\* Mutant: the status looks at this refund alone.
StatusOfThisRefund(call) ==
  IF call.amount >= Amount(call.snap) THEN "REFUNDED" ELSE "PARTIALLY_REFUNDED"

RefundedStatus(call) ==
  IF call.sum + call.amount >= Amount(call.snap)
  THEN "REFUNDED" ELSE "PARTIALLY_REFUNDED"

\* INSERT of the refund, save() of the payment, COMMIT.  The lock makes the
\* row the one that was read, so the save() writes the status alone.
RefundCommit(c) ==
  LET call == calls[c] IN
  /\ Suspended(c, "refund_commit")
  /\ refunded' = [refunded EXCEPT ![call.pay] = @ + call.amount]
  /\ payments' = [payments EXCEPT ![call.pay].status = RefundedStatus(call)]
  /\ rowLock' = [rowLock EXCEPT ![call.pay] = None]
  /\ GoTo(c, [call EXCEPT !.at = "refund_provider", !.sum = 0])
  /\ UNCHANGED <<events, charge, returned, decisions, now, restarts>>

\* Mutant: retried for ever.
NeverLast(call) == FALSE

LastTry(call) == call.sum + 1 = RefundTries

\* One attempt of retryWithBackoff at the provider's refund call (sum counts
\* the failed ones): it pays out, pays out and loses the answer, or fails.
\* After the last attempt the error is logged and the call succeeds.
RefundProvider(c) ==
  LET call == calls[c]
      paidOut == [returned EXCEPT ![call.pay] = @ + call.amount]
  IN
  /\ Suspended(c, "refund_provider")
  /\ \/ /\ returned' = paidOut
        /\ GoTo(c, Done(call, "ok"))
     \/ /\ returned' \in {returned, paidOut}
        /\ GoTo(c, IF LastTry(call) THEN Done(call, "ok")
                   ELSE [call EXCEPT !.sum = @ + 1])
  /\ UNCHANGED <<payments, refunded, events, rowLock, charge, decisions, now,
                 restarts>>

Refund(c) ==
  \/ RefundLock(c) \/ RefundSum(c) \/ RefundCommit(c) \/ RefundProvider(c)
=============================================================================
