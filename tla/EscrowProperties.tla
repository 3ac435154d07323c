-------------------------- MODULE EscrowProperties --------------------------
(***************************************************************************)
(* What the Soroban rail must satisfy: the status of a payment and the     *)
(* state of its escrow are kept by two systems that only ever ask each     *)
(* other.                                                                  *)
(***************************************************************************)
EXTENDS EscrowSubmission

PaidStatuses == {"CONFIRMED", "PARTIALLY_REFUNDED", "REFUNDED"}

\* The hard rule of resolveFromFreshState: a payment counts as paid only if
\* its escrow has been funded, whatever became of the transaction.
PaidOnlyIfEscrowed ==
  \A p \in Payments : status[p] \in PaidStatuses => escrow[p] # "NOT_FOUND"

\* escrow-submission.processor.ts:180: an indeterminate error is "NOT a
\* definite verdict that the transaction didn't land".  So if no job had to be
\* run twice, a payment is FAILED only when its escrow holds no money of the
\* payer and none is on the way, however the submission ended.
FailedHoldsNoMoney ==
  \A p \in Payments : status[p] = "FAILED" /\ stalls = 0 =>
    /\ escrow[p] \notin {"LOCKED", "RELEASED"}
    /\ \A tx \in pending : tx.kind = "create" => tx.pay # p

\* Nobody is left with a failed payment and no reason for it, although the
\* status and the reason are two updates, and another call may have been the
\* one that failed the payment.
FailedForAReason ==
  \A p \in Payments :
    /\ status[p] = "FAILED"
    /\ worker.at = "tag" => worker.job.pay # p
    /\ stalls = 0
    => reason[p] # "none"

\* The treasury gives an escrow back only against a booked refund.
RefundedOnlyIfBooked ==
  \A p \in Payments : escrow[p] = "REFUNDED" => refunded[p] > 0

\* Funds that are locked do not go unnoticed, although the job that locked
\* them gave up on its transaction: reconciliation asks the chain.
LockedIsNoticed ==
  \A p \in Payments :
    escrow[p] = "LOCKED" /\ status[p] = "AWAITING_CONFIRMATION"
      ~> status[p] \notin OpenStatuses

\* A payment that was swept before the rail gave it a reference never awaited
\* its payer.
Standing(p) ==
  IF status[p] = "EXPIRED" /\ reason[p] = "ABANDONED" THEN "ABANDONED" ELSE status[p]

Agreement == INSTANCE EscrowAgreement WITH
  standing <- [p \in Payments |-> Standing(p)],
  booked <- refunded,
  repeated <- stalls > 0 \/ Endpoints > 1

\* The services, the queue, the worker, the endpoints and the ledger together
\* keep the agreement: a payment moves only on what its escrow is, and the
\* escrow only on what its payment is, whatever runs in between.
ImplementsAgreement == Agreement!AgreementSpec

\* payment-rail-adapter.interface.ts:52: refund() "Executes a (partial) refund
\* against the provider".  The escrow is given back as a whole, so it should
\* be only when the whole amount is booked.
WholeRefundOnlyIfBooked ==
  \A p \in Payments : escrow[p] = "REFUNDED" => refunded[p] = Amount
=============================================================================
