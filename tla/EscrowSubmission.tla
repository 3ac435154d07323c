-------------------------- MODULE EscrowSubmission --------------------------
(***************************************************************************)
(* The Soroban rail: SorobanRailAdapter, which only enqueues jobs, and     *)
(* EscrowSubmissionProcessor, which works through them one at a time:      *)
(* build, simulate, sign, submit, bounded poll, fresh read, apply().       *)
(*                                                                         *)
(* Around it is as much of the payments module as the rail interacts with: *)
(* initiation, the poll of reconciliation, the expiry sweep and refunds.   *)
(* The races within those are the subject of PaymentsSystem; here each of  *)
(* their database updates is one step.                                     *)
(***************************************************************************)
EXTENDS EscrowChain, Sequences, PaymentStateMachine

CONSTANTS
  Amount,         \* what each payment is for
  RefundAmounts,  \* amounts an administrator asks to refund
  Releasable,     \* bound: payments that somebody calls release() for
  MaxStalls,      \* bound: how often the worker dies
  None            \* no job, no transaction

\* A job's id is made of its kind and its payment, which is all it holds.
Job == [kind: Kinds, pay: Payments]

ASSUME RailAssumption ==
  /\ Amount \in Nat \ {0}
  /\ RefundAmounts \subseteq Nat \ {0}
  /\ Releasable \subseteq Payments
  /\ MaxStalls \in Nat
  /\ None \notin Job \cup Transaction

VARIABLES
  status,    \* Payment.status; ABSENT before the row is inserted
  reason,    \* Payment.failureReason
  refunded,  \* SUM(payment_refunds.amount)
  unsent,    \* refunds that are booked and not yet handed to the rail
  asked,     \* the verdict a reconciliation pass has got from the chain
  queue,     \* the waiting jobs of the soroban-escrow queue
  jobIds,    \* every job id Bull has seen: add() ignores them
  worker,    \* the job being run
  stalls     \* how often the worker died

paymentVars == <<status, reason, refunded, unsent, asked>>
queueVars == <<queue, jobIds, stalls>>
vars == <<chainVars, paymentVars, queueVars, worker>>

\* REJECTED stands for the reasons of AddSorobanFailureReasons: nothing
\* depends on which of them it is.
FailureReasons == {"none", "REJECTED", "DECLINED", "EXPIRED", "ABANDONED"}

\* The job, the await it is suspended on, its transaction, the endpoint and
\* the attempts sendTransaction has made there, and what apply() is to be told.
NoWork == [at |-> "idle", job |-> None, tx |-> None, endpoint |-> 1,
           tries |-> 0, arg |-> "none"]

WorkerTypeOK ==
  /\ worker.at \in {"idle", "build", "send", "poll", "fresh", "apply", "tag"}
  /\ worker.endpoint \in 1..Endpoints
  /\ worker.tries \in 0..2
  /\ worker.arg \in {"none", "confirmed", "failed"}
  /\ worker.at # "idle" => worker.job \in Job
  /\ worker.at \in {"send", "poll"} => worker.tx \in Transaction

EscrowTypeOK ==
  /\ ChainTypeOK
  /\ WorkerTypeOK
  /\ status \in [Payments -> Statuses \cup {"ABSENT"}]
  /\ reason \in [Payments -> FailureReasons]
  /\ refunded \in [Payments -> 0..Amount]
  /\ unsent \in [Payments -> Nat]
  /\ asked \in [Payments -> {"none", "confirmed", "failed"}]
  /\ queue \in Seq(Job)
  /\ jobIds \subseteq Job
  /\ stalls \in 0..MaxStalls

Init ==
  /\ ChainInit
  /\ status = [p \in Payments |-> "ABSENT"]
  /\ reason = [p \in Payments |-> "none"]
  /\ refunded = [p \in Payments |-> 0]
  /\ unsent = [p \in Payments |-> 0]
  /\ asked = [p \in Payments |-> "none"]
  /\ queue = <<>>
  /\ jobIds = {}
  /\ worker = NoWork
  /\ stalls = 0

(***************************************************************************)
(* SorobanRailAdapter.                                                     *)
(***************************************************************************)

\* queue.add with a jobId.
Enqueue(kind, p) ==
  LET job == [kind |-> kind, pay |-> p] IN
  /\ queue' = IF job \in jobIds THEN queue ELSE Append(queue, job)
  /\ jobIds' = jobIds \cup {job}

\* Mutant: locked funds count as not yet there.
VerdictOnceReleased(p) ==
  CASE escrow[p] = "RELEASED" -> "confirmed"
    [] escrow[p] = "REFUNDED" -> "failed"
    [] OTHER -> "pending"

\* verifyByReference.
VerifyByReference(p) ==
  CASE escrow[p] \in {"LOCKED", "RELEASED"} -> "confirmed"
    [] escrow[p] = "REFUNDED" -> "failed"
    [] OTHER -> "pending"

\* PaymentsService inserts the row and calls initiate() of the rail.
Initiate(p) ==
  /\ status[p] = "ABSENT"
  /\ status' = [status EXCEPT ![p] = "INITIATED"]
  /\ Enqueue("create", p)
  /\ UNCHANGED <<chainVars, reason, refunded, unsent, asked, worker, stalls>>

\* PaymentsService saves what initiate() returned, while the job may run.
SaveAwaiting(p) ==
  /\ status[p] = "INITIATED"
  /\ status' = [status EXCEPT ![p] = "AWAITING_CONFIRMATION"]
  /\ UNCHANGED <<chainVars, reason, refunded, unsent, asked, queueVars, worker>>

\* release(): nothing but the reference is required, which a payment that
\* never got past INITIATED has not.
Release(p) ==
  /\ p \in Releasable
  /\ status[p] \notin {"ABSENT", "INITIATED"}
  /\ reason[p] # "ABANDONED"
  /\ Enqueue("release", p)
  /\ UNCHANGED <<chainVars, paymentVars, worker, stalls>>

(***************************************************************************)
(* The payments module around the rail.                                    *)
(***************************************************************************)

\* apply(): a terminal status stays, and a transition that is not allowed
\* throws.
Apply(p, outcome) ==
  LET next == IF outcome = "confirmed" THEN "CONFIRMED" ELSE "FAILED" IN
  status' = IF status[p] \notin TerminalStatuses /\ CanTransition(status[p], next)
            THEN [status EXCEPT ![p] = next] ELSE status

\* reconcileOne asks; a pending answer or an error leads nowhere here.
AskChain(p) ==
  /\ status[p] = "AWAITING_CONFIRMATION"
  /\ asked[p] = "none"
  /\ VerifyByReference(p) # "pending"
  /\ asked' = [asked EXCEPT ![p] = VerifyByReference(p)]
  /\ UNCHANGED <<chainVars, status, reason, refunded, unsent, queueVars, worker>>

\* reconcileOne applies the answer, and tags a payment that is FAILED then.
ApplyAnswer(p) ==
  /\ asked[p] # "none"
  /\ Apply(p, asked[p])
  /\ reason' = IF status'[p] = "FAILED" THEN [reason EXCEPT ![p] = "DECLINED"]
               ELSE reason
  /\ asked' = [asked EXCEPT ![p] = "none"]
  /\ UNCHANGED <<chainVars, refunded, unsent, queueVars, worker>>

\* sweepExpired, PAYMENT_INITIATED_TTL_MINUTES after initiation.
Sweep(p) ==
  /\ status[p] \in OpenStatuses
  /\ status' = [status EXCEPT ![p] = "EXPIRED"]
  /\ reason' = [reason EXCEPT
                  ![p] = IF status[p] = "INITIATED" THEN "ABANDONED" ELSE "EXPIRED"]
  /\ UNCHANGED <<chainVars, refunded, unsent, asked, queueVars, worker>>

\* RefundsService.bookRefund.
BookRefund(p, amount) ==
  LET total == refunded[p] + amount IN
  /\ status[p] \in RefundableStatuses
  /\ total <= Amount
  /\ refunded' = [refunded EXCEPT ![p] = total]
  /\ status' = [status EXCEPT
                  ![p] = IF total = Amount THEN "REFUNDED" ELSE "PARTIALLY_REFUNDED"]
  /\ unsent' = [unsent EXCEPT ![p] = @ + 1]
  /\ UNCHANGED <<chainVars, reason, asked, queueVars, worker>>

\* requestRefund then calls refund() of the rail, which enqueues; or the queue
\* is down for all its attempts, or the server dies first.
SendRefund(p) ==
  /\ unsent[p] > 0
  /\ unsent' = [unsent EXCEPT ![p] = @ - 1]
  /\ \/ Enqueue("refund", p)
     \/ UNCHANGED <<queue, jobIds>>
  /\ UNCHANGED <<chainVars, status, reason, refunded, asked, worker, stalls>>

(***************************************************************************)
(* EscrowSubmissionProcessor.                                              *)
(***************************************************************************)

At(label) == worker.at = label

EndJob == worker' = NoWork

\* Mutant: a release job builds the refund.
AlwaysRefund(job) == IF job.kind = "create" THEN "create" ELSE "refund"

\* handleSubmit, submitTreasuryAction: which call a job makes.
CallOf(job) == job.kind

\* Mutant: handleCreate submits for any payment.
AnyPayment(p) == TRUE

\* handleCreate's check of the payment.
AwaitsFunds(p) == status[p] = "AWAITING_CONFIRMATION"

\* handleSubmit; handleCreate up to the wallet lookup.  A payment that is not
\* AWAITING_CONFIRMATION (yet, or any more) and a payer without a wallet end it.
StartJob ==
  /\ At("idle")
  /\ queue # <<>>
  /\ queue' = Tail(queue)
  /\ LET job == Head(queue) IN
       \/ /\ job.kind = "create" => AwaitsFunds(job.pay)
          /\ worker' = [NoWork EXCEPT !.at = "build", !.job = job]
       \/ /\ job.kind = "create"
          /\ EndJob
  /\ UNCHANGED <<chainVars, paymentVars, jobIds, stalls>>

\* handleSubmissionError, and submitTreasuryAction's catch.  Only a create has
\* a payment to settle; indeterminate errors settle nothing.
Caught(error) ==
  IF worker.job.kind # "create" \/ error = "indeterminate" THEN NoWork
  ELSE IF error = "already" THEN [worker EXCEPT !.at = "fresh"]
  ELSE [worker EXCEPT !.at = "apply", !.arg = "failed"]

\* Mutant: a lost connection counts as a rejection.
RejectedAnyway(error) ==
  IF error = "already_done" THEN "already" ELSE "rejected"

\* mapSorobanError: the contract's guard against doing it again, a definite
\* rejection, or anything else.
MapSorobanError(error) ==
  CASE error = "already_done" -> "already"
    [] error \in {"simulation", "submission"} -> "rejected"
    [] OTHER -> "indeterminate"

\* A simulation that the contract refuses, as the patterns read its message.
SimulationError(p) ==
  IF escrow[p] \in {"RELEASED", "REFUNDED"} THEN "already_done" ELSE "simulation"

\* buildAndAssemble and the signature: getAccount, simulate, sign.  Any of
\* them may fail on the network; a create may also be refused for lack of funds.
BuildTx ==
  LET p == worker.job.pay
      kind == CallOf(worker.job)
  IN
  /\ At("build")
  /\ \/ /\ Allows(kind, p)
        /\ worker' = [worker EXCEPT !.at = "send", !.tx = Build(kind, p)]
     \/ /\ ~Allows(kind, p)
        /\ worker' = Caught(MapSorobanError(SimulationError(p)))
     \/ /\ kind = "create"
        /\ worker' = Caught(MapSorobanError("simulation"))
     \/ worker' = Caught(MapSorobanError("network"))
  /\ UNCHANGED <<chainVars, paymentVars, queueVars>>

\* withFailover: the next endpoint, or the last error.
NextEndpoint ==
  IF worker.endpoint < Endpoints
  THEN [worker EXCEPT !.endpoint = @ + 1, !.tries = 0]
  ELSE Caught(MapSorobanError("network"))

\* Mutant: one attempt too many.
TriesAndOne == IF worker.endpoint = Endpoints THEN 4 ELSE 3

\* maxAttempts of withFailover.
Tries == IF worker.endpoint = Endpoints THEN 3 ELSE 2

\* sendTransaction returns a hash.
SendAccepted ==
  /\ At("send")
  /\ Accept(worker.tx)
  /\ worker' = [worker EXCEPT !.at = "poll"]
  /\ UNCHANGED <<escrow, sequence, landed, paymentVars, queueVars>>

\* The connection fails before or after the endpoint has the transaction.
SendUnreachable ==
  /\ At("send")
  /\ Accept(worker.tx) \/ UNCHANGED pending
  /\ worker' = NextEndpoint
  /\ UNCHANGED <<escrow, sequence, landed, paymentVars, queueVars>>

\* TRY_AGAIN_LATER.
SendTransient ==
  /\ At("send")
  /\ worker' = IF worker.tries + 1 < Tries THEN [worker EXCEPT !.tries = @ + 1]
               ELSE NextEndpoint
  /\ UNCHANGED <<chainVars, paymentVars, queueVars>>

\* The status is ERROR, a sequence number that is used up included: submit()
\* throws an EscrowSubmissionError.  What is pending is not rejected.
SendRejected ==
  /\ At("send")
  /\ worker.tx \notin pending
  /\ worker' = Caught(MapSorobanError("submission"))
  /\ UNCHANGED <<chainVars, paymentVars, queueVars>>

\* pollFinality: it lands within the bound, or the job is left to
\* reconciliation (NOT_FOUND, or an error, which is indeterminate).
PollFinality ==
  /\ At("poll")
  /\ \/ /\ worker.tx \in landed
        /\ worker' = IF worker.job.kind = "create"
                     THEN [worker EXCEPT !.at = "fresh"] ELSE NoWork
     \/ EndJob
  /\ UNCHANGED <<chainVars, paymentVars, queueVars>>

\* Mutant: a transaction that is final is taken for a success.
FinalIsConfirmed(p) ==
  IF escrow[p] = "REFUNDED" THEN "failed" ELSE "confirmed"

\* resolveFromFreshState's verdict.
FreshVerdict(p) ==
  CASE escrow[p] \in {"LOCKED", "RELEASED"} -> "confirmed"
    [] escrow[p] = "REFUNDED" -> "failed"
    [] OTHER -> "none"

\* resolveFromFreshState; the read may fail, and a simulation error of
\* get_status reads as NOT_FOUND.
ReadFresh ==
  LET verdict == FreshVerdict(worker.job.pay) IN
  /\ At("fresh")
  /\ \/ /\ verdict # "none"
        /\ worker' = [worker EXCEPT !.at = "apply", !.arg = verdict]
     \/ EndJob
  /\ UNCHANGED <<chainVars, paymentVars, queueVars>>

\* Mutant: whatever apply() returned is left without a reason.
NeverTagged(p) == FALSE

\* applied?.status === FAILED && failureReason.
MustTag(p) == worker.arg = "failed" /\ status'[p] = "FAILED"

\* applyOutcome: apply(), then a reason for a payment that is FAILED.
ApplyOutcome ==
  LET p == worker.job.pay IN
  /\ At("apply")
  /\ Apply(p, worker.arg)
  /\ worker' = IF MustTag(p) THEN [worker EXCEPT !.at = "tag"] ELSE NoWork
  /\ UNCHANGED <<chainVars, reason, refunded, unsent, asked, queueVars>>

TagReason ==
  /\ At("tag")
  /\ reason' = [reason EXCEPT ![worker.job.pay] = "REJECTED"]
  /\ EndJob
  /\ UNCHANGED <<chainVars, status, refunded, unsent, asked, queueVars>>

\* The worker dies; Bull finds the job stalled and runs it again.
Stall ==
  /\ ~At("idle")
  /\ stalls < MaxStalls
  /\ stalls' = stalls + 1
  /\ queue' = <<worker.job>> \o queue
  /\ EndJob
  /\ UNCHANGED <<chainVars, paymentVars, jobIds>>

Services(p) ==
  \/ Initiate(p) \/ SaveAwaiting(p) \/ Release(p)
  \/ AskChain(p) \/ ApplyAnswer(p) \/ Sweep(p)
  \/ (\E amount \in RefundAmounts : BookRefund(p, amount))
  \/ SendRefund(p)

Processor ==
  \/ StartJob \/ BuildTx
  \/ SendAccepted \/ SendUnreachable \/ SendTransient \/ SendRejected
  \/ PollFinality \/ ReadFresh \/ ApplyOutcome \/ TagReason \/ Stall

Ledger(tx) ==
  /\ Include(tx) \/ Drop(tx)
  /\ UNCHANGED <<paymentVars, queueVars, worker>>

Next ==
  \/ \E p \in Payments : Services(p)
  \/ Processor
  \/ \E tx \in pending : Ledger(tx)

\* The scheduled pass keeps asking and does not stop half way.
Fairness ==
  \A p \in Payments : WF_vars(AskChain(p)) /\ WF_vars(ApplyAnswer(p))

Spec == Init /\ [][Next]_vars /\ Fairness
=============================================================================
