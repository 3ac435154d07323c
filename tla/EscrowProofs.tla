---------------------------- MODULE EscrowProofs ----------------------------
(***************************************************************************)
(* The invariants of the Soroban rail, proved for any number of payments,  *)
(* refunds, stalls and (except where a theorem says so) RPC endpoints.     *)
(*                                                                         *)
(* A status follows the chain: what a reconciliation pass or the worker    *)
(* carries from a read to an apply() was true when it was read, and stays  *)
(* true because an escrow only moves forward (ChainIsAhead).  The other    *)
(* way round, the chain follows the jobs: whatever is signed, accepted or  *)
(* landed goes back to a job that the services enqueued (JobsAreGrounded). *)
(***************************************************************************)
EXTENDS EscrowProperties, SequenceTheorems, TLAPS

WorkerLabels == {"idle", "build", "send", "poll", "fresh", "apply", "tag"}

Outcomes == {"none", "confirmed", "failed"}

Worker == [at: WorkerLabels, job: Job \cup {None}, tx: Transaction \cup {None},
           endpoint: 1..Endpoints, tries: 0..2, arg: Outcomes]

\* What WorkerTypeOK says of the worker, that it is a record of that shape, and
\* that it applies nothing but a verdict.
WorkerOK(w) ==
  /\ w \in Worker
  /\ w.at # "idle" => w.job \in Job
  /\ w.at \in {"send", "poll"} => w.tx \in Transaction
  /\ w.at = "apply" => w.arg # "none"

TypeInv == EscrowTypeOK /\ WorkerOK(worker)

(***************************************************************************)
(* Types.                                                                  *)
(***************************************************************************)

\* A job that is over leaves a worker of the right shape.
LEMMA NoWorkOK == WorkerOK(NoWork)
BY ChainAssumption DEF WorkerOK, NoWork, Worker, WorkerLabels, Outcomes

\* A job that is running keeps its shape at any other await, with any verdict.
LEMMA AwaitOK ==
  ASSUME WorkerOK(worker), worker.at # "idle",
         NEW at \in {"build", "fresh", "tag"}, NEW arg \in {"confirmed", "failed"}
  PROVE  /\ WorkerOK([worker EXCEPT !.at = at])
         /\ WorkerOK([worker EXCEPT !.at = "apply", !.arg = arg])
BY DEF WorkerOK, Worker, WorkerLabels, Outcomes

\* The three ways an error of the submission can end.
LEMMA CaughtCases ==
  ASSUME NEW error \in {"already", "indeterminate", "rejected"}
  PROVE  \/ Caught(error) = NoWork
         \/ /\ worker.job.kind = "create"
            /\ error = "already"
            /\ Caught(error) = [worker EXCEPT !.at = "fresh"]
         \/ /\ worker.job.kind = "create"
            /\ error = "rejected"
            /\ Caught(error) = [worker EXCEPT !.at = "apply", !.arg = "failed"]
<1>1. CASE worker.job.kind # "create"
  BY <1>1 DEF Caught
<1>2. CASE worker.job.kind = "create" /\ error = "already"
  BY <1>2 DEF Caught
<1>3. CASE worker.job.kind = "create" /\ error = "indeterminate"
  BY <1>3 DEF Caught
<1>4. CASE worker.job.kind = "create" /\ error = "rejected"
  BY <1>4 DEF Caught
<1> QED
  BY <1>1, <1>2, <1>3, <1>4

\* All of them leave a worker of the right shape.
LEMMA CaughtOK ==
  ASSUME WorkerOK(worker), worker.at # "idle",
         NEW error \in {"already", "indeterminate", "rejected"}
  PROVE  WorkerOK(Caught(error))
<1>1. WorkerOK([worker EXCEPT !.at = "fresh"])
  BY AwaitOK DEF WorkerLabels, Outcomes
<1>2. WorkerOK([worker EXCEPT !.at = "apply", !.arg = "failed"])
  BY AwaitOK DEF WorkerLabels, Outcomes
<1> HIDE DEF WorkerOK
<1> QED
  BY <1>1, <1>2, CaughtCases, NoWorkOK

\* mapSorobanError has three answers.
LEMMA MapCases ==
  ASSUME NEW error
  PROVE  MapSorobanError(error) \in {"already", "indeterminate", "rejected"}
BY DEF MapSorobanError

\* A transaction is built for the account that signs it.
LEMMA BuildOK ==
  ASSUME ChainTypeOK, NEW job \in Job
  PROVE  /\ Build(job.kind, job.pay) \in Transaction
         /\ Build(job.kind, job.pay).kind = job.kind
         /\ Build(job.kind, job.pay).pay = job.pay
<1>1. job.kind \in Kinds /\ job.pay \in Payments
  BY DEF Job
<1>2. sequence["payer"] \in Nat /\ sequence["treasury"] \in Nat
  BY DEF ChainTypeOK, Accounts
<1> QED
  BY <1>1, <1>2 DEF Build, Transaction

\* What enqueueing does to the queue and to the ids that Bull has seen.
LEMMA EnqueueOK ==
  ASSUME TypeInv, NEW kind \in Kinds, NEW p \in Payments, Enqueue(kind, p)
  PROVE  queue' \in Seq(Job) /\ jobIds' \subseteq Job
<1> DEFINE job == [kind |-> kind, pay |-> p]
<1>1. job \in Job
  BY DEF Job
<1>2. queue' = queue \/ queue' = Append(queue, job)
  BY DEF Enqueue
<1>3. jobIds' = jobIds \cup {job}
  BY DEF Enqueue
<1>4. queue \in Seq(Job) /\ jobIds \subseteq Job
  BY DEF TypeInv, EscrowTypeOK
<1> HIDE DEF job
<1>5. Append(queue, job) \in Seq(Job)
  BY <1>1, <1>4
<1> QED
  BY <1>1, <1>2, <1>3, <1>4, <1>5

\* apply() leaves a status.
LEMMA ApplyOK ==
  ASSUME TypeInv, NEW p \in Payments, NEW outcome, Apply(p, outcome)
  PROVE  status' \in [Payments -> Statuses \cup {"ABSENT"}]
BY DEF TypeInv, EscrowTypeOK, Apply, Statuses

\* The constants of the rail's sets.
LEMMA OpenAreStatuses ==
  /\ {"REFUNDED", "PARTIALLY_REFUNDED", "EXPIRED", "CONFIRMED", "FAILED",
      "INITIATED", "AWAITING_CONFIRMATION"} \subseteq Statuses
BY DEF Statuses

LEMMA TypeInvInit ==
  Init => TypeInv
<1> SUFFICES ASSUME Init PROVE TypeInv
  OBVIOUS
<1>1. WorkerOK(worker)
  BY NoWorkOK DEF Init
<1>2. ChainTypeOK
  BY DEF Init, ChainInit, ChainTypeOK, EscrowStatus
<1>3. WorkerTypeOK
  BY <1>1 DEF WorkerOK, WorkerTypeOK, Worker, WorkerLabels, Outcomes
<1>4. /\ status \in [Payments -> Statuses \cup {"ABSENT"}]
      /\ reason \in [Payments -> FailureReasons]
      /\ refunded \in [Payments -> 0..Amount]
      /\ unsent \in [Payments -> Nat]
      /\ asked \in [Payments -> {"none", "confirmed", "failed"}]
  BY RailAssumption DEF Init, FailureReasons
<1>5. queue \in Seq(Job) /\ jobIds \subseteq Job /\ stalls \in 0..MaxStalls
  BY RailAssumption DEF Init
<1> QED
  BY <1>1, <1>2, <1>3, <1>4, <1>5 DEF TypeInv, EscrowTypeOK

\* A worker of the right shape satisfies WorkerTypeOK.
LEMMA WorkerTyped ==
  ASSUME WorkerOK(worker)'
  PROVE  WorkerTypeOK'
BY DEF WorkerOK, WorkerTypeOK, Worker, WorkerLabels, Outcomes

\* What the services do preserves the types.
LEMMA TypeInvServices ==
  ASSUME TypeInv, NEW p \in Payments, Services(p)
  PROVE  TypeInv'
<1> USE DEF TypeInv
<1>1. CASE Initiate(p)
  <2>1. queue' \in Seq(Job) /\ jobIds' \subseteq Job
    BY <1>1, EnqueueOK DEF Initiate, Kinds
  <2>2. status' \in [Payments -> Statuses \cup {"ABSENT"}]
    BY <1>1, OpenAreStatuses DEF Initiate, EscrowTypeOK
  <2> QED
    BY <1>1, <2>1, <2>2 DEF Initiate, EscrowTypeOK, WorkerTypeOK, ChainTypeOK, chainVars
<1>2. CASE SaveAwaiting(p)
  BY <1>2, OpenAreStatuses
  DEF SaveAwaiting, EscrowTypeOK, WorkerTypeOK, ChainTypeOK, chainVars, queueVars
<1>3. CASE Release(p)
  <2>1. queue' \in Seq(Job) /\ jobIds' \subseteq Job
    BY <1>3, EnqueueOK DEF Release, Kinds
  <2> QED
    BY <1>3, <2>1
    DEF Release, EscrowTypeOK, WorkerTypeOK, ChainTypeOK, chainVars, paymentVars
<1>4. CASE AskChain(p)
  <2>1. asked' \in [Payments -> {"none", "confirmed", "failed"}]
    BY <1>4 DEF AskChain, EscrowTypeOK, VerifyByReference
  <2> QED
    BY <1>4, <2>1
    DEF AskChain, EscrowTypeOK, WorkerTypeOK, ChainTypeOK, chainVars, queueVars
<1>5. CASE ApplyAnswer(p)
  <2>1. status' \in [Payments -> Statuses \cup {"ABSENT"}]
    BY <1>5, ApplyOK DEF ApplyAnswer
  <2>2. reason' \in [Payments -> FailureReasons]
    BY <1>5 DEF ApplyAnswer, EscrowTypeOK, FailureReasons
  <2>3. asked' \in [Payments -> {"none", "confirmed", "failed"}]
    BY <1>5 DEF ApplyAnswer, EscrowTypeOK
  <2> QED
    BY <1>5, <2>1, <2>2, <2>3
    DEF ApplyAnswer, EscrowTypeOK, WorkerTypeOK, ChainTypeOK, chainVars, queueVars
<1>6. CASE Sweep(p)
  <2>1. status' \in [Payments -> Statuses \cup {"ABSENT"}]
    BY <1>6, OpenAreStatuses DEF Sweep, EscrowTypeOK
  <2>2. reason' \in [Payments -> FailureReasons]
    BY <1>6 DEF Sweep, EscrowTypeOK, FailureReasons
  <2> QED
    BY <1>6, <2>1, <2>2
    DEF Sweep, EscrowTypeOK, WorkerTypeOK, ChainTypeOK, chainVars, queueVars
<1>7. ASSUME NEW amount \in RefundAmounts, BookRefund(p, amount)
      PROVE  TypeInv'
  <2>1. status' \in [Payments -> Statuses \cup {"ABSENT"}]
    BY <1>7, OpenAreStatuses DEF BookRefund, EscrowTypeOK
  <2>2. refunded' \in [Payments -> 0..Amount]
    BY <1>7, RailAssumption DEF BookRefund, EscrowTypeOK
  <2>3. unsent' \in [Payments -> Nat]
    BY <1>7 DEF BookRefund, EscrowTypeOK
  <2> QED
    BY <1>7, <2>1, <2>2, <2>3
    DEF BookRefund, EscrowTypeOK, WorkerTypeOK, ChainTypeOK, chainVars, queueVars
<1>8. CASE SendRefund(p)
  <2>1. queue' \in Seq(Job) /\ jobIds' \subseteq Job
    BY <1>8, EnqueueOK DEF SendRefund, Kinds, EscrowTypeOK
  <2>2. unsent' \in [Payments -> Nat]
    BY <1>8 DEF SendRefund, EscrowTypeOK
  <2> QED
    BY <1>8, <2>1, <2>2
    DEF SendRefund, EscrowTypeOK, WorkerTypeOK, ChainTypeOK, chainVars
<1> QED
  BY <1>1, <1>2, <1>3, <1>4, <1>5, <1>6, <1>7, <1>8 DEF Services

\* A ledger that includes or drops a transaction preserves the types.
LEMMA TypeInvLedger ==
  ASSUME TypeInv, NEW tx \in pending, Ledger(tx)
  PROVE  TypeInv'
<1> USE DEF TypeInv
<1>0. tx \in Transaction /\ ChainTypeOK
  BY DEF EscrowTypeOK, ChainTypeOK
<1>1. CASE Include(tx)
  <2>1. Signer(tx) \in Accounts /\ After(tx.kind) \in EscrowStatus
    BY <1>0 DEF Signer, Accounts, After, EscrowStatus, Transaction, Kinds
  <2>2. sequence' \in [Accounts -> Nat]
    BY <1>0, <1>1, <2>1 DEF Include, ChainTypeOK
  <2>3. escrow' \in [Payments -> EscrowStatus]
    BY <1>0, <1>1, <2>1 DEF Include, ChainTypeOK
  <2>4. pending' \subseteq Transaction /\ landed' \subseteq Transaction
    BY <1>0, <1>1 DEF Include, ChainTypeOK
  <2> QED
    BY <2>2, <2>3, <2>4
    DEF Ledger, EscrowTypeOK, WorkerTypeOK, ChainTypeOK, paymentVars, queueVars
<1>2. CASE Drop(tx)
  BY <1>2, <1>0
  DEF Drop, Ledger, EscrowTypeOK, WorkerTypeOK, ChainTypeOK, paymentVars, queueVars
<1> QED
  BY <1>1, <1>2 DEF Ledger

\* Where an await of the worker may lead, whatever else it changes.
LEMMA WorkerStep ==
  ASSUME TypeInv, Processor, ~StartJob, ~Stall
  PROVE  /\ worker.at # "idle" /\ worker.job \in Job
         /\ WorkerOK(worker')
         /\ worker'.at # "idle" => worker'.job = worker.job
         /\ UNCHANGED <<queueVars, refunded, unsent, asked>>
<1> USE DEF TypeInv, At
<1>0. worker.at # "idle"
  BY DEF Processor, BuildTx, SendAccepted, SendUnreachable, SendTransient,
         SendRejected, PollFinality, ReadFresh, ApplyOutcome, TagReason
<1>1. worker.job \in Job /\ worker \in Worker
  BY <1>0 DEF WorkerOK
<1>2. \A error : WorkerOK(Caught(MapSorobanError(error)))
  BY <1>0, CaughtOK, MapCases
<1>3. \A error : LET w == Caught(MapSorobanError(error))
                 IN  w.at # "idle" => w.job = worker.job
  <2> SUFFICES ASSUME NEW error
               PROVE  LET w == Caught(MapSorobanError(error))
                      IN  w.at # "idle" => w.job = worker.job
    OBVIOUS
  <2> DEFINE e == MapSorobanError(error)
  <2>1. e \in {"already", "indeterminate", "rejected"}
    BY MapCases
  <2> HIDE DEF e
  <2>2. \/ Caught(e) = NoWork
        \/ Caught(e) = [worker EXCEPT !.at = "fresh"]
        \/ Caught(e) = [worker EXCEPT !.at = "apply", !.arg = "failed"]
    BY <2>1, CaughtCases
  <2>3. /\ NoWork.at = "idle"
        /\ [worker EXCEPT !.at = "fresh"].job = worker.job
        /\ [worker EXCEPT !.at = "apply", !.arg = "failed"].job = worker.job
    BY <1>1 DEF NoWork, Worker
  <2>4. Caught(e).at # "idle" => Caught(e).job = worker.job
    BY <2>2, <2>3
  <2> QED
    BY <2>4 DEF e
<1>4. WorkerOK(NoWork) /\ NoWork.at = "idle"
  BY NoWorkOK DEF NoWork
<1>5. /\ worker.tries \in 0..2 /\ worker.endpoint \in 1..Endpoints
      /\ Endpoints \in Nat /\ Tries \in {2, 3}
  BY <1>1, ChainAssumption DEF Worker, Tries
<1>6. CASE BuildTx
  <2> DEFINE tx == Build(CallOf(worker.job), worker.job.pay)
  <2>1. ChainTypeOK
    BY DEF EscrowTypeOK
  <2>2. tx \in Transaction
    BY <1>1, <2>1, BuildOK DEF CallOf
  <2> HIDE DEF tx
  <2>3. LET w == [worker EXCEPT !.at = "send", !.tx = tx]
        IN  WorkerOK(w) /\ w.job = worker.job
    BY <1>0, <1>1, <2>2 DEF WorkerOK, Worker, WorkerLabels
  <2>4. \/ worker' = [worker EXCEPT !.at = "send", !.tx = tx]
        \/ \E error : worker' = Caught(MapSorobanError(error))
    BY <1>6 DEF BuildTx, tx
  <2>5. UNCHANGED <<queueVars, refunded, unsent, asked>>
    BY <1>6 DEF BuildTx, paymentVars
  <2> QED
    BY <1>0, <1>1, <1>2, <1>3, <2>3, <2>4, <2>5
<1>7. CASE SendAccepted
  <2>1. LET w == [worker EXCEPT !.at = "poll"]
        IN  WorkerOK(w) /\ w.job = worker.job
    BY <1>0, <1>1, <1>7 DEF WorkerOK, Worker, WorkerLabels, SendAccepted
  <2> QED
    BY <1>0, <1>1, <1>7, <2>1 DEF SendAccepted, paymentVars
<1>8. ASSUME worker' = NextEndpoint, worker.at = "send"
      PROVE  /\ WorkerOK(worker')
             /\ worker'.at # "idle" => worker'.job = worker.job
  <2>1. CASE worker.endpoint < Endpoints
    <3> DEFINE w == [worker EXCEPT !.endpoint = @ + 1, !.tries = 0]
    <3>1. worker.endpoint + 1 \in 1..Endpoints
      BY <1>5, <2>1
    <3>2. w \in Worker
      <4>1. 0 \in 0..2
        OBVIOUS
      <4> DEFINE next == worker.endpoint + 1
                 none == 0
      <4>2. next \in 1..Endpoints /\ none \in 0..2
        BY <3>1, <4>1
      <4>3. w = [worker EXCEPT !.endpoint = next, !.tries = none]
        BY <1>1 DEF Worker
      <4> HIDE DEF next, none, w
      <4> QED
        BY <1>1, <4>2, <4>3 DEF Worker
    <3>4. w.at = worker.at /\ w.job = worker.job /\ w.tx = worker.tx
      BY <1>1 DEF Worker
    <3>3. worker' = w
      BY <1>8, <2>1 DEF NextEndpoint
    <3> HIDE DEF w
    <3> QED
      BY <1>8, <3>2, <3>3, <3>4 DEF WorkerOK
  <2>2. CASE ~(worker.endpoint < Endpoints)
    BY <1>2, <1>3, <1>8, <2>2 DEF NextEndpoint
  <2> QED
    BY <2>1, <2>2
<1>9. CASE SendUnreachable
  BY <1>0, <1>1, <1>8, <1>9 DEF SendUnreachable, paymentVars
<1>10. CASE SendTransient
  <2>1. CASE worker.tries + 1 < Tries
    <3> DEFINE w == [worker EXCEPT !.tries = @ + 1]
    <3>1. worker.tries + 1 \in 0..2
      BY <1>5, <2>1
    <3>2. w \in Worker
      BY <1>1, <3>1 DEF Worker
    <3>5. w.at = worker.at /\ w.job = worker.job /\ w.tx = worker.tx
      BY <1>1 DEF Worker
    <3>3. worker' = w
      BY <1>10, <2>1 DEF SendTransient
    <3>4. UNCHANGED <<queueVars, refunded, unsent, asked>>
      BY <1>10 DEF SendTransient, paymentVars
    <3> HIDE DEF w
    <3> QED
      <4>1. worker.at = "send"
        BY <1>10 DEF SendTransient
      <4>2. WorkerOK(w)
        BY <4>1, <3>2, <3>5 DEF WorkerOK
      <4> QED
        BY <1>0, <1>1, <3>3, <3>4, <3>5, <4>2
  <2>2. CASE ~(worker.tries + 1 < Tries)
    BY <1>0, <1>1, <1>8, <1>10, <2>2 DEF SendTransient, paymentVars
  <2> QED
    BY <2>1, <2>2
<1>11. CASE SendRejected
  BY <1>0, <1>1, <1>2, <1>3, <1>11 DEF SendRejected, paymentVars
<1>12. ASSUME NEW at \in {"fresh", "tag"}, NEW arg \in {"confirmed", "failed"}
       PROVE  /\ WorkerOK([worker EXCEPT !.at = at])
              /\ WorkerOK([worker EXCEPT !.at = "apply", !.arg = arg])
              /\ [worker EXCEPT !.at = at].job = worker.job
              /\ [worker EXCEPT !.at = "apply", !.arg = arg].job = worker.job
  <2>2. /\ [worker EXCEPT !.at = at].job = worker.job
        /\ [worker EXCEPT !.at = "apply", !.arg = arg].job = worker.job
    BY <1>1 DEF Worker
  <2> QED
    BY <1>0, <2>2, AwaitOK
<1>13. CASE PollFinality
  <2>1. worker' = [worker EXCEPT !.at = "fresh"] \/ worker' = NoWork
    BY <1>13 DEF PollFinality, EndJob
  <2>2. UNCHANGED <<queueVars, refunded, unsent, asked>>
    BY <1>13 DEF PollFinality, paymentVars
  <2> QED
    <3>1. LET w == [worker EXCEPT !.at = "fresh"]
          IN  WorkerOK(w) /\ w.job = worker.job
      BY <1>12
    <3> HIDE DEF TypeInv
    <3> QED
      BY <1>0, <1>1, <1>4, <3>1, <2>1, <2>2
<1>14. CASE ReadFresh
  <2> DEFINE v == FreshVerdict(worker.job.pay)
  <2>1. v \in {"none", "confirmed", "failed"}
    BY DEF FreshVerdict
  <2>2. \/ v # "none" /\ worker' = [worker EXCEPT !.at = "apply", !.arg = v]
        \/ worker' = NoWork
    BY <1>14 DEF ReadFresh, EndJob
  <2>3. UNCHANGED <<queueVars, refunded, unsent, asked>>
    BY <1>14 DEF ReadFresh, paymentVars
  <2> HIDE DEF v
  <2>4. CASE v # "none" /\ worker' = [worker EXCEPT !.at = "apply", !.arg = v]
    <3>1. v \in {"confirmed", "failed"}
      BY <2>1, <2>4
    <3>2. WorkerOK(worker') /\ worker'.job = worker.job
      BY <1>12, <2>4, <3>1
    <3> QED
      BY <1>0, <1>1, <3>2, <2>3
  <2>5. CASE worker' = NoWork
    BY <1>0, <1>1, <1>4, <2>3, <2>5
  <2> QED
    BY <2>2, <2>4, <2>5
<1>15. CASE ApplyOutcome
  <2>1. worker' = [worker EXCEPT !.at = "tag"] \/ worker' = NoWork
    BY <1>15 DEF ApplyOutcome
  <2>2. UNCHANGED <<queueVars, refunded, unsent, asked>>
    BY <1>15 DEF ApplyOutcome
  <2> QED
    <3>1. LET w == [worker EXCEPT !.at = "tag"]
          IN  WorkerOK(w) /\ w.job = worker.job
      BY <1>12
    <3> HIDE DEF TypeInv
    <3> QED
      BY <1>0, <1>1, <1>4, <3>1, <2>1, <2>2
<1>16. CASE TagReason
  <2>1. worker' = NoWork /\ UNCHANGED <<queueVars, refunded, unsent, asked>>
    BY <1>16 DEF TagReason, EndJob
  <2> QED
    BY <1>0, <1>1, <1>4, <2>1
<1> QED
  BY <1>6, <1>7, <1>9, <1>10, <1>11, <1>13, <1>14, <1>15, <1>16 DEF Processor

\* Starting a job takes it from the queue; a stall puts it back.
LEMMA QueueStep ==
  ASSUME TypeInv, StartJob \/ Stall
  PROVE  /\ WorkerOK(worker')
         /\ queue' \in Seq(Job)
         /\ worker'.at \in {"idle", "build"}
         /\ UNCHANGED <<chainVars, paymentVars, jobIds>>
<1> USE DEF TypeInv, At
<1>0. queue \in Seq(Job) /\ WorkerOK(NoWork) /\ NoWork.at = "idle"
  BY NoWorkOK DEF EscrowTypeOK, NoWork
<1>1. CASE StartJob
  <2>1. Head(queue) \in Job /\ Tail(queue) \in Seq(Job)
    BY <1>0, <1>1, HeadTailProperties DEF StartJob
  <2> DEFINE w == [NoWork EXCEPT !.at = "build", !.job = Head(queue)]
  <2>2. WorkerOK(w) /\ w.at = "build"
    BY <1>0, <2>1 DEF WorkerOK, NoWork, Worker, WorkerLabels
  <2>3. worker' = w \/ worker' = NoWork
    BY <1>1 DEF StartJob, EndJob
  <2> HIDE DEF w
  <2> QED
    BY <1>0, <1>1, <2>1, <2>2, <2>3 DEF StartJob
<1>2. CASE Stall
  <2>1. worker.job \in Job
    BY <1>2 DEF Stall, WorkerOK
  <2>2. queue' \in Seq(Job)
    BY <1>0, <1>2, <2>1, ConcatProperties DEF Stall
  <2> QED
    BY <1>0, <1>2, <2>2 DEF Stall, EndJob
<1> QED
  BY <1>1, <1>2

\* What the processor does preserves the types.
LEMMA TypeInvProcessor ==
  ASSUME TypeInv, Processor
  PROVE  TypeInv'
<1>0. TypeInv /\ EscrowTypeOK /\ ChainTypeOK
  BY DEF TypeInv, EscrowTypeOK
<1>1. CASE StartJob \/ Stall
  <2>1. WorkerOK(worker)' /\ WorkerTypeOK'
    BY <1>1, QueueStep, WorkerTyped
  <2>2. stalls' \in 0..MaxStalls
    BY <1>0, <1>1, RailAssumption DEF StartJob, Stall, EscrowTypeOK
  <2> QED
    BY <1>0, <1>1, <2>1, <2>2, QueueStep
    DEF TypeInv, EscrowTypeOK, ChainTypeOK, chainVars, paymentVars
<1>2. CASE ~StartJob /\ ~Stall
  <2>1. WorkerOK(worker)' /\ WorkerTypeOK'
    BY <1>2, WorkerStep, WorkerTyped
  <2>2. UNCHANGED <<queueVars, refunded, unsent, asked>>
    BY <1>2, WorkerStep
  <2>3. ChainTypeOK'
    <3>1. CASE SendAccepted \/ SendUnreachable
      <4>1. worker.tx \in Transaction
        BY <3>1 DEF SendAccepted, SendUnreachable, At, TypeInv, WorkerOK
      <4>2. pending' \subseteq Transaction
        BY <1>0, <3>1, <4>1 DEF SendAccepted, SendUnreachable, Accept, ChainTypeOK
      <4> QED
        BY <1>0, <3>1, <4>2 DEF SendAccepted, SendUnreachable, ChainTypeOK
    <3>2. CASE ~SendAccepted /\ ~SendUnreachable
      <4>1. UNCHANGED chainVars
        BY <1>2, <3>2
        DEF Processor, BuildTx, SendTransient, SendRejected, PollFinality,
            ReadFresh, ApplyOutcome, TagReason
      <4> QED
        BY <1>0, <4>1 DEF ChainTypeOK, chainVars
    <3> QED
      BY <3>1, <3>2
  <2>4. /\ status' \in [Payments -> Statuses \cup {"ABSENT"}]
        /\ reason' \in [Payments -> FailureReasons]
    <3>1. CASE ApplyOutcome
      <4>1. worker.job.pay \in Payments
        BY <1>2, WorkerStep DEF Job
      <4> QED
        BY <1>0, <3>1, <4>1, ApplyOK DEF ApplyOutcome, EscrowTypeOK
    <3>2. CASE TagReason
      BY <1>0, <3>2 DEF TagReason, EscrowTypeOK, FailureReasons
    <3>3. CASE ~ApplyOutcome /\ ~TagReason
      BY <1>0, <1>2, <3>3
      DEF Processor, BuildTx, SendAccepted, SendUnreachable, SendTransient,
          SendRejected, PollFinality, ReadFresh, paymentVars, EscrowTypeOK
    <3> QED
      BY <3>1, <3>2, <3>3
  <2> QED
    BY <1>0, <2>1, <2>2, <2>3, <2>4 DEF TypeInv, EscrowTypeOK, queueVars
<1> QED
  BY <1>1, <1>2

LEMMA TypeInvStep ==
  TypeInv /\ [Next]_vars => TypeInv'
<1> SUFFICES ASSUME TypeInv, [Next]_vars PROVE TypeInv'
  OBVIOUS
<1>1. CASE UNCHANGED vars
  BY <1>1
  DEF vars, chainVars, paymentVars, queueVars, TypeInv, EscrowTypeOK,
      ChainTypeOK, WorkerTypeOK
<1> QED
  BY <1>1, TypeInvServices, TypeInvProcessor, TypeInvLedger DEF Next

LEMMA TypeInvAlways ==
  Spec => []TypeInv
BY TypeInvInit, TypeInvStep, PTL DEF Spec

\* Every variable of the rail has its type: the payments, the queue with its
\* job ids, the worker and the chain.
THEOREM EscrowTypeCorrect ==
  Spec => []EscrowTypeOK
<1>1. TypeInv => EscrowTypeOK
  BY DEF TypeInv
<1> QED
  BY <1>1, TypeInvAlways, PTL

(***************************************************************************)
(* How the worker, the chain and a payment move.                           *)
(***************************************************************************)

\* Where the worker has come from when it is at an await of its job.
LEMMA WorkerArrives ==
  ASSUME TypeInv, Processor, ~StartJob, ~Stall
  PROVE  /\ worker'.at # "build"
         /\ worker'.at = "send" =>
              /\ worker.at \in {"build", "send"}
              /\ worker.at = "build" =>
                   worker'.tx = Build(worker.job.kind, worker.job.pay)
              /\ worker.at = "send" => worker'.tx = worker.tx
         /\ worker'.at = "poll" => worker.at = "send" /\ worker'.tx = worker.tx
         /\ worker'.at = "apply" =>
              \/ /\ worker.at = "fresh"
                 /\ worker'.arg = FreshVerdict(worker.job.pay)
              \/ /\ worker.at \in {"build", "send"}
                 /\ worker.job.kind = "create"
                 /\ worker'.arg = "failed"
         /\ worker'.at = "tag" => ApplyOutcome
<1> USE DEF At
<1>1. worker \in Worker /\ worker.at # "idle"
  BY WorkerStep DEF TypeInv, WorkerOK
<1>2. NoWork.at = "idle"
  BY DEF NoWork
<1>3. \A error : LET w == Caught(MapSorobanError(error)) IN
        /\ w.at \in {"idle", "fresh", "apply"}
        /\ w.at = "apply" => worker.job.kind = "create" /\ w.arg = "failed"
  <2> SUFFICES ASSUME NEW error
               PROVE  LET w == Caught(MapSorobanError(error)) IN
                      /\ w.at \in {"idle", "fresh", "apply"}
                      /\ w.at = "apply" =>
                           worker.job.kind = "create" /\ w.arg = "failed"
    OBVIOUS
  <2> DEFINE e == MapSorobanError(error)
  <2>1. e \in {"already", "indeterminate", "rejected"}
    BY MapCases
  <2> HIDE DEF e
  <2>2. /\ [worker EXCEPT !.at = "fresh"].at = "fresh"
        /\ [worker EXCEPT !.at = "apply", !.arg = "failed"].at = "apply"
        /\ [worker EXCEPT !.at = "apply", !.arg = "failed"].arg = "failed"
    BY <1>1 DEF Worker
  <2>3. /\ Caught(e).at \in {"idle", "fresh", "apply"}
        /\ Caught(e).at = "apply" =>
             worker.job.kind = "create" /\ Caught(e).arg = "failed"
    BY <1>2, <2>1, <2>2, CaughtCases
  <2> QED
    BY <2>3 DEF e
<1>4. \/ UNCHANGED worker
      \/ \A at, arg :
           /\ [worker EXCEPT !.at = at].at = at
           /\ [worker EXCEPT !.at = at].tx = worker.tx
           /\ [worker EXCEPT !.at = at, !.arg = arg].at = at
           /\ [worker EXCEPT !.at = at, !.arg = arg].arg = arg
  BY <1>1 DEF Worker
<1>5. CASE BuildTx
  <2> DEFINE tx == Build(CallOf(worker.job), worker.job.pay)
             w == [worker EXCEPT !.at = "send", !.tx = tx]
  <2>1. w.at = "send" /\ w.tx = tx
    BY <1>1 DEF Worker
  <2>2. \/ worker' = w
        \/ \E error : worker' = Caught(MapSorobanError(error))
    BY <1>5 DEF BuildTx
  <2>3. worker.at = "build" /\ tx = Build(worker.job.kind, worker.job.pay)
    BY <1>5 DEF BuildTx, CallOf
  <2> HIDE DEF w, tx
  <2> QED
    BY <1>3, <2>1, <2>2, <2>3
<1>6. CASE SendAccepted
  <2>1. worker.at = "send" /\ worker' = [worker EXCEPT !.at = "poll"]
    BY <1>6 DEF SendAccepted
  <2>2. worker'.at = "poll" /\ worker'.tx = worker.tx
    BY <1>1, <2>1 DEF Worker
  <2> QED
    BY <2>1, <2>2
<1>7. CASE SendUnreachable \/ SendTransient \/ SendRejected
  <2>0. worker.at = "send"
    BY <1>7 DEF SendUnreachable, SendTransient, SendRejected
  <2>1. \/ worker' = [worker EXCEPT !.endpoint = @ + 1, !.tries = 0]
        \/ worker' = [worker EXCEPT !.tries = @ + 1]
        \/ \E error : worker' = Caught(MapSorobanError(error))
    BY <1>7 DEF SendUnreachable, SendTransient, SendRejected, NextEndpoint
  <2>2. /\ [worker EXCEPT !.endpoint = @ + 1, !.tries = 0].at = worker.at
        /\ [worker EXCEPT !.endpoint = @ + 1, !.tries = 0].tx = worker.tx
        /\ [worker EXCEPT !.tries = @ + 1].at = worker.at
        /\ [worker EXCEPT !.tries = @ + 1].tx = worker.tx
    BY <1>1 DEF Worker
  <2>3. CASE \E error : worker' = Caught(MapSorobanError(error))
    BY <1>3, <2>0, <2>3
  <2>4. CASE ~\E error : worker' = Caught(MapSorobanError(error))
    <3>1. worker'.at = "send" /\ worker'.tx = worker.tx
      BY <2>0, <2>1, <2>2, <2>4
    <3> QED
      BY <2>0, <3>1
  <2> QED
    BY <2>3, <2>4
<1>8. CASE PollFinality
  <2>1. worker' = NoWork \/ worker' = [worker EXCEPT !.at = "fresh"]
    BY <1>8 DEF PollFinality, EndJob
  <2>2. worker'.at \in {"idle", "fresh"}
    BY <1>1, <1>2, <2>1 DEF Worker
  <2> QED
    BY <2>2
<1>9. CASE ReadFresh
  <2> DEFINE v == FreshVerdict(worker.job.pay)
  <2>1. worker' = NoWork \/ worker' = [worker EXCEPT !.at = "apply", !.arg = v]
    BY <1>9 DEF ReadFresh, EndJob
  <2> HIDE DEF v
  <2>2. \/ worker'.at = "idle"
        \/ worker'.at = "apply" /\ worker'.arg = v
    BY <1>1, <1>2, <2>1 DEF Worker
  <2>3. worker.at = "fresh"
    BY <1>9 DEF ReadFresh
  <2> QED
    BY <2>2, <2>3 DEF v
<1>10. CASE ApplyOutcome
  <2>1. worker' = NoWork \/ worker' = [worker EXCEPT !.at = "tag"]
    BY <1>10 DEF ApplyOutcome
  <2>2. worker'.at \in {"idle", "tag"}
    BY <1>1, <1>2, <2>1 DEF Worker
  <2> QED
    BY <1>10, <2>2
<1>11. CASE TagReason
  BY <1>2, <1>11 DEF TagReason, EndJob
<1> QED
  BY <1>5, <1>6, <1>7, <1>8, <1>9, <1>10, <1>11 DEF Processor

\* An escrow only moves forward, and a ledger alone moves it.
LEMMA ChainIsAhead ==
  ASSUME TypeInv, [Next]_vars, NEW p \in Payments
  PROVE  \/ escrow'[p] = escrow[p]
         \/ \E tx \in pending :
              /\ tx.pay = p
              /\ Ledger(tx) /\ Include(tx)
              /\ Allows(tx.kind, p)
              /\ escrow'[p] = After(tx.kind)
<1>0. escrow \in [Payments -> EscrowStatus]
  BY DEF TypeInv, EscrowTypeOK, ChainTypeOK
<1>1. ASSUME NEW tx \in pending, Ledger(tx)
      PROVE  \/ escrow'[p] = escrow[p]
             \/ /\ tx.pay = p
                /\ Ledger(tx) /\ Include(tx)
                /\ Allows(tx.kind, p)
                /\ escrow'[p] = After(tx.kind)
  <2>1. tx.pay \in Payments
    BY DEF TypeInv, EscrowTypeOK, ChainTypeOK, Transaction
  <2> QED
    BY <1>0, <1>1, <2>1 DEF Ledger, Include, Drop
<1>2. ASSUME NEW q \in Payments, Services(q)
      PROVE  UNCHANGED escrow
  BY <1>2
  DEF Services, Initiate, SaveAwaiting, Release, AskChain, ApplyAnswer, Sweep,
      BookRefund, SendRefund, chainVars
<1>3. ASSUME Processor PROVE UNCHANGED escrow
  BY <1>3
  DEF Processor, StartJob, BuildTx, SendAccepted, SendUnreachable, SendTransient,
      SendRejected, PollFinality, ReadFresh, ApplyOutcome, TagReason, Stall,
      chainVars
<1> QED
  BY <1>1, <1>2, <1>3 DEF Next, vars, chainVars

\* So what has been funded stays so.
LEMMA FundedStays ==
  ASSUME TypeInv, [Next]_vars, NEW p \in Payments, escrow[p] # "NOT_FOUND"
  PROVE  escrow'[p] # "NOT_FOUND"
<1>1. \A tx \in pending : After(tx.kind) # "NOT_FOUND"
  <2> SUFFICES ASSUME NEW tx \in pending PROVE After(tx.kind) # "NOT_FOUND"
    OBVIOUS
  <2>1. tx.kind \in Kinds
    BY DEF TypeInv, EscrowTypeOK, ChainTypeOK, Transaction
  <2> QED
    BY <2>1 DEF After, Kinds
<1> QED
  BY <1>1, ChainIsAhead

\* apply() leads to CONFIRMED for one verdict and to FAILED for the other.
LEMMA ApplyMoves ==
  ASSUME TypeInv, NEW p \in Payments, NEW outcome, Apply(p, outcome)
  PROVE  /\ \A q \in Payments : q # p => status'[q] = status[q]
         /\ \/ status'[p] = status[p]
            \/ outcome = "confirmed" /\ status'[p] = "CONFIRMED"
            \/ outcome # "confirmed" /\ status'[p] = "FAILED"
BY DEF TypeInv, EscrowTypeOK, Apply

(***************************************************************************)
(* A payment that counts as paid has a funded escrow.                      *)
(***************************************************************************)

\* The answer a reconciliation pass holds, and the verdict the worker holds,
\* were read from a funded escrow if they confirm.
ConfirmedIsFunded ==
  /\ \A p \in Payments : asked[p] = "confirmed" => escrow[p] # "NOT_FOUND"
  /\ worker.at = "apply" /\ worker.arg = "confirmed" =>
       escrow[worker.job.pay] # "NOT_FOUND"

PaidInv == TypeInv /\ PaidOnlyIfEscrowed /\ ConfirmedIsFunded

\* What the services do to a payment's status, and to the answer they hold.
LEMMA ServicesMove ==
  ASSUME TypeInv, NEW q \in Payments, Services(q), NEW p \in Payments
  PROVE  /\ UNCHANGED <<worker, chainVars>>
         /\ \/ status'[p] = status[p]
            \/ status[p] \in OpenStatuses \cup {"ABSENT"}
               /\ status'[p] \in OpenStatuses \cup {"EXPIRED"}
            \/ status[p] \in RefundableStatuses
               /\ status'[p] \in {"REFUNDED", "PARTIALLY_REFUNDED"}
            \/ asked[p] = "confirmed" /\ status'[p] = "CONFIRMED"
            \/ /\ asked[p] \notin {"none", "confirmed"}
               /\ status'[p] = "FAILED"
               /\ reason'[p] = "DECLINED"
         /\ asked'[p] \in {asked[p], "none", VerifyByReference(p)}
<1>0. /\ status \in [Payments -> Statuses \cup {"ABSENT"}]
      /\ asked \in [Payments -> {"none", "confirmed", "failed"}]
      /\ reason \in [Payments -> FailureReasons]
  BY DEF TypeInv, EscrowTypeOK
<1>1. CASE ApplyAnswer(q)
  <2>1. Apply(q, asked[q]) /\ asked[q] # "none"
    BY <1>1 DEF ApplyAnswer
  <2>2. /\ q # p => status'[p] = status[p]
        /\ q = p => \/ status'[p] = status[p]
                    \/ asked[p] = "confirmed" /\ status'[p] = "CONFIRMED"
                    \/ asked[p] # "confirmed" /\ status'[p] = "FAILED"
    BY <2>1, ApplyMoves
  <2>3. q = p /\ status'[p] = "FAILED" => reason'[p] = "DECLINED"
    BY <1>0, <1>1 DEF ApplyAnswer
  <2> QED
    BY <1>0, <1>1, <2>1, <2>2, <2>3 DEF ApplyAnswer
<1>2. CASE Initiate(q) \/ SaveAwaiting(q) \/ Release(q) \/ SendRefund(q)
  BY <1>0, <1>2
  DEF Initiate, SaveAwaiting, Release, SendRefund, OpenStatuses, paymentVars
<1>3. CASE AskChain(q)
  BY <1>0, <1>3 DEF AskChain
<1>4. CASE Sweep(q)
  BY <1>0, <1>4 DEF Sweep
<1>5. ASSUME NEW amount \in RefundAmounts, BookRefund(q, amount)
      PROVE  /\ UNCHANGED <<worker, chainVars, asked>>
             /\ \/ status'[p] = status[p]
                \/ status[p] \in RefundableStatuses
                   /\ status'[p] \in {"REFUNDED", "PARTIALLY_REFUNDED"}
  BY <1>0, <1>5 DEF BookRefund
<1> QED
  BY <1>1, <1>2, <1>3, <1>4, <1>5 DEF Services

\* The processor changes a status only by applying a verdict.
LEMMA ProcessorMoves ==
  ASSUME TypeInv, Processor, NEW p \in Payments
  PROVE  /\ UNCHANGED asked
         /\ \/ status'[p] = status[p]
            \/ /\ ApplyOutcome
               /\ worker.job.pay = p
               /\ \/ worker.arg = "confirmed" /\ status'[p] = "CONFIRMED"
                  \/ worker.arg = "failed" /\ status'[p] = "FAILED"
<1>1. CASE StartJob \/ Stall
  BY <1>1, QueueStep DEF paymentVars
<1>2. CASE ~StartJob /\ ~Stall
  <2>1. UNCHANGED asked /\ worker.job.pay \in Payments
    BY <1>2, WorkerStep DEF Job
  <2>2. CASE ApplyOutcome
    <3>1. Apply(worker.job.pay, worker.arg)
      BY <2>2 DEF ApplyOutcome
    <3>2. worker.arg \in {"confirmed", "failed"}
      BY <2>2 DEF ApplyOutcome, At, TypeInv, WorkerOK, Worker, Outcomes
    <3> DEFINE q == worker.job.pay
               outcome == worker.arg
    <3>3. q \in Payments /\ Apply(q, outcome) /\ outcome \in {"confirmed", "failed"}
      BY <2>1, <3>1, <3>2
    <3> HIDE DEF q, outcome
    <3>4. /\ q # p => status'[p] = status[p]
          /\ q = p => \/ status'[p] = status[p]
                      \/ outcome = "confirmed" /\ status'[p] = "CONFIRMED"
                      \/ outcome = "failed" /\ status'[p] = "FAILED"
      BY <3>3, ApplyMoves
    <3> QED
      BY <2>1, <2>2, <3>4 DEF q, outcome
  <2>3. CASE ~ApplyOutcome
    BY <1>2, <2>1, <2>3
    DEF Processor, BuildTx, SendAccepted, SendUnreachable, SendTransient,
        SendRejected, PollFinality, ReadFresh, TagReason, paymentVars
  <2> QED
    BY <2>2, <2>3
<1> QED
  BY <1>1, <1>2

LEMMA PaidInvInit ==
  Init => PaidInv
<1> SUFFICES ASSUME Init PROVE PaidInv
  OBVIOUS
<1>1. /\ \A p \in Payments : status[p] = "ABSENT" /\ asked[p] = "none"
      /\ worker.at = "idle"
  BY DEF Init, NoWork
<1> QED
  BY <1>1, TypeInvInit DEF PaidInv, PaidOnlyIfEscrowed, PaidStatuses, ConfirmedIsFunded

LEMMA PaidInvStep ==
  PaidInv /\ [Next]_vars => PaidInv'
<1> SUFFICES ASSUME PaidInv, [Next]_vars PROVE PaidInv'
  OBVIOUS
<1>0. TypeInv /\ TypeInv' /\ PaidOnlyIfEscrowed /\ ConfirmedIsFunded
  BY TypeInvStep DEF PaidInv
<1>1. \A p \in Payments : escrow[p] # "NOT_FOUND" => escrow'[p] # "NOT_FOUND"
  BY <1>0, FundedStays
<1>2. CASE UNCHANGED vars
  BY <1>0, <1>2
  DEF vars, chainVars, paymentVars, PaidInv, PaidOnlyIfEscrowed, ConfirmedIsFunded
<1>3. CASE \E q \in Payments : Services(q)
  <2>1. PICK q \in Payments : Services(q)
    BY <1>3
  <2>2. ASSUME NEW p \in Payments
        PROVE  /\ status'[p] \in PaidStatuses => escrow'[p] # "NOT_FOUND"
               /\ asked'[p] = "confirmed" => escrow'[p] # "NOT_FOUND"
               /\ UNCHANGED worker
    <3>1. /\ status[p] \in PaidStatuses => escrow[p] # "NOT_FOUND"
          /\ asked[p] = "confirmed" => escrow[p] # "NOT_FOUND"
      BY <1>0 DEF PaidOnlyIfEscrowed, ConfirmedIsFunded
    <3>2. VerifyByReference(p) = "confirmed" => escrow[p] # "NOT_FOUND"
      BY DEF VerifyByReference
    <3>3. UNCHANGED worker /\ asked'[p] \in {asked[p], "none", VerifyByReference(p)}
      BY <1>0, <2>1, ServicesMove
    <3>4. \/ status'[p] = status[p]
          \/ status'[p] \in OpenStatuses \cup {"EXPIRED", "FAILED"}
          \/ status[p] \in RefundableStatuses
          \/ asked[p] = "confirmed"
      BY <1>0, <2>1, ServicesMove
    <3> QED
      BY <1>1, <3>1, <3>2, <3>3, <3>4 DEF PaidStatuses, OpenStatuses, RefundableStatuses
  <2>3. UNCHANGED worker
    BY <1>0, <2>1, ServicesMove
  <2>4. worker.at = "apply" => worker.job.pay \in Payments
    BY <1>0 DEF TypeInv, WorkerOK, Job
  <2> QED
    BY <1>0, <1>1, <2>2, <2>3, <2>4 DEF PaidInv, PaidOnlyIfEscrowed, ConfirmedIsFunded
<1>4. CASE Processor
  <2>1. \A p \in Payments :
          /\ asked'[p] = asked[p]
          /\ \/ status'[p] = status[p]
             \/ status'[p] = "FAILED"
             \/ At("apply") /\ worker.arg = "confirmed" /\ worker.job.pay = p
    BY <1>0, <1>4, ProcessorMoves DEF ApplyOutcome
  <2>2. PaidOnlyIfEscrowed'
    BY <1>0, <1>1, <2>1 DEF PaidOnlyIfEscrowed, ConfirmedIsFunded, PaidStatuses, At
  <2>3. \A p \in Payments : asked'[p] = "confirmed" => escrow'[p] # "NOT_FOUND"
    BY <1>0, <1>1, <2>1 DEF ConfirmedIsFunded
  <2>4. ASSUME worker'.at = "apply", worker'.arg = "confirmed"
        PROVE  escrow'[worker'.job.pay] # "NOT_FOUND"
    <3>1. ~StartJob /\ ~Stall
      BY <1>0, <2>4, QueueStep
    <3>2. FreshVerdict(worker.job.pay) = "confirmed"
      BY <1>0, <1>4, <2>4, <3>1, WorkerArrives
    <3>3. worker'.job = worker.job /\ worker.job.pay \in Payments
      BY <1>0, <1>4, <2>4, <3>1, WorkerStep DEF Job
    <3>4. escrow[worker.job.pay] # "NOT_FOUND"
      BY <3>2 DEF FreshVerdict
    <3> QED
      BY <1>1, <3>3, <3>4
  <2> QED
    BY <1>0, <2>2, <2>3, <2>4 DEF PaidInv, ConfirmedIsFunded
<1>5. CASE \E tx \in pending : Ledger(tx)
  <2>1. UNCHANGED <<status, asked, worker>>
    BY <1>5 DEF Ledger, paymentVars
  <2>2. worker.at = "apply" => worker.job.pay \in Payments
    BY <1>0 DEF TypeInv, WorkerOK, Job
  <2> QED
    BY <1>0, <1>1, <2>1, <2>2 DEF PaidInv, PaidOnlyIfEscrowed, ConfirmedIsFunded
<1> QED
  BY <1>2, <1>3, <1>4, <1>5 DEF Next

\* A payment counts as paid only if its escrow has been funded, whatever became
\* of the transaction, of its job and of the passes that asked in between.
THEOREM PaidIsEscrowed ==
  Spec => []PaidOnlyIfEscrowed
<1>1. PaidInv => PaidOnlyIfEscrowed
  BY DEF PaidInv
<1> QED
  BY <1>1, PaidInvInit, PaidInvStep, PTL DEF Spec

(***************************************************************************)
(* Whatever the treasury does goes back to a booking.                      *)
(***************************************************************************)

Enqueued(kind, p) == [kind |-> kind, pay |-> p] \in jobIds

\* Each refund job was booked; each job that waits or runs was enqueued; and
\* each transaction that is signed or on its way was made for its job.
JobsAreGrounded ==
  /\ \A p \in Payments :
       Enqueued("refund", p) \/ unsent[p] > 0 => refunded[p] > 0
  /\ \A i \in 1..Len(queue) : queue[i] \in jobIds
  /\ worker.at # "idle" => worker.job \in jobIds
  /\ worker.at \in {"send", "poll"} =>
       worker.tx.kind = worker.job.kind /\ worker.tx.pay = worker.job.pay
  /\ \A tx \in pending : Enqueued(tx.kind, tx.pay)

GroundedInv == TypeInv /\ JobsAreGrounded /\ RefundedOnlyIfBooked

LEMMA GroundedInit ==
  Init => GroundedInv
<1> SUFFICES ASSUME Init PROVE GroundedInv
  OBVIOUS
<1>1. JobsAreGrounded
  BY DEF Init, JobsAreGrounded, Enqueued, NoWork, ChainInit
<1>2. RefundedOnlyIfBooked
  BY DEF Init, RefundedOnlyIfBooked, ChainInit
<1> QED
  BY <1>1, <1>2, TypeInvInit DEF GroundedInv

\* Jobs are enqueued with their ids, and none is forgotten.
LEMMA EnqueueGrounds ==
  ASSUME TypeInv, NEW kind \in Kinds, NEW p \in Payments, Enqueue(kind, p),
         \A i \in 1..Len(queue) : queue[i] \in jobIds
  PROVE  /\ jobIds' = jobIds \cup {[kind |-> kind, pay |-> p]}
         /\ \A i \in 1..Len(queue') : queue'[i] \in jobIds'
<1> DEFINE job == [kind |-> kind, pay |-> p]
<1>1. job \in Job /\ queue \in Seq(Job)
  BY DEF Job, TypeInv, EscrowTypeOK
<1>2. jobIds' = jobIds \cup {job} /\ queue' \in {queue, Append(queue, job)}
  BY DEF Enqueue
<1> HIDE DEF job
<1>3. \A i \in 1..Len(queue') : queue'[i] \in jobIds'
  <2>1. CASE queue' = queue
    BY <1>2, <2>1
  <2>2. CASE queue' = Append(queue, job)
    <3>1. \A i \in 1..Len(queue') : 
          \/ queue'[i] = job
          \/ i \in 1..Len(queue) /\ queue'[i] = queue[i]
      BY <1>1, <2>2, AppendProperties
    <3> QED
      BY <1>2, <3>1
  <2> QED
    BY <1>2, <2>1, <2>2
<1> QED
  BY <1>2, <1>3 DEF job

\* The services enqueue a refund only for what is booked.
LEMMA ServicesGround ==
  ASSUME TypeInv, JobsAreGrounded, NEW q \in Payments, Services(q)
  PROVE  /\ \A p \in Payments :
              Enqueued("refund", p)' \/ unsent'[p] > 0 => refunded'[p] > 0
         /\ \A i \in 1..Len(queue') : queue'[i] \in jobIds'
         /\ jobIds \subseteq jobIds'
         /\ \A p \in Payments : refunded[p] > 0 => refunded'[p] > 0
<1>0. /\ refunded \in [Payments -> 0..Amount] /\ Amount \in Nat
      /\ unsent \in [Payments -> Nat]
      /\ RefundAmounts \subseteq Nat \ {0}
      /\ \A i \in 1..Len(queue) : queue[i] \in jobIds
      /\ \A p \in Payments : Enqueued("refund", p) \/ unsent[p] > 0 => refunded[p] > 0
  BY RailAssumption DEF TypeInv, EscrowTypeOK, JobsAreGrounded
<1>1. ASSUME NEW kind \in Kinds \ {"refund"}, Enqueue(kind, q),
             UNCHANGED <<unsent, refunded>>
      PROVE  /\ \A p \in Payments :
                  Enqueued("refund", p)' \/ unsent'[p] > 0 => refunded'[p] > 0
             /\ \A i \in 1..Len(queue') : queue'[i] \in jobIds'
             /\ jobIds \subseteq jobIds'
  <2>1. /\ jobIds' = jobIds \cup {[kind |-> kind, pay |-> q]}
        /\ \A i \in 1..Len(queue') : queue'[i] \in jobIds'
    BY <1>0, <1>1, EnqueueGrounds
  <2>2. \A p \in Payments : Enqueued("refund", p)' => Enqueued("refund", p)
    BY <2>1 DEF Enqueued
  <2> QED
    BY <1>0, <1>1, <2>1, <2>2
<1>2. CASE Initiate(q) \/ Release(q)
  BY <1>0, <1>1, <1>2 DEF Initiate, Release, Kinds, paymentVars
<1>3. CASE SaveAwaiting(q) \/ AskChain(q) \/ ApplyAnswer(q) \/ Sweep(q)
  BY <1>0, <1>3 DEF SaveAwaiting, AskChain, ApplyAnswer, Sweep, queueVars, Enqueued
<1>4. ASSUME NEW amount \in RefundAmounts, BookRefund(q, amount)
      PROVE  /\ \A p \in Payments : refunded'[p] > 0 \/ refunded'[p] = refunded[p]
             /\ \A p \in Payments : p # q => unsent'[p] = unsent[p]
             /\ refunded'[q] > 0
             /\ \A p \in Payments : refunded[p] > 0 => refunded'[p] > 0
             /\ UNCHANGED <<queue, jobIds>>
  <2>1. amount > 0 /\ amount \in Nat /\ refunded[q] \in Nat
    BY <1>0
  <2>2. refunded' = [refunded EXCEPT ![q] = refunded[q] + amount]
    BY <1>4 DEF BookRefund
  <2>3. \A p \in Payments : p # q => unsent'[p] = unsent[p]
    BY <1>0, <1>4 DEF BookRefund
  <2>4. UNCHANGED <<queue, jobIds>>
    BY <1>4 DEF BookRefund, queueVars
  <2> QED
    BY <1>0, <2>1, <2>2, <2>3, <2>4
<1>5. CASE \E amount \in RefundAmounts : BookRefund(q, amount)
  BY <1>0, <1>4, <1>5 DEF Enqueued
<1>6. CASE SendRefund(q)
  <2>1. /\ unsent' = [unsent EXCEPT ![q] = @ - 1]
        /\ unsent[q] > 0 /\ refunded[q] > 0
        /\ UNCHANGED refunded
        /\ Enqueue("refund", q) \/ UNCHANGED <<queue, jobIds>>
    BY <1>0, <1>6 DEF SendRefund
  <2>2. /\ \A i \in 1..Len(queue') : queue'[i] \in jobIds'
        /\ jobIds \subseteq jobIds'
        /\ \A p \in Payments : p # q /\ Enqueued("refund", p)' => Enqueued("refund", p)
    <3>1. CASE Enqueue("refund", q)
      <4>1. "refund" \in Kinds
        BY DEF Kinds
      <4>2. /\ jobIds' = jobIds \cup {[kind |-> "refund", pay |-> q]}
            /\ \A i \in 1..Len(queue') : queue'[i] \in jobIds'
        BY <1>0, <3>1, <4>1, EnqueueGrounds
      <4> QED
        BY <4>2 DEF Enqueued
    <3>2. CASE UNCHANGED <<queue, jobIds>>
      BY <1>0, <3>2 DEF Enqueued
    <3> QED
      BY <2>1, <3>1, <3>2
  <2>3. \A p \in Payments : p # q => unsent'[p] = unsent[p]
    BY <1>0, <2>1
  <2> QED
    BY <1>0, <2>1, <2>2, <2>3
<1> QED
  BY <1>2, <1>3, <1>5, <1>6, <1>0, <1>1 DEF Services, Initiate, Release, Kinds, paymentVars

\* The processor makes transactions for its job only.
LEMMA ProcessorGrounds ==
  ASSUME TypeInv, JobsAreGrounded, Processor
  PROVE  JobsAreGrounded' /\ UNCHANGED <<escrow, refunded>>
<1>0. /\ queue \in Seq(Job)
      /\ \A i \in 1..Len(queue) : queue[i] \in jobIds
      /\ worker.at # "idle" => worker.job \in jobIds
  BY DEF TypeInv, EscrowTypeOK, JobsAreGrounded
<1>1. CASE StartJob
  <2>1. queue # <<>> /\ queue' = Tail(queue) /\ UNCHANGED jobIds
    BY <1>1 DEF StartJob
  <2>2. Head(queue) = queue[1] /\ 1 \in 1..Len(queue)
    BY <1>0, <2>1
  <2>3. Head(queue) \in jobIds
    BY <1>0, <2>2
  <2>4. \A i \in 1..Len(queue') : i + 1 \in 1..Len(queue) /\ queue'[i] = queue[i + 1]
    BY <1>0, <2>1, HeadTailProperties
  <2>5. \A i \in 1..Len(queue') : queue'[i] \in jobIds
    BY <1>0, <2>4
  <2>6. [NoWork EXCEPT !.at = "build", !.job = Head(queue)].job = Head(queue)
    BY DEF NoWork
  <2>7. worker'.at \in {"idle", "build"} /\ (worker'.at # "idle" => worker'.job \in jobIds)
    <3>1. \/ worker' = [NoWork EXCEPT !.at = "build", !.job = Head(queue)]
          \/ worker' = NoWork
      BY <1>1 DEF StartJob, EndJob
    <3>2. worker'.at \in {"idle", "build"}
      BY <1>1, QueueStep
    <3>3. NoWork.at = "idle"
      BY DEF NoWork
    <3> QED
      BY <2>3, <2>6, <3>1, <3>2, <3>3
  <2> QED
    BY <1>1, <2>1, <2>5, <2>7
    DEF StartJob, JobsAreGrounded, Enqueued, chainVars, paymentVars
<1>2. CASE Stall
  <2>1. worker.job \in jobIds /\ worker.job \in Job
    BY <1>0, <1>2 DEF Stall, At, TypeInv, WorkerOK
  <2>2. queue' = <<worker.job>> \o queue /\ UNCHANGED jobIds
    BY <1>2 DEF Stall
  <2>3. \A i \in 1..Len(queue') :
          \/ queue'[i] = worker.job
          \/ \E j \in 1..Len(queue) : queue'[i] = queue[j]
    BY <1>0, <2>1, <2>2, ConcatProperties
  <2>4. \A i \in 1..Len(queue') : queue'[i] \in jobIds
    BY <1>0, <2>1, <2>3
  <2>5. worker'.at = "idle"
    BY <1>2 DEF Stall, EndJob, NoWork
  <2> QED
    BY <1>2, <2>2, <2>4, <2>5
    DEF Stall, JobsAreGrounded, Enqueued, chainVars, paymentVars
<1>3. CASE ~StartJob /\ ~Stall
  <2>1. /\ worker.job \in jobIds /\ worker.job \in Job
        /\ worker'.at # "idle" => worker'.job = worker.job
        /\ UNCHANGED <<queue, jobIds, unsent, refunded>>
    BY <1>0, <1>3, WorkerStep DEF queueVars
  <2>2. worker'.at \in {"send", "poll"} =>
          worker'.tx.kind = worker'.job.kind /\ worker'.tx.pay = worker'.job.pay
    <3>1. ChainTypeOK
      BY DEF TypeInv, EscrowTypeOK
    <3>2. /\ Build(worker.job.kind, worker.job.pay).kind = worker.job.kind
          /\ Build(worker.job.kind, worker.job.pay).pay = worker.job.pay
      BY <2>1, <3>1, BuildOK
    <3>3. worker.at = "send" =>
            worker.tx.kind = worker.job.kind /\ worker.tx.pay = worker.job.pay
      BY DEF JobsAreGrounded
    <3>4. worker'.at \in {"send", "poll"} =>
            \/ worker'.tx = Build(worker.job.kind, worker.job.pay)
            \/ worker.at = "send" /\ worker'.tx = worker.tx
      BY <1>3, WorkerArrives
    <3> QED
      BY <2>1, <3>2, <3>3, <3>4
  <2>3. UNCHANGED escrow /\ \A tx \in pending' : Enqueued(tx.kind, tx.pay)
    <3>0. \A tx \in pending : Enqueued(tx.kind, tx.pay)
      BY DEF JobsAreGrounded
    <3>1. CASE SendAccepted \/ SendUnreachable
      <4>1. /\ worker.at = "send"
            /\ pending' = pending \/ pending' = pending \cup {worker.tx}
            /\ UNCHANGED escrow
        BY <3>1 DEF SendAccepted, SendUnreachable, At, Accept
      <4>2. worker.job = [kind |-> worker.tx.kind, pay |-> worker.tx.pay]
        BY <2>1, <4>1 DEF JobsAreGrounded, Job
      <4>3. Enqueued(worker.tx.kind, worker.tx.pay)
        BY <2>1, <4>2 DEF Enqueued
      <4> QED
        BY <3>0, <4>1, <4>3
    <3>2. CASE ~SendAccepted /\ ~SendUnreachable
      BY <1>3, <3>0, <3>2
      DEF Processor, BuildTx, SendTransient, SendRejected, PollFinality, ReadFresh,
          ApplyOutcome, TagReason, chainVars
    <3> QED
      BY <3>1, <3>2
  <2> QED
    BY <1>0, <2>1, <2>2, <2>3 DEF JobsAreGrounded, Enqueued
<1> QED
  BY <1>1, <1>2, <1>3
  DEF StartJob, Stall, chainVars, paymentVars

LEMMA GroundedStep ==
  GroundedInv /\ [Next]_vars => GroundedInv'
<1> SUFFICES ASSUME GroundedInv, [Next]_vars PROVE GroundedInv'
  OBVIOUS
<1>0. TypeInv /\ TypeInv' /\ JobsAreGrounded /\ RefundedOnlyIfBooked
  BY TypeInvStep DEF GroundedInv
<1>1. CASE UNCHANGED vars
  BY <1>0, <1>1
  DEF vars, chainVars, paymentVars, queueVars, GroundedInv, JobsAreGrounded,
      RefundedOnlyIfBooked, Enqueued
<1>2. CASE \E q \in Payments : Services(q)
  <2>1. PICK q \in Payments : Services(q)
    BY <1>2
  <2>2. \A p \in Payments : UNCHANGED <<worker, chainVars>>
    BY <1>0, <2>1, ServicesMove
  <2>3. UNCHANGED <<worker, pending, escrow>>
    BY <2>1, <2>2 DEF chainVars
  <2>4. JobsAreGrounded'
    BY <1>0, <2>1, <2>3, ServicesGround DEF JobsAreGrounded, Enqueued
  <2>5. RefundedOnlyIfBooked'
    BY <1>0, <2>1, <2>3, ServicesGround DEF RefundedOnlyIfBooked
  <2> QED
    BY <1>0, <2>4, <2>5 DEF GroundedInv
<1>3. CASE Processor
  BY <1>0, <1>3, ProcessorGrounds DEF GroundedInv, RefundedOnlyIfBooked
<1>4. CASE \E tx \in pending : Ledger(tx)
  <2>1. /\ UNCHANGED <<refunded, unsent, queue, jobIds, worker>>
        /\ pending' \subseteq pending
    BY <1>4 DEF Ledger, Include, Drop, paymentVars, queueVars
  <2>2. JobsAreGrounded'
    BY <1>0, <2>1 DEF JobsAreGrounded, Enqueued
  <2>3. ASSUME NEW p \in Payments, escrow'[p] = "REFUNDED"
        PROVE  refunded'[p] > 0
    <3>1. CASE escrow'[p] = escrow[p]
      BY <1>0, <2>1, <2>3, <3>1 DEF RefundedOnlyIfBooked
    <3>2. CASE escrow'[p] # escrow[p]
      <4>1. PICK tx \in pending : tx.pay = p /\ escrow'[p] = After(tx.kind)
        BY <1>0, <3>2, ChainIsAhead
      <4>2. tx.kind = "refund"
        <5>1. tx.kind \in Kinds
          BY <1>0 DEF TypeInv, EscrowTypeOK, ChainTypeOK, Transaction
        <5> QED
          BY <2>3, <4>1, <5>1 DEF After, Kinds
      <4>3. Enqueued("refund", p)
        BY <1>0, <4>1, <4>2 DEF JobsAreGrounded
      <4> QED
        BY <1>0, <2>1, <4>3 DEF JobsAreGrounded
    <3> QED
      BY <3>1, <3>2
  <2> QED
    BY <1>0, <2>2, <2>3 DEF GroundedInv, RefundedOnlyIfBooked
<1> QED
  BY <1>1, <1>2, <1>3, <1>4 DEF Next

\* The treasury gives an escrow back only if a refund of its payment is booked,
\* although the job, its transaction and the ledger all come later, possibly
\* after the worker died and ran the job again.
THEOREM RefundedIsBooked ==
  Spec => []RefundedOnlyIfBooked
<1>1. GroundedInv => RefundedOnlyIfBooked
  BY DEF GroundedInv
<1> QED
  BY <1>1, GroundedInit, GroundedStep, PTL DEF Spec

(***************************************************************************)
(* A failed payment has a reason.                                          *)
(***************************************************************************)

ReasonInv == TypeInv /\ FailedForAReason

\* A stall is the only thing that loses count.
LEMMA StallsKeep ==
  ASSUME TypeInv, [Next]_vars, stalls' = 0
  PROVE  stalls = 0 /\ ~Stall
<1>0. stalls \in Nat
  BY RailAssumption DEF TypeInv, EscrowTypeOK
<1>1. ~Stall
  BY <1>0 DEF Stall
<1>2. UNCHANGED stalls
  <2>1. CASE \E p \in Payments : Services(p)
    BY <2>1
    DEF Services, Initiate, SaveAwaiting, Release, AskChain, ApplyAnswer, Sweep,
        BookRefund, SendRefund, queueVars
  <2>2. CASE Processor
    BY <1>1, <2>2, WorkerStep DEF StartJob, queueVars
  <2>3. CASE (\E tx \in pending : Ledger(tx)) \/ UNCHANGED vars
    BY <2>3 DEF Ledger, queueVars, vars
  <2> QED
    BY <2>1, <2>2, <2>3 DEF Next
<1> QED
  BY <1>1, <1>2

\* Reasons are not taken back.
LEMMA ReasonStays ==
  ASSUME TypeInv, [Next]_vars, NEW p \in Payments, reason[p] # "none"
  PROVE  reason'[p] # "none"
<1>0. reason \in [Payments -> FailureReasons]
  BY DEF TypeInv, EscrowTypeOK
<1>1. ASSUME NEW q \in Payments, Services(q)
      PROVE  reason'[p] # "none"
  <2>1. CASE ApplyAnswer(q)
    BY <1>0, <2>1 DEF ApplyAnswer
  <2>2. CASE Sweep(q)
    BY <1>0, <2>2 DEF Sweep
  <2>3. CASE ~ApplyAnswer(q) /\ ~Sweep(q)
    BY <1>1, <2>3
    DEF Services, Initiate, SaveAwaiting, Release, AskChain, BookRefund,
        SendRefund, paymentVars
  <2> QED
    BY <2>1, <2>2, <2>3
<1>2. CASE Processor
  <2>1. CASE TagReason
    BY <1>0, <2>1 DEF TagReason
  <2>2. CASE ~TagReason
    BY <1>2, <2>2
    DEF Processor, StartJob, BuildTx, SendAccepted, SendUnreachable,
        SendTransient, SendRejected, PollFinality, ReadFresh, ApplyOutcome,
        Stall, paymentVars
  <2> QED
    BY <2>1, <2>2
<1>3. CASE (\E tx \in pending : Ledger(tx)) \/ UNCHANGED vars
  BY <1>3 DEF Ledger, paymentVars, vars
<1> QED
  BY <1>1, <1>2, <1>3 DEF Next

LEMMA ReasonInit ==
  Init => ReasonInv
BY TypeInvInit DEF Init, ReasonInv, FailedForAReason

LEMMA ReasonStep ==
  ReasonInv /\ [Next]_vars => ReasonInv'
<1> SUFFICES ASSUME ReasonInv, [Next]_vars PROVE ReasonInv'
  OBVIOUS
<1>0. TypeInv /\ TypeInv' /\ FailedForAReason
  BY TypeInvStep DEF ReasonInv
<1>1. SUFFICES ASSUME NEW p \in Payments,
                      status'[p] = "FAILED",
                      worker'.at = "tag" => worker'.job.pay # p,
                      stalls' = 0
               PROVE  reason'[p] # "none"
  BY <1>0 DEF ReasonInv, FailedForAReason
<1>2. stalls = 0 /\ ~Stall
  BY <1>0, <1>1, StallsKeep
<1>3. CASE reason[p] # "none"
  BY <1>0, <1>3, ReasonStays
<1>4. CASE status[p] = "FAILED" /\ reason[p] = "none"
  <2>1. worker.at = "tag" /\ worker.job.pay = p
    BY <1>0, <1>2, <1>4 DEF FailedForAReason
  <2>2. worker' # worker
    BY <1>1, <2>1
  <2>3. Processor
    <3>1. ASSUME NEW q \in Payments, Services(q) PROVE UNCHANGED worker
      BY <1>0, <1>1, <3>1, ServicesMove
    <3>2. ASSUME NEW tx \in pending, Ledger(tx) PROVE UNCHANGED worker
      BY <3>2 DEF Ledger
    <3> QED
      BY <2>2, <3>1, <3>2 DEF Next, vars
  <2>4. TagReason
    BY <1>2, <2>1, <2>3
    DEF Processor, At, StartJob, BuildTx, SendAccepted, SendUnreachable,
        SendTransient, SendRejected, PollFinality, ReadFresh, ApplyOutcome
  <2> QED
    BY <1>0, <2>1, <2>4 DEF TagReason, TypeInv, EscrowTypeOK
<1>5. CASE status[p] # "FAILED"
  <2>1. CASE Processor
    <3>1. ApplyOutcome /\ worker.job.pay = p /\ worker.arg = "failed"
      BY <1>0, <1>1, <1>5, <2>1, ProcessorMoves
    <3>2. worker' = [worker EXCEPT !.at = "tag"] /\ worker \in Worker
      BY <1>0, <1>1, <3>1 DEF ApplyOutcome, MustTag, TypeInv, WorkerOK
    <3>3. worker'.at = "tag" /\ worker'.job = worker.job
      BY <3>2 DEF Worker
    <3> QED
      BY <1>1, <3>1, <3>3
  <2>2. ASSUME NEW q \in Payments, Services(q)
        PROVE  reason'[p] # "none"
    <3>1. reason'[p] = "DECLINED"
      BY <1>0, <1>1, <1>5, <2>2, ServicesMove DEF OpenStatuses
    <3> QED
      BY <3>1
  <2>3. CASE (\E tx \in pending : Ledger(tx)) \/ UNCHANGED vars
    BY <1>1, <1>5, <2>3 DEF Ledger, paymentVars, vars
  <2> QED
    BY <2>1, <2>2, <2>3 DEF Next
<1> QED
  BY <1>3, <1>4, <1>5

\* Unless the worker died, a failed payment has a reason for it, although the
\* status and the reason are two updates of two callers.
THEOREM FailuresAreExplained ==
  Spec => []FailedForAReason
<1>1. ReasonInv => FailedForAReason
  BY DEF ReasonInv
<1> QED
  BY <1>1, ReasonInit, ReasonStep, PTL DEF Spec

(***************************************************************************)
(* With one endpoint, a failed payment holds no money.                     *)
(***************************************************************************)

CreateJob(p) == [kind |-> "create", pay |-> p]

Waiting(job) == \E i \in 1..Len(queue) : queue[i] = job

\* The escrow of p may still be asked for: its job is to be enqueued, waits, or
\* runs and has not submitted yet.
Unsubmitted(p) ==
  \/ ~Enqueued("create", p)
  \/ Waiting(CreateJob(p))
  \/ worker.at \in {"build", "send"} /\ worker.job = CreateJob(p)

NoneOnItsWay(p) == \A tx \in pending : tx.kind = "create" => tx.pay # p

\* Nothing will fund the escrow of p any more, and it holds nothing.
Settled(p) ==
  /\ ~Unsubmitted(p)
  /\ escrow[p] \notin {"LOCKED", "RELEASED"}
  /\ NoneOnItsWay(p)

JobsRunOnce ==
  /\ \A i, j \in 1..Len(queue) : queue[i] = queue[j] => i = j
  /\ worker.at # "idle" => ~Waiting(worker.job)

\* An account has one transaction on its way at a time.
OnePending == \A tx, other \in pending : Signer(tx) = Signer(other) => tx = other

Settlement ==
  /\ JobsRunOnce
  /\ OnePending
  /\ \A p \in Payments : Unsubmitted(p) => escrow[p] = "NOT_FOUND"
  /\ \A p \in Payments :
       Unsubmitted(p) \/ escrow[p] # "NOT_FOUND" => NoneOnItsWay(p)
  /\ \A p \in Payments :
       status[p] = "FAILED" \/ asked[p] \notin {"none", "confirmed"} => Settled(p)
  /\ worker.at = "apply" /\ worker.arg = "failed" => Settled(worker.job.pay)

SettledInv == GroundedInv /\ (stalls = 0 => Settlement)

LEMMA SettledInit ==
  Init => SettledInv
<1> SUFFICES ASSUME Init PROVE SettledInv
  OBVIOUS
<1>1. /\ Len(queue) = 0 /\ worker.at = "idle" /\ pending = {}
      /\ \A p \in Payments :
           /\ escrow[p] = "NOT_FOUND" /\ status[p] = "ABSENT" /\ asked[p] = "none"
  BY DEF Init, ChainInit, NoWork
<1>2. Settlement
  BY <1>1 DEF Settlement, JobsRunOnce, OnePending, NoneOnItsWay
<1> QED
  BY <1>2, GroundedInit DEF SettledInv

\* What enqueueing adds to the queue is a job that was never seen.
LEMMA EnqueueOnce ==
  ASSUME GroundedInv, NEW kind \in Kinds, NEW q \in Payments, Enqueue(kind, q)
  PROVE  /\ \A job : Waiting(job)' =>
              Waiting(job) \/ job \notin jobIds
         /\ (\A i, j \in 1..Len(queue) : queue[i] = queue[j] => i = j) =>
              \A i, j \in 1..Len(queue') : queue'[i] = queue'[j] => i = j
         /\ \A job \in jobIds : Waiting(job)' => Waiting(job)
         /\ \A p \in Payments : Waiting(CreateJob(p))' =>
              Waiting(CreateJob(p)) \/ ~Enqueued("create", p)
<1> DEFINE new == [kind |-> kind, pay |-> q]
<1>1. new \in Job /\ queue \in Seq(Job) /\ \A i \in 1..Len(queue) : queue[i] \in jobIds
  BY DEF Job, GroundedInv, TypeInv, EscrowTypeOK, JobsAreGrounded
<1>2. queue' = IF new \in jobIds THEN queue ELSE Append(queue, new)
  BY DEF Enqueue
<1> HIDE DEF new
<1>3. CASE new \in jobIds
  <2>1. queue' = queue
    BY <1>2, <1>3
  <2>2. \A job : Waiting(job)' => Waiting(job)
    BY <2>1 DEF Waiting
  <2> QED
    BY <2>1, <2>2
<1>4. CASE new \notin jobIds
  <2>1. /\ Len(queue') = Len(queue) + 1 /\ Len(queue) \in Nat
        /\ \A i \in 1..Len(queue) : queue'[i] = queue[i]
        /\ queue'[Len(queue) + 1] = new
    BY <1>1, <1>2, <1>4, AppendProperties
  <2>2. \A i \in 1..Len(queue') :
          \/ i \in 1..Len(queue) /\ queue'[i] = queue[i]
          \/ i = Len(queue) + 1 /\ queue'[i] = new
    BY <2>1
  <2>3. ASSUME NEW job, Waiting(job)'
        PROVE  Waiting(job) \/ job \notin jobIds
    BY <1>4, <2>2, <2>3 DEF Waiting
  <2>4. \A i \in 1..Len(queue) : queue[i] # new
    BY <1>1, <1>4
  <2>5. ASSUME \A i, j \in 1..Len(queue) : queue[i] = queue[j] => i = j,
               NEW i \in 1..Len(queue'), NEW j \in 1..Len(queue'),
               queue'[i] = queue'[j]
        PROVE  i = j
    BY <2>2, <2>4, <2>5
  <2>6. \A p : CreateJob(p) \notin jobIds => ~Enqueued("create", p)
    BY DEF CreateJob, Enqueued
  <2> QED
    BY <2>3, <2>5, <2>6
<1> QED
  BY <1>3, <1>4

\* Which services touch the queue.
LEMMA ServicesQueue ==
  ASSUME NEW q \in Payments, Services(q)
  PROVE  \/ UNCHANGED queue
         \/ \E kind \in Kinds : Enqueue(kind, q)
BY DEF Services, Initiate, SaveAwaiting, Release, AskChain, ApplyAnswer, Sweep,
       BookRefund, SendRefund, queueVars, paymentVars, Kinds

\* A worker that has not died runs each job once.
LEMMA JobsRunOnceStep ==
  ASSUME GroundedInv, JobsRunOnce, [Next]_vars, stalls' = 0
  PROVE  JobsRunOnce'
<1>0. /\ TypeInv /\ ~Stall
      /\ worker.at # "idle" => worker.job \in jobIds
      /\ queue \in Seq(Job)
  BY StallsKeep DEF GroundedInv, JobsAreGrounded, TypeInv, EscrowTypeOK
<1>1. ASSUME NEW q \in Payments, Services(q)
      PROVE  JobsRunOnce'
  <2>1. UNCHANGED worker
    BY <1>0, <1>1, ServicesMove
  <2>2. CASE UNCHANGED queue
    BY <2>1, <2>2 DEF JobsRunOnce, Waiting
  <2>3. ASSUME NEW kind \in Kinds, Enqueue(kind, q)
        PROVE  JobsRunOnce'
    <3>1. /\ \A i, j \in 1..Len(queue') : queue'[i] = queue'[j] => i = j
          /\ \A job \in jobIds : Waiting(job)' => Waiting(job)
      BY <2>3, EnqueueOnce DEF JobsRunOnce
    <3> QED
      BY <1>0, <2>1, <3>1 DEF JobsRunOnce, Waiting
  <2> QED
    BY <1>1, <2>2, <2>3, ServicesQueue
<1>2. CASE Processor
  <2>1. CASE StartJob
    <3>1. queue # <<>> /\ queue' = Tail(queue)
      BY <2>1 DEF StartJob
    <3>2. /\ Len(queue') = Len(queue) - 1 /\ Len(queue) \in Nat
          /\ Head(queue) = queue[1] /\ 1 \in 1..Len(queue)
          /\ \A i \in 1..Len(queue') :
               i + 1 \in 1..Len(queue) /\ queue'[i] = queue[i + 1]
      BY <1>0, <3>1, HeadTailProperties
    <3>3. \A i, j \in 1..Len(queue') : queue'[i] = queue'[j] => i = j
      <4> SUFFICES ASSUME NEW i \in 1..Len(queue'), NEW j \in 1..Len(queue'),
                          queue'[i] = queue'[j]
                   PROVE  i = j
        OBVIOUS
      <4>1. i + 1 = j + 1
        BY <3>2 DEF JobsRunOnce
      <4> QED
        BY <3>2, <4>1
    <3>4. \A i \in 1..Len(queue') : queue'[i] # Head(queue)
      <4> SUFFICES ASSUME NEW i \in 1..Len(queue'), queue'[i] = Head(queue)
                   PROVE  FALSE
        OBVIOUS
      <4>1. i + 1 = 1
        BY <3>2 DEF JobsRunOnce
      <4> QED
        BY <3>2, <4>1
    <3>5. \/ worker'.at = "idle"
          \/ worker'.job = Head(queue)
      <4>1. \/ worker' = [NoWork EXCEPT !.at = "build", !.job = Head(queue)]
            \/ worker' = NoWork
        BY <2>1 DEF StartJob, EndJob
      <4>2. /\ [NoWork EXCEPT !.at = "build", !.job = Head(queue)].job = Head(queue)
            /\ NoWork.at = "idle"
        BY DEF NoWork
      <4> QED
        BY <4>1, <4>2
    <3> QED
      BY <3>3, <3>4, <3>5 DEF JobsRunOnce, Waiting
  <2>2. CASE ~StartJob
    <3>1. /\ worker.at # "idle" /\ UNCHANGED queue
          /\ worker'.at # "idle" => worker'.job = worker.job
      BY <1>0, <1>2, <2>2, WorkerStep DEF queueVars
    <3> QED
      BY <3>1 DEF JobsRunOnce, Waiting
  <2> QED
    BY <2>1, <2>2
<1>3. CASE (\E tx \in pending : Ledger(tx)) \/ UNCHANGED vars
  <2>1. UNCHANGED <<queue, worker>>
    BY <1>3 DEF Ledger, queueVars, vars
  <2> QED
    BY <2>1 DEF JobsRunOnce, Waiting
<1> QED
  BY <1>1, <1>2, <1>3 DEF Next

\* A create that has been submitted, or given up, is not attempted again.
LEMMA SubmittedOnce ==
  ASSUME GroundedInv, JobsRunOnce, [Next]_vars, stalls' = 0,
         NEW p \in Payments, Unsubmitted(p)'
  PROVE  Unsubmitted(p)
<1>0. /\ TypeInv /\ ~Stall
      /\ worker.at # "idle" => worker.job \in jobIds
      /\ queue \in Seq(Job)
  BY StallsKeep DEF GroundedInv, JobsAreGrounded, TypeInv, EscrowTypeOK
<1>1. ASSUME NEW q \in Payments, Services(q)
      PROVE  Unsubmitted(p)
  <2>1. UNCHANGED worker /\ jobIds \subseteq jobIds'
    BY <1>0, <1>1, ServicesMove, ServicesGround DEF GroundedInv
  <2>2. Waiting(CreateJob(p))' => Waiting(CreateJob(p)) \/ ~Enqueued("create", p)
    <3>1. CASE UNCHANGED queue
      BY <3>1 DEF Waiting
    <3>2. ASSUME NEW kind \in Kinds, Enqueue(kind, q)
          PROVE  Waiting(CreateJob(p))' =>
                   Waiting(CreateJob(p)) \/ ~Enqueued("create", p)
      BY <3>2, EnqueueOnce
    <3> QED
      BY <1>1, <3>1, <3>2, ServicesQueue
  <2> QED
    BY <2>1, <2>2 DEF Unsubmitted, Enqueued
<1>2. CASE StartJob
  <2>1. queue # <<>> /\ queue' = Tail(queue) /\ UNCHANGED jobIds
    BY <1>2 DEF StartJob
  <2>2. /\ Head(queue) = queue[1] /\ 1 \in 1..Len(queue)
        /\ \A i \in 1..Len(queue') :
             i + 1 \in 1..Len(queue) /\ queue'[i] = queue[i + 1]
    BY <1>0, <2>1, HeadTailProperties
  <2>3. Waiting(CreateJob(p))' => Waiting(CreateJob(p))
    BY <2>2 DEF Waiting
  <2>4. worker'.at = "idle" \/ worker'.job = Head(queue)
    <3>1. \/ worker' = [NoWork EXCEPT !.at = "build", !.job = Head(queue)]
          \/ worker' = NoWork
      BY <1>2 DEF StartJob, EndJob
    <3>2. /\ [NoWork EXCEPT !.at = "build", !.job = Head(queue)].job = Head(queue)
          /\ NoWork.at = "idle"
      BY DEF NoWork
    <3> QED
      BY <3>1, <3>2
  <2> QED
    BY <2>1, <2>2, <2>3, <2>4 DEF Unsubmitted, Enqueued, Waiting
<1>3. CASE Processor /\ ~StartJob
  <2>1. /\ worker'.at # "idle" => worker'.job = worker.job
        /\ UNCHANGED <<queue, jobIds>>
    BY <1>0, <1>3, WorkerStep DEF queueVars
  <2>2. worker'.at \in {"build", "send"} => worker.at \in {"build", "send"}
    BY <1>0, <1>3, WorkerArrives
  <2> QED
    BY <2>1, <2>2 DEF Unsubmitted, Enqueued, Waiting
<1>4. CASE (\E tx \in pending : Ledger(tx)) \/ UNCHANGED vars
  <2>1. UNCHANGED <<queue, jobIds, worker>>
    BY <1>4 DEF Ledger, queueVars, vars
  <2> QED
    BY <2>1 DEF Unsubmitted, Enqueued, Waiting
<1> QED
  BY <1>1, <1>2, <1>3, <1>4 DEF Next

\* With one endpoint, a worker that has handed its transaction over has left
\* the attempt behind; nobody else hands one over.
LEMMA OneAttempt ==
  ASSUME Endpoints = 1, GroundedInv, JobsRunOnce, [Next]_vars, stalls' = 0
  PROVE  \/ pending' \subseteq pending
         \/ /\ worker.at = "send"
            /\ PoolFree(worker.tx)
            /\ pending' = pending \cup {worker.tx}
            /\ worker'.at \in {"idle", "poll", "fresh"}
            /\ UNCHANGED <<queue, jobIds, escrow>>
<1>0. TypeInv /\ ~Stall
  BY StallsKeep DEF GroundedInv
<1>1. ASSUME NEW q \in Payments, Services(q)
      PROVE  pending' \subseteq pending
  BY <1>0, <1>1, ServicesMove DEF chainVars
<1>2. CASE SendAccepted
  <2>1. worker' = [worker EXCEPT !.at = "poll"] /\ worker \in Worker
    BY <1>0, <1>2 DEF SendAccepted, TypeInv, WorkerOK
  <2>2. worker'.at = "poll"
    BY <2>1 DEF Worker
  <2> QED
    BY <1>2, <2>2 DEF SendAccepted, Accept, At, queueVars
<1>3. CASE SendUnreachable
  <2>1. worker' = NextEndpoint /\ worker.endpoint \in 1..Endpoints
    BY <1>0, <1>3 DEF SendUnreachable, TypeInv, WorkerOK, Worker
  <2>2. worker' = Caught("indeterminate")
    BY <2>1 DEF NextEndpoint, MapSorobanError
  <2>3. worker'.at = "idle"
    BY <2>2 DEF Caught, NoWork
  <2> QED
    BY <1>3, <2>3 DEF SendUnreachable, Accept, At, queueVars
<1>4. CASE Processor /\ ~SendAccepted /\ ~SendUnreachable
  BY <1>0, <1>4
  DEF Processor, StartJob, BuildTx, SendTransient, SendRejected, PollFinality,
      ReadFresh, ApplyOutcome, TagReason, chainVars
<1>5. CASE (\E tx \in pending : Ledger(tx)) \/ UNCHANGED vars
  BY <1>5 DEF Ledger, Include, Drop, vars, chainVars
<1> QED
  BY <1>1, <1>2, <1>3, <1>4, <1>5 DEF Next

\* So a transaction that is new on its way belongs to an attempt that was
\* pending, and is pending no more.
LEMMA NewOnItsWay ==
  ASSUME Endpoints = 1, GroundedInv, JobsRunOnce, [Next]_vars, stalls' = 0,
         NEW p \in Payments, NoneOnItsWay(p)
  PROVE  \/ NoneOnItsWay(p)'
         \/ Unsubmitted(p) /\ ~Unsubmitted(p)' /\ UNCHANGED escrow
<1>1. CASE pending' \subseteq pending
  BY <1>1 DEF NoneOnItsWay
<1>2. CASE /\ worker.at = "send"
           /\ pending' = pending \cup {worker.tx}
           /\ worker'.at \in {"idle", "poll", "fresh"}
           /\ UNCHANGED <<queue, jobIds, escrow>>
  <2>1. CASE worker.tx.kind = "create" => worker.tx.pay # p
    BY <1>2, <2>1 DEF NoneOnItsWay
  <2>2. CASE worker.tx.kind = "create" /\ worker.tx.pay = p
    <3>1. worker.job \in Job /\ worker.job \in jobIds
      BY <1>2 DEF GroundedInv, TypeInv, WorkerOK, JobsAreGrounded
    <3>2. worker.job.kind = "create" /\ worker.job.pay = p
      BY <1>2, <2>2 DEF GroundedInv, JobsAreGrounded
    <3>3. worker.job = CreateJob(p)
      BY <3>1, <3>2 DEF Job, CreateJob
    <3>4. Unsubmitted(p)
      BY <1>2, <3>3 DEF Unsubmitted
    <3>5. ~Waiting(CreateJob(p)) /\ Enqueued("create", p)
      BY <1>2, <3>1, <3>3 DEF JobsRunOnce, Enqueued, CreateJob
    <3>6. ~Unsubmitted(p)'
      BY <1>2, <3>5 DEF Unsubmitted, Enqueued, Waiting
    <3> QED
      BY <1>2, <3>4, <3>6
  <2> QED
    BY <2>1, <2>2
<1> QED
  BY <1>1, <1>2, OneAttempt

\* A payment that is settled stays so.
LEMMA SettledStays ==
  ASSUME Endpoints = 1, GroundedInv, JobsRunOnce, [Next]_vars, stalls' = 0,
         NEW p \in Payments, Settled(p)
  PROVE  Settled(p)'
<1>0. TypeInv
  BY DEF GroundedInv
<1>1. ~Unsubmitted(p)'
  BY SubmittedOnce DEF Settled
<1>2. NoneOnItsWay(p)'
  BY NewOnItsWay DEF Settled
<1>3. escrow'[p] \notin {"LOCKED", "RELEASED"}
  <2>1. CASE escrow'[p] = escrow[p]
    BY <2>1 DEF Settled
  <2>2. CASE escrow'[p] # escrow[p]
    <3>1. PICK tx \in pending : tx.pay = p /\ Allows(tx.kind, p)
      BY <1>0, <2>2, ChainIsAhead
    <3>2. tx.kind # "create"
      BY <3>1 DEF Settled, NoneOnItsWay
    <3> QED
      BY <3>1, <3>2 DEF Allows, Settled
  <2> QED
    BY <2>1, <2>2
<1> QED
  BY <1>1, <1>2, <1>3 DEF Settled

\* What has been refunded is settled.
LEMMA RefundedIsSettled ==
  ASSUME Settlement, NEW p \in Payments, escrow[p] = "REFUNDED"
  PROVE  Settled(p)
BY DEF Settlement, Settled

\* An account still has one transaction on its way.
LEMMA OnePendingStep ==
  ASSUME Endpoints = 1, GroundedInv, JobsRunOnce, OnePending, [Next]_vars,
         stalls' = 0
  PROVE  OnePending'
<1>1. CASE pending' \subseteq pending
  BY <1>1 DEF OnePending, Signer
<1>2. CASE PoolFree(worker.tx) /\ pending' = pending \cup {worker.tx}
  BY <1>2 DEF OnePending, PoolFree, Signer
<1> QED
  BY <1>1, <1>2, OneAttempt

\* What has not been submitted has no escrow, and none on its way; nor has
\* what has an escrow already.
LEMMA UnsubmittedStep ==
  ASSUME Endpoints = 1, GroundedInv, Settlement, [Next]_vars, stalls' = 0,
         NEW p \in Payments
  PROVE  /\ Unsubmitted(p)' => escrow'[p] = "NOT_FOUND"
         /\ Unsubmitted(p)' \/ escrow'[p] # "NOT_FOUND" => NoneOnItsWay(p)'
<1>0. /\ TypeInv /\ JobsRunOnce /\ OnePending
      /\ Unsubmitted(p) => escrow[p] = "NOT_FOUND"
      /\ Unsubmitted(p) \/ escrow[p] # "NOT_FOUND" => NoneOnItsWay(p)
      /\ Unsubmitted(p)' => Unsubmitted(p)
  BY SubmittedOnce DEF GroundedInv, Settlement
<1>1. ASSUME Unsubmitted(p)' PROVE escrow'[p] = "NOT_FOUND"
  <2>1. escrow[p] = "NOT_FOUND" /\ NoneOnItsWay(p)
    BY <1>0, <1>1
  <2>2. CASE escrow'[p] # escrow[p]
    <3>1. PICK tx \in pending : tx.pay = p /\ Allows(tx.kind, p)
      BY <1>0, <2>2, ChainIsAhead
    <3>2. tx.kind # "create"
      BY <2>1, <3>1 DEF NoneOnItsWay
    <3> QED
      BY <2>1, <3>1, <3>2 DEF Allows
  <2> QED
    BY <2>1, <2>2
<1>2. ASSUME Unsubmitted(p)' \/ escrow'[p] # "NOT_FOUND" PROVE NoneOnItsWay(p)'
  <2>1. CASE NoneOnItsWay(p)
    <3>1. CASE ~NoneOnItsWay(p)'
      <4>1. Unsubmitted(p) /\ ~Unsubmitted(p)' /\ UNCHANGED escrow
        BY <1>0, <2>1, <3>1, NewOnItsWay
      <4> QED
        BY <1>0, <1>2, <4>1
    <3> QED
      BY <3>1
  <2>2. CASE ~NoneOnItsWay(p)
    <3>1. escrow[p] = "NOT_FOUND" /\ escrow'[p] # "NOT_FOUND"
      BY <1>0, <1>2, <2>2
    <3>2. PICK tx \in pending : /\ tx.pay = p /\ Include(tx)
                                /\ Allows(tx.kind, p)
      BY <1>0, <3>1, ChainIsAhead
    <3>3. tx.kind = "create" /\ pending' = pending \ {tx}
      BY <3>1, <3>2 DEF Allows, Include
    <3>4. ASSUME NEW other \in pending', other.kind = "create", other.pay = p
          PROVE  FALSE
      <4>1. other \in pending /\ other # tx /\ Signer(other) = Signer(tx)
        BY <3>3, <3>4 DEF Signer
      <4> QED
        BY <1>0, <4>1 DEF OnePending
    <3> QED
      BY <3>4 DEF NoneOnItsWay
  <2> QED
    BY <2>1, <2>2
<1> QED
  BY <1>1, <1>2

\* A payment fails, or is about to be failed, when it is settled.
LEMMA FailedStep ==
  ASSUME Endpoints = 1, GroundedInv, Settlement, [Next]_vars, stalls' = 0,
         NEW p \in Payments,
         status'[p] = "FAILED" \/ asked'[p] \notin {"none", "confirmed"}
  PROVE  Settled(p)
<1>0. /\ TypeInv /\ ~Stall
      /\ status[p] = "FAILED" \/ asked[p] \notin {"none", "confirmed"} => Settled(p)
  BY StallsKeep DEF GroundedInv, Settlement
<1>1. ASSUME NEW q \in Payments, Services(q)
      PROVE  Settled(p)
  <2>1. /\ asked'[p] \in {asked[p], "none", VerifyByReference(p)}
        /\ \/ status'[p] # "FAILED"
           \/ status'[p] = status[p]
           \/ asked[p] \notin {"none", "confirmed"}
    BY <1>0, <1>1, ServicesMove DEF OpenStatuses
  <2>2. VerifyByReference(p) \in {"confirmed", "failed", "pending"}
    BY DEF VerifyByReference
  <2>3. VerifyByReference(p) = "failed" => Settled(p)
    BY RefundedIsSettled DEF VerifyByReference
  <2>4. asked'[p] # "pending"
    BY <1>0, TypeInvStep DEF TypeInv, EscrowTypeOK
  <2>5. CASE asked'[p] \notin {"none", "confirmed"}
    BY <1>0, <2>1, <2>2, <2>3, <2>4, <2>5
  <2>6. CASE status'[p] = "FAILED"
    BY <1>0, <2>1, <2>6
  <2> QED
    BY <2>5, <2>6
<1>2. CASE Processor
  <2>1. CASE status'[p] = status[p]
    BY <1>0, <1>2, <2>1, ProcessorMoves
  <2>2. CASE status'[p] # status[p]
    <3>1. /\ asked'[p] = asked[p]
          /\ ApplyOutcome /\ worker.job.pay = p
          /\ worker.arg = "failed" \/ status'[p] = "CONFIRMED"
      BY <1>0, <1>2, <2>2, ProcessorMoves
    <3>2. worker.arg = "failed" => Settled(p)
      BY <3>1 DEF ApplyOutcome, At, Settlement
    <3> QED
      BY <1>0, <3>1, <3>2
  <2> QED
    BY <2>1, <2>2
<1>3. CASE (\E tx \in pending : Ledger(tx)) \/ UNCHANGED vars
  BY <1>0, <1>3 DEF Ledger, paymentVars, vars
<1> QED
  BY <1>1, <1>2, <1>3 DEF Next

\* The verdict FAILED, when the worker comes to it, is about a settled payment.
LEMMA VerdictStep ==
  ASSUME Endpoints = 1, GroundedInv, Settlement, [Next]_vars, stalls' = 0,
         worker'.at = "apply", worker'.arg = "failed",
         NEW p \in Payments, p = worker'.job.pay
  PROVE  Settled(p)'
<1>0. TypeInv /\ ~Stall /\ JobsRunOnce
  BY StallsKeep DEF GroundedInv, Settlement
<1>1. CASE UNCHANGED worker
  <2>1. Settled(p)
    BY <1>1 DEF Settlement
  <2> QED
    BY <1>0, <2>1, SettledStays
<1>2. CASE Processor /\ worker' # worker
  <2>1. ~StartJob
    BY <1>0, QueueStep
  <2>2. /\ worker.at # "idle" /\ worker.job \in Job /\ worker'.job = worker.job
        /\ UNCHANGED <<queue, jobIds>>
    BY <1>0, <1>2, <2>1, WorkerStep DEF queueVars
  <2>3. p = worker.job.pay
    BY <2>2
  <2>4. CASE FreshVerdict(p) = "failed"
    <3>1. Settled(p)
      BY <2>4, RefundedIsSettled DEF FreshVerdict
    <3> QED
      BY <1>0, <3>1, SettledStays
  <2>5. CASE worker.at \in {"build", "send"} /\ worker.job.kind = "create"
    <3>1. worker.job = CreateJob(p)
      BY <2>2, <2>3, <2>5 DEF Job, CreateJob
    <3>2. Unsubmitted(p)
      BY <2>5, <3>1 DEF Unsubmitted
    <3>3. escrow[p] = "NOT_FOUND" /\ NoneOnItsWay(p)
      BY <3>2 DEF Settlement
    <3>4. UNCHANGED <<pending, escrow>>
      <4>1. pending' \subseteq pending
        BY <1>0, OneAttempt
      <4>2. UNCHANGED <<pending, escrow>> \/ SendAccepted \/ SendUnreachable
        BY <1>0, <1>2, <2>1
        DEF Processor, BuildTx, SendTransient, SendRejected, PollFinality,
            ReadFresh, ApplyOutcome, TagReason, chainVars
      <4>3. SendAccepted \/ SendUnreachable => UNCHANGED escrow
        BY DEF SendAccepted, SendUnreachable
      <4>4. SendAccepted \/ SendUnreachable => pending \subseteq pending'
        BY DEF SendAccepted, SendUnreachable, Accept
      <4> QED
        BY <4>1, <4>2, <4>3, <4>4
    <3>5. ~Waiting(CreateJob(p)) /\ Enqueued("create", p)
      BY <1>0, <2>2, <3>1
      DEF JobsRunOnce, GroundedInv, JobsAreGrounded, Enqueued, CreateJob
    <3>6. ~Unsubmitted(p)'
      BY <2>2, <3>5 DEF Unsubmitted, Enqueued, Waiting
    <3> QED
      BY <3>3, <3>4, <3>6 DEF Settled, NoneOnItsWay
  <2> QED
    BY <1>0, <1>2, <2>1, <2>3, <2>4, <2>5, WorkerArrives
<1>3. ASSUME NEW q \in Payments, Services(q)
      PROVE  UNCHANGED worker
  BY <1>0, <1>3, ServicesMove
<1> QED
  BY <1>1, <1>2, <1>3 DEF Next, Ledger, vars

LEMMA SettledStep ==
  ASSUME Endpoints = 1
  PROVE  SettledInv /\ [Next]_vars => SettledInv'
<1> SUFFICES ASSUME SettledInv, [Next]_vars PROVE SettledInv'
  OBVIOUS
<1>0. GroundedInv /\ GroundedInv' /\ TypeInv
  BY GroundedStep DEF SettledInv, GroundedInv
<1>1. ASSUME stalls' = 0 PROVE Settlement'
  <2>1. stalls = 0 /\ Settlement
    BY <1>0, <1>1, StallsKeep DEF SettledInv
  <2>2. JobsRunOnce /\ OnePending
    BY <2>1 DEF Settlement
  <2>3. JobsRunOnce' /\ OnePending'
    BY <1>0, <1>1, <2>2, JobsRunOnceStep, OnePendingStep
  <2>4. ASSUME NEW p \in Payments
        PROVE  /\ Unsubmitted(p)' => escrow'[p] = "NOT_FOUND"
               /\ Unsubmitted(p)' \/ escrow'[p] # "NOT_FOUND" => NoneOnItsWay(p)'
    BY <1>0, <1>1, <2>1, UnsubmittedStep
  <2>5. ASSUME NEW p \in Payments,
               status'[p] = "FAILED" \/ asked'[p] \notin {"none", "confirmed"}
        PROVE  Settled(p)'
    <3>1. Settled(p)
      BY <1>0, <1>1, <2>1, <2>5, FailedStep
    <3> QED
      BY <1>0, <1>1, <2>2, <3>1, SettledStays
  <2>6. ASSUME NEW p \in Payments, p = worker'.job.pay,
               worker'.at = "apply", worker'.arg = "failed"
        PROVE  Settled(p)'
    BY <1>0, <1>1, <2>1, <2>6, VerdictStep
  <2>7. (worker.at = "apply" /\ worker.arg = "failed" => Settled(worker.job.pay))'
    <3>1. worker'.at = "apply" => worker'.job.pay \in Payments
      BY <1>0 DEF GroundedInv, TypeInv, WorkerOK, Job
    <3> QED
      BY <2>6, <3>1 DEF Settled, Unsubmitted, NoneOnItsWay, Enqueued, Waiting, CreateJob
  <2> HIDE DEF Settled, Unsubmitted, NoneOnItsWay, JobsRunOnce, OnePending
  <2> QED
    BY <2>3, <2>4, <2>5, <2>7 DEF Settlement
<1> QED
  BY <1>0, <1>1 DEF SettledInv

\* With one endpoint, and as long as no job had to be run twice, a FAILED
\* payment holds none of the payer's money, and none is on its way: however the
\* submission ended, whatever the ledger did with it, and whoever called
\* apply().  With two endpoints it does not hold, as the run failover shows.
THEOREM FailuresHoldNothing ==
  ASSUME Endpoints = 1
  PROVE  Spec => []FailedHoldsNoMoney
<1>1. SettledInv => FailedHoldsNoMoney
  BY DEF SettledInv, Settlement, Settled, NoneOnItsWay, FailedHoldsNoMoney
<1>2. SettledInv /\ [Next]_vars => SettledInv'
  BY SettledStep
<1> QED
  BY <1>1, <1>2, SettledInit, PTL DEF Spec

(***************************************************************************)
(* The rail keeps the agreement between a payment and its escrow: each of  *)
(* its steps is one of EscrowAgreement, or changes nothing that is agreed. *)
(***************************************************************************)

\* The payment has awaited its payer, and may be charged.
Awaited(p) == Standing(p) \notin {"ABSENT", "INITIATED", "ABANDONED"}

Standings ==
  {"ABSENT", "INITIATED", "ABANDONED", "AWAITING_CONFIRMATION", "CONFIRMED",
   "FAILED", "EXPIRED", "REFUNDED", "PARTIALLY_REFUNDED"}

\* Where a payment stands, and that money is booked back for paid ones only.
StandingOK ==
  \A p \in Payments :
    /\ Standing(p) \in Standings
    /\ refunded[p] > 0 => Standing(p) \in {"REFUNDED", "PARTIALLY_REFUNDED"}

\* Everything under way that may settle or charge a payment was begun when the
\* payment awaited its payer.
UnderWay ==
  /\ \A p \in Payments :
       /\ asked[p] # "none" => Awaited(p)
       /\ Enqueued("release", p) => p \in Releasable
  /\ worker.at # "idle" /\ worker.job.kind = "create" => Awaited(worker.job.pay)
  /\ worker.at \in {"fresh", "apply", "tag"} => worker.job.kind = "create"
  /\ \A tx \in pending : tx.kind = "create" => Awaited(tx.pay)

AgreementInv ==
  /\ PaidInv
  /\ GroundedInv
  /\ Endpoints = 1 => SettledInv
  /\ StandingOK
  /\ UnderWay

\* Steps that move no payment and no escrow.
Agreed == <<status, reason, refunded, escrow, stalls>>

\* They change nothing that is agreed.
LEMMA StutterAgrees ==
  ASSUME UNCHANGED Agreed
  PROVE  UNCHANGED <<[p \in Payments |-> Standing(p)], escrow, refunded,
                     stalls > 0 \/ Endpoints > 1>>
BY DEF Agreed, Standing

\* A step that moves one payment.
LEMMA MoveAgrees ==
  ASSUME NEW p \in Payments, NEW to, Standing(p)' = to,
         \A q \in Payments : q # p => Standing(q)' = Standing(q),
         UNCHANGED <<escrow, refunded, stalls>>
  PROVE  Agreement!MoveTo(p, to)
<1>1. [q \in Payments |-> Standing(q)]' = [[q \in Payments |-> Standing(q)] EXCEPT ![p] = to]
  OBVIOUS
<1> QED
  BY <1>1 DEF Agreement!MoveTo

\* Whatever does not touch a payment's row leaves it where it stands.
LEMMA StandsStill ==
  ASSUME NEW q, status'[q] = status[q], reason'[q] = reason[q]
  PROVE  Standing(q)' = Standing(q)
BY DEF Standing

\* A payment that does not stand as abandoned stands as its status.
LEMMA StandsAsStatus ==
  ASSUME NEW p
  PROVE  /\ Standing(p) # "ABANDONED" => Standing(p) = status[p]
         /\ Standing(p) = "ABANDONED" => status[p] \in {"EXPIRED", "ABANDONED"}
         /\ status[p] # "EXPIRED" => Standing(p) = status[p]
         /\ status'[p] # "EXPIRED" => Standing(p)' = status'[p]
BY DEF Standing

\* Initiation and its reference.
LEMMA InitiationAgrees ==
  ASSUME AgreementInv, NEW p \in Payments
  PROVE  /\ Initiate(p) => Agreement!Begin(p)
         /\ SaveAwaiting(p) => Agreement!Await(p)
<1>0. status \in [Payments -> Statuses \cup {"ABSENT"}]
  BY DEF AgreementInv, PaidInv, TypeInv, EscrowTypeOK
<1>1. ASSUME Initiate(p)
      PROVE  Agreement!Begin(p)
  <2>1. /\ status[p] = "ABSENT" /\ status' = [status EXCEPT ![p] = "INITIATED"]
        /\ UNCHANGED <<reason, refunded, escrow, stalls>>
    BY <1>1 DEF Initiate, chainVars
  <2>2. Standing(p) = "ABSENT" /\ Standing(p)' = "INITIATED"
    BY <1>0, <2>1, StandsAsStatus
  <2>3. \A q \in Payments : q # p => Standing(q)' = Standing(q)
    BY <1>0, <2>1, StandsStill
  <2>4. Agreement!MoveTo(p, "INITIATED")
    BY <2>1, <2>2, <2>3, MoveAgrees
  <2> QED
    BY <2>2, <2>4 DEF Agreement!Begin
<1>2. ASSUME SaveAwaiting(p)
      PROVE  Agreement!Await(p)
  <2>1. /\ status[p] = "INITIATED"
        /\ status' = [status EXCEPT ![p] = "AWAITING_CONFIRMATION"]
        /\ UNCHANGED <<reason, refunded, escrow, stalls>>
    BY <1>2 DEF SaveAwaiting, chainVars, queueVars
  <2>2. Standing(p) = "INITIATED" /\ Standing(p)' = "AWAITING_CONFIRMATION"
    BY <1>0, <2>1, StandsAsStatus
  <2>3. \A q \in Payments : q # p => Standing(q)' = Standing(q)
    BY <1>0, <2>1, StandsStill
  <2>4. Agreement!MoveTo(p, "AWAITING_CONFIRMATION")
    BY <2>1, <2>2, <2>3, MoveAgrees
  <2> QED
    BY <2>2, <2>4 DEF Agreement!Await
<1> QED
  BY <1>1, <1>2

\* The sweep.
LEMMA SweepAgrees ==
  ASSUME AgreementInv, NEW p \in Payments, Sweep(p)
  PROVE  Agreement!Abandon(p) \/ Agreement!Expire(p)
<1>0. /\ status \in [Payments -> Statuses \cup {"ABSENT"}]
      /\ reason \in [Payments -> FailureReasons]
  BY DEF AgreementInv, PaidInv, TypeInv, EscrowTypeOK
<1>1. /\ status[p] \in {"INITIATED", "AWAITING_CONFIRMATION"}
      /\ status' = [status EXCEPT ![p] = "EXPIRED"]
      /\ reason' = [reason EXCEPT
                      ![p] = IF status[p] = "INITIATED" THEN "ABANDONED" ELSE "EXPIRED"]
      /\ UNCHANGED <<refunded, escrow, stalls>>
  BY DEF Sweep, OpenStatuses, chainVars, queueVars
<1>2. /\ Standing(p) = status[p]
      /\ status[p] = "INITIATED" => Standing(p)' = "ABANDONED"
      /\ status[p] # "INITIATED" => Standing(p)' = "EXPIRED"
  BY <1>0, <1>1 DEF Standing
<1>3. \A q \in Payments : q # p => Standing(q)' = Standing(q)
  BY <1>0, <1>1, StandsStill
<1>4. CASE status[p] = "INITIATED"
  <2>1. Agreement!MoveTo(p, "ABANDONED")
    BY <1>1, <1>2, <1>3, <1>4, MoveAgrees
  <2> QED
    BY <1>2, <1>4, <2>1 DEF Agreement!Abandon
<1>5. CASE status[p] # "INITIATED"
  <2>1. Agreement!MoveTo(p, "EXPIRED")
    BY <1>1, <1>2, <1>3, <1>5, MoveAgrees
  <2> QED
    BY <1>1, <1>2, <1>5, <2>1 DEF Agreement!Expire
<1> QED
  BY <1>4, <1>5

\* Refunds.
LEMMA BookRefundAgrees ==
  ASSUME AgreementInv, NEW p \in Payments, NEW amount \in RefundAmounts,
         BookRefund(p, amount)
  PROVE  Agreement!Book(p)
<1>0. /\ status \in [Payments -> Statuses \cup {"ABSENT"}]
      /\ refunded \in [Payments -> 0..Amount]
      /\ amount \in Nat \ {0} /\ Amount \in Nat
  BY RailAssumption DEF AgreementInv, PaidInv, TypeInv, EscrowTypeOK
<1> DEFINE total == refunded[p] + amount
           next == IF total = Amount THEN "REFUNDED" ELSE "PARTIALLY_REFUNDED"
<1>1. /\ status[p] \in {"CONFIRMED", "PARTIALLY_REFUNDED"}
      /\ total <= Amount
      /\ refunded' = [refunded EXCEPT ![p] = total]
      /\ status' = [status EXCEPT ![p] = next]
      /\ UNCHANGED <<reason, escrow, stalls>>
  BY DEF BookRefund, RefundableStatuses, chainVars, queueVars
<1>2. total \in (refunded[p] + 1)..Amount
  BY <1>0, <1>1
<1> HIDE DEF total
<1>3. next # "EXPIRED" /\ status'[p] = next
  BY <1>0, <1>1
<1> HIDE DEF next
<1>4. Standing(p) = status[p] /\ Standing(p)' = next
  BY <1>1, <1>3, StandsAsStatus
<1>5. \A q \in Payments : q # p => Standing(q)' = Standing(q)
  BY <1>0, <1>1, StandsStill
<1>6. [q \in Payments |-> Standing(q)]' = [[q \in Payments |-> Standing(q)] EXCEPT ![p] = next]
  BY <1>4, <1>5
<1> QED
  BY <1>1, <1>2, <1>4, <1>6 DEF Agreement!Book, next

\* Before anything is booked, an escrow is not given back.
LEMMA UnbookedIsKept ==
  ASSUME AgreementInv, NEW p \in Payments, Standing(p) = "AWAITING_CONFIRMATION"
  PROVE  escrow[p] \in {"NOT_FOUND", "LOCKED", "RELEASED"}
<1>1. ~(refunded[p] > 0)
  BY DEF AgreementInv, StandingOK
<1>2. escrow[p] # "REFUNDED"
  BY <1>1 DEF AgreementInv, GroundedInv, RefundedOnlyIfBooked
<1> QED
  BY <1>2 DEF AgreementInv, PaidInv, TypeInv, EscrowTypeOK, ChainTypeOK, EscrowStatus

\* apply() with a verdict that was read from the chain, or that the submission
\* came to: it confirms on a funded escrow and fails on an empty one.
LEMMA ApplyAgrees ==
  ASSUME AgreementInv, NEW p \in Payments, NEW outcome \in {"confirmed", "failed"},
         Apply(p, outcome), Awaited(p),
         outcome = "confirmed" => escrow[p] # "NOT_FOUND",
         outcome = "failed" => stalls > 0 \/ Endpoints > 1 \/ Settled(p),
         \A q \in Payments : reason'[q] = reason[q] \/ status'[q] = "FAILED",
         UNCHANGED <<escrow, refunded, stalls>>
  PROVE  \/ Agreement!Confirm(p)
         \/ Agreement!Fail(p)
         \/ UNCHANGED [q \in Payments |-> Standing(q)]
<1>0. status \in [Payments -> Statuses \cup {"ABSENT"}]
  BY DEF AgreementInv, PaidInv, TypeInv, EscrowTypeOK
<1> DEFINE next == IF outcome = "confirmed" THEN "CONFIRMED" ELSE "FAILED"
<1>1. ASSUME NEW q \in Payments, status'[q] = status[q]
      PROVE  Standing(q)' = Standing(q)
  BY <1>1 DEF Standing
<1>2. CASE status' = status
  BY <1>1, <1>2
<1>3. CASE status' # status
  <2>1. /\ status[p] \notin TerminalStatuses
        /\ CanTransition(status[p], next)
        /\ status' = [status EXCEPT ![p] = next]
    BY <1>3 DEF Apply
  <2>2. status[p] \in {"INITIATED", "AWAITING_CONFIRMATION", "MANUAL_REVIEW"}
    BY <2>1 DEF CanTransition, AllowedTransitions, TerminalStatuses
  <2>3. Standing(p) = "AWAITING_CONFIRMATION"
    BY <2>2, StandsAsStatus DEF Awaited, AgreementInv, StandingOK, Standings
  <2>4. escrow[p] \in {"NOT_FOUND", "LOCKED", "RELEASED"}
    BY <2>3, UnbookedIsKept
  <2>5. status'[p] = next /\ \A q \in Payments : q # p => status'[q] = status[q]
    BY <1>0, <2>1
  <2>6. Standing(p)' = next /\ \A q \in Payments : q # p => Standing(q)' = Standing(q)
    BY <1>1, <2>5, StandsAsStatus
  <2>7. Agreement!MoveTo(p, next)
    BY <2>6, MoveAgrees
  <2>8. CASE outcome = "confirmed"
    BY <2>3, <2>4, <2>7, <2>8 DEF Agreement!Confirm
  <2>9. CASE outcome = "failed"
    <3>1. escrow[p] = "NOT_FOUND" \/ stalls > 0 \/ Endpoints > 1
      BY <2>4, <2>9 DEF Settled
    <3> QED
      BY <2>3, <2>7, <2>9, <3>1 DEF Agreement!Fail
  <2> QED
    BY <2>8, <2>9
<1> QED
  BY <1>2, <1>3

\* A job was submitted once, or the agreement knows that it may not have been.
LEMMA SettledOrRepeated ==
  ASSUME AgreementInv
  PROVE  stalls > 0 \/ Endpoints > 1 \/ Settlement
<1>1. stalls \in Nat /\ Endpoints \in Nat \ {0}
  BY RailAssumption, ChainAssumption DEF AgreementInv, PaidInv, TypeInv, EscrowTypeOK
<1>2. CASE Endpoints = 1 /\ stalls = 0
  BY <1>2 DEF AgreementInv, SettledInv
<1> QED
  BY <1>1, <1>2

\* A reconciliation pass applies the chain's answer.
LEMMA AnswerAgrees ==
  ASSUME AgreementInv, NEW p \in Payments, ApplyAnswer(p)
  PROVE  \/ Agreement!Confirm(p)
         \/ Agreement!Fail(p)
         \/ UNCHANGED <<[q \in Payments |-> Standing(q)], escrow, refunded, stalls>>
<1> DEFINE outcome == asked[p]
<1>1. /\ outcome \in {"confirmed", "failed"} /\ Apply(p, outcome)
      /\ UNCHANGED <<escrow, refunded, stalls>>
      /\ reason' = IF status'[p] = "FAILED" THEN [reason EXCEPT ![p] = "DECLINED"]
                   ELSE reason
  BY DEF ApplyAnswer, AgreementInv, PaidInv, TypeInv, EscrowTypeOK, chainVars, queueVars
<1>2. \A q \in Payments : reason'[q] = reason[q] \/ status'[q] = "FAILED"
  BY <1>1 DEF AgreementInv, PaidInv, TypeInv, EscrowTypeOK
<1>3. Awaited(p) /\ (outcome = "confirmed" => escrow[p] # "NOT_FOUND")
  BY <1>1 DEF AgreementInv, UnderWay, PaidInv, ConfirmedIsFunded
<1>4. outcome = "failed" => stalls > 0 \/ Endpoints > 1 \/ Settled(p)
  BY SettledOrRepeated DEF Settlement
<1> HIDE DEF outcome
<1>5. \/ Agreement!Confirm(p) \/ Agreement!Fail(p)
      \/ UNCHANGED [q \in Payments |-> Standing(q)]
  BY <1>1, <1>2, <1>3, <1>4, ApplyAgrees
<1> QED
  BY <1>1, <1>5

\* The services, then, keep the agreement.
LEMMA ServicesAgree ==
  ASSUME AgreementInv, NEW p \in Payments, Services(p)
  PROVE  \/ Agreement!AgreementNext
         \/ UNCHANGED <<[q \in Payments |-> Standing(q)], escrow, refunded,
                        stalls > 0 \/ Endpoints > 1>>
<1>1. CASE Release(p) \/ AskChain(p) \/ SendRefund(p)
  <2>1. UNCHANGED Agreed
    BY <1>1 DEF Release, AskChain, SendRefund, Agreed, chainVars, paymentVars, queueVars
  <2> QED
    BY <2>1, StutterAgrees
<1>2. CASE Initiate(p) \/ SaveAwaiting(p) \/ Sweep(p)
  BY <1>2, InitiationAgrees, SweepAgrees DEF Agreement!AgreementNext
<1>3. CASE \E amount \in RefundAmounts : BookRefund(p, amount)
  BY <1>3, BookRefundAgrees DEF Agreement!AgreementNext
<1>4. CASE ApplyAnswer(p)
  BY <1>4, AnswerAgrees DEF Agreement!AgreementNext
<1> QED
  BY <1>1, <1>2, <1>3, <1>4 DEF Services

\* So does the processor: it applies verdicts, tags failed payments, and dies.
LEMMA ProcessorAgrees ==
  ASSUME AgreementInv, Processor
  PROVE  \/ Agreement!AgreementNext
         \/ UNCHANGED <<[q \in Payments |-> Standing(q)], escrow, refunded,
                        stalls > 0 \/ Endpoints > 1>>
<1>0. /\ TypeInv
      /\ worker.at # "idle" => worker.job \in Job /\ worker.job.pay \in Payments
      /\ worker.at \in {"apply", "tag"} => Awaited(worker.job.pay)
  BY DEF AgreementInv, PaidInv, UnderWay, TypeInv, WorkerOK, Job
<1>1. CASE StartJob \/ BuildTx \/ SendAccepted \/ SendUnreachable \/ SendTransient
           \/ SendRejected \/ PollFinality \/ ReadFresh
  <2>1. UNCHANGED Agreed
    BY <1>1
    DEF StartJob, BuildTx, SendAccepted, SendUnreachable, SendTransient, SendRejected,
        PollFinality, ReadFresh, Agreed, chainVars, paymentVars, queueVars
  <2> QED
    BY <2>1, StutterAgrees
<1>2. CASE Stall
  <2>1. /\ UNCHANGED <<status, reason, escrow, refunded>>
        /\ stalls' = stalls + 1 /\ stalls \in Nat
    BY <1>0, <1>2, RailAssumption DEF Stall, chainVars, paymentVars, TypeInv, EscrowTypeOK
  <2>2. stalls' > 0 /\ \A q \in Payments : Standing(q)' = Standing(q)
    BY <2>1, StandsStill
  <2>3. Agreement!Repeat
    BY <2>1, <2>2 DEF Agreement!Repeat
  <2> QED
    BY <2>3 DEF Agreement!AgreementNext
<1>3. CASE ApplyOutcome
  <2> DEFINE p == worker.job.pay
             outcome == worker.arg
  <2>1. /\ worker.at = "apply" /\ Apply(p, outcome) /\ p \in Payments
        /\ UNCHANGED <<reason, escrow, refunded, stalls>>
    BY <1>0, <1>3 DEF ApplyOutcome, At, chainVars, queueVars
  <2>2. outcome \in {"confirmed", "failed"}
    BY <1>0, <2>1 DEF TypeInv, WorkerOK, Worker, Outcomes
  <2>3. Awaited(p) /\ (outcome = "confirmed" => escrow[p] # "NOT_FOUND")
    BY <1>0, <2>1 DEF AgreementInv, PaidInv, ConfirmedIsFunded
  <2>4. outcome = "failed" => stalls > 0 \/ Endpoints > 1 \/ Settled(p)
    BY <2>1, SettledOrRepeated DEF Settlement
  <2>5. PICK q \in Payments : q = p
    BY <2>1
  <2>6. PICK verdict \in {"confirmed", "failed"} : verdict = outcome
    BY <2>2
  <2>7. /\ Apply(q, verdict) /\ Awaited(q)
        /\ verdict = "confirmed" => escrow[q] # "NOT_FOUND"
        /\ verdict = "failed" => stalls > 0 \/ Endpoints > 1 \/ Settled(q)
    BY <2>1, <2>3, <2>4, <2>5, <2>6
  <2> HIDE DEF p, outcome
  <2>8. \/ Agreement!Confirm(q) \/ Agreement!Fail(q)
        \/ UNCHANGED [r \in Payments |-> Standing(r)]
    BY <2>1, <2>7, ApplyAgrees
  <2> QED
    BY <2>1, <2>8 DEF Agreement!AgreementNext
<1>4. CASE TagReason
  <2>1. /\ worker.at = "tag" /\ UNCHANGED <<status, refunded, escrow, stalls>>
        /\ reason' = [reason EXCEPT ![worker.job.pay] = "REJECTED"]
    BY <1>4 DEF TagReason, At, chainVars, queueVars
  <2>2. reason \in [Payments -> FailureReasons]
    BY <1>0 DEF TypeInv, EscrowTypeOK
  <2>3. ASSUME NEW q \in Payments
        PROVE  Standing(q)' = Standing(q)
    <3>1. CASE q = worker.job.pay
      <4>1. Standing(q) # "ABANDONED" /\ reason'[q] = "REJECTED" /\ status'[q] = status[q]
        BY <1>0, <2>1, <2>2, <3>1 DEF Awaited
      <4> QED
        BY <4>1 DEF Standing
    <3>2. CASE q # worker.job.pay
      BY <2>1, <2>2, <3>2, StandsStill
    <3> QED
      BY <3>1, <3>2
  <2> QED
    BY <2>1, <2>3
<1> QED
  BY <1>1, <1>2, <1>3, <1>4 DEF Processor

\* So does a ledger, with whatever transactions have reached an endpoint.
LEMMA LedgerAgrees ==
  ASSUME AgreementInv, NEW tx \in pending, Ledger(tx)
  PROVE  \/ Agreement!AgreementNext
         \/ UNCHANGED <<[q \in Payments |-> Standing(q)], escrow, refunded,
                        stalls > 0 \/ Endpoints > 1>>
<1> DEFINE p == tx.pay
<1>0. /\ tx.kind \in Kinds /\ p \in Payments
      /\ UNCHANGED <<status, reason, refunded, stalls>>
      /\ Enqueued(tx.kind, p)
      /\ tx.kind = "create" => Awaited(p)
  BY DEF AgreementInv, GroundedInv, JobsAreGrounded, UnderWay, TypeInv, EscrowTypeOK,
         ChainTypeOK, Transaction, Ledger, paymentVars, queueVars
<1>1. \A q \in Payments : Standing(q)' = Standing(q)
  BY <1>0, StandsStill
<1>2. UNCHANGED <<[q \in Payments |-> Standing(q)], refunded, stalls > 0 \/ Endpoints > 1>>
  BY <1>0, <1>1
<1>3. CASE UNCHANGED escrow
  BY <1>2, <1>3
<1>4. CASE Allows(tx.kind, p) /\ escrow' = [escrow EXCEPT ![p] = After(tx.kind)]
  <2> HIDE DEF p
  <2>1. CASE tx.kind = "create"
    <3>1. escrow[p] = "NOT_FOUND" /\ escrow' = [escrow EXCEPT ![p] = "LOCKED"]
      BY <1>4, <2>1 DEF Allows, After
    <3>2. status[p] \notin PaidStatuses
      BY <1>0, <3>1 DEF AgreementInv, PaidInv, PaidOnlyIfEscrowed
    <3>3. Standing(p) \in {"AWAITING_CONFIRMATION", "EXPIRED", "FAILED"}
      BY <1>0, <2>1, <3>2, StandsAsStatus
      DEF Awaited, AgreementInv, StandingOK, Standings, PaidStatuses
    <3>4. Standing(p) = "FAILED" => stalls > 0 \/ Endpoints > 1
      <4>1. ASSUME Settlement, Standing(p) = "FAILED"
            PROVE  FALSE
        <5>1. status[p] = "FAILED"
          BY <4>1, StandsAsStatus
        <5>2. NoneOnItsWay(p)
          BY <1>0, <4>1, <5>1 DEF Settlement, Settled
        <5> QED
          BY <2>1, <5>2 DEF NoneOnItsWay, p
      <4> QED
        BY <4>1, SettledOrRepeated
    <3>5. Agreement!EscrowTo(p, "LOCKED")
      BY <1>2, <3>1 DEF Agreement!EscrowTo
    <3>6. Agreement!Fund(p)
      BY <1>0, <3>1, <3>3, <3>4, <3>5 DEF Agreement!Fund
    <3> QED
      BY <1>0, <3>6 DEF Agreement!AgreementNext
  <2>2. CASE tx.kind = "release"
    <3>1. escrow[p] = "LOCKED" /\ escrow' = [escrow EXCEPT ![p] = "RELEASED"]
      BY <1>4, <2>2 DEF Allows, After
    <3>2. p \in Releasable
      BY <1>0, <2>2 DEF AgreementInv, UnderWay
    <3>3. Agreement!EscrowTo(p, "RELEASED")
      BY <1>2, <3>1 DEF Agreement!EscrowTo
    <3>4. Agreement!ReleaseFunds(p)
      BY <3>1, <3>2, <3>3 DEF Agreement!ReleaseFunds
    <3> QED
      BY <1>0, <3>4 DEF Agreement!AgreementNext
  <2>3. CASE tx.kind = "refund"
    <3>1. escrow[p] = "LOCKED" /\ escrow' = [escrow EXCEPT ![p] = "REFUNDED"]
      BY <1>4, <2>3 DEF Allows, After
    <3>2. refunded[p] > 0
      BY <1>0, <2>3 DEF AgreementInv, GroundedInv, JobsAreGrounded
    <3>3. Agreement!EscrowTo(p, "REFUNDED")
      BY <1>2, <3>1 DEF Agreement!EscrowTo
    <3>4. Agreement!GiveBack(p)
      BY <3>1, <3>2, <3>3 DEF Agreement!GiveBack
    <3> QED
      BY <1>0, <3>4 DEF Agreement!AgreementNext
  <2> QED
    BY <1>0, <2>1, <2>2, <2>3 DEF Kinds
<1> QED
  BY <1>3, <1>4 DEF Ledger, Include, Drop

\* Every step of the rail is one of the agreement, or a stutter.
LEMMA StepAgrees ==
  AgreementInv /\ [Next]_vars =>
    [Agreement!AgreementNext]_<<[p \in Payments |-> Standing(p)], escrow, refunded,
                                stalls > 0 \/ Endpoints > 1>>
<1> SUFFICES ASSUME AgreementInv, [Next]_vars
             PROVE  \/ Agreement!AgreementNext
                    \/ UNCHANGED <<[p \in Payments |-> Standing(p)], escrow, refunded,
                                   stalls > 0 \/ Endpoints > 1>>
  OBVIOUS
<1>1. CASE UNCHANGED vars
  <2>1. UNCHANGED Agreed
    BY <1>1 DEF vars, Agreed, chainVars, paymentVars, queueVars
  <2> QED
    BY <2>1, StutterAgrees
<1>2. CASE Next
  BY <1>2, ServicesAgree, ProcessorAgrees, LedgerAgrees DEF Next
<1> QED
  BY <1>1, <1>2

\* What a step of the agreement does to where a payment stands.
LEMMA StandsOn ==
  ASSUME AgreementInv, [Next]_vars, NEW p \in Payments
  PROVE  /\ Standing(p)' \in Standings
         /\ refunded'[p] > 0 => Standing(p)' \in {"REFUNDED", "PARTIALLY_REFUNDED"}
         /\ Awaited(p) => Awaited(p)'
<1> DEFINE standing == [q \in Payments |-> Standing(q)]
<1>0. /\ refunded \in [Payments -> 0..Amount]
      /\ Standing(p) \in Standings
      /\ refunded[p] > 0 => Standing(p) \in {"REFUNDED", "PARTIALLY_REFUNDED"}
      /\ standing[p] = Standing(p) /\ standing'[p] = Standing(p)'
  BY DEF AgreementInv, StandingOK, PaidInv, TypeInv, EscrowTypeOK
<1>1. \/ Agreement!AgreementNext
      \/ UNCHANGED <<standing, escrow, refunded, stalls > 0 \/ Endpoints > 1>>
  BY StepAgrees
<1>2. ASSUME UNCHANGED standing, UNCHANGED refunded
      PROVE  Standing(p)' = Standing(p) /\ refunded'[p] = refunded[p]
  BY <1>0, <1>2
<1>3. ASSUME NEW q \in Payments, NEW to, Agreement!MoveTo(q, to)
      PROVE  /\ p = q => Standing(p)' = to
             /\ p # q => Standing(p)' = Standing(p)
             /\ refunded'[p] = refunded[p]
  <2>1. standing' = [standing EXCEPT ![q] = to] /\ UNCHANGED refunded
    BY <1>3 DEF Agreement!MoveTo
  <2>2. standing'[p] = IF p = q THEN to ELSE standing[p]
    BY <2>1
  <2> HIDE DEF standing
  <2> QED
    BY <1>0, <2>1, <2>2
<1>4. ASSUME NEW q \in Payments, Agreement!Book(q)
      PROVE  /\ p = q => /\ Standing(p) \in {"CONFIRMED", "PARTIALLY_REFUNDED"}
                         /\ Standing(p)' \in {"REFUNDED", "PARTIALLY_REFUNDED"}
             /\ p # q => Standing(p)' = Standing(p) /\ refunded'[p] = refunded[p]
  <2>1. PICK total \in (refunded[q] + 1)..Amount :
          /\ refunded' = [refunded EXCEPT ![q] = total]
          /\ standing' = [standing EXCEPT
                            ![q] = IF total = Amount THEN "REFUNDED"
                                   ELSE "PARTIALLY_REFUNDED"]
    BY <1>4 DEF Agreement!Book
  <2>2. standing[q] \in {"CONFIRMED", "PARTIALLY_REFUNDED"}
    BY <1>4 DEF Agreement!Book
  <2>3. /\ p = q => standing'[p] \in {"REFUNDED", "PARTIALLY_REFUNDED"}
        /\ p # q => standing'[p] = standing[p]
    BY <2>1
  <2>4. p # q => refunded'[p] = refunded[p]
    BY <1>0, <2>1
  <2> HIDE DEF standing
  <2> QED
    BY <1>0, <2>2, <2>3, <2>4
<1>5. ASSUME NEW q \in Payments
      PROVE  /\ Agreement!Begin(q) => standing[q] = "ABSENT" /\ Agreement!MoveTo(q, "INITIATED")
             /\ Agreement!Await(q) =>
                  standing[q] = "INITIATED" /\ Agreement!MoveTo(q, "AWAITING_CONFIRMATION")
             /\ Agreement!Abandon(q) =>
                  standing[q] = "INITIATED" /\ Agreement!MoveTo(q, "ABANDONED")
             /\ Agreement!Expire(q) =>
                  standing[q] = "AWAITING_CONFIRMATION" /\ Agreement!MoveTo(q, "EXPIRED")
             /\ Agreement!Confirm(q) =>
                  standing[q] = "AWAITING_CONFIRMATION" /\ Agreement!MoveTo(q, "CONFIRMED")
             /\ Agreement!Fail(q) =>
                  standing[q] = "AWAITING_CONFIRMATION" /\ Agreement!MoveTo(q, "FAILED")
  BY DEF Agreement!Begin, Agreement!Await, Agreement!Abandon, Agreement!Expire,
         Agreement!Confirm, Agreement!Fail
<1>6. ASSUME NEW q \in Payments,
             Agreement!Fund(q) \/ Agreement!ReleaseFunds(q) \/ Agreement!GiveBack(q)
      PROVE  UNCHANGED <<standing, refunded>>
  BY <1>6
  DEF Agreement!Fund, Agreement!ReleaseFunds, Agreement!GiveBack, Agreement!EscrowTo
<1>7. Agreement!Repeat => UNCHANGED <<standing, refunded>>
  BY DEF Agreement!Repeat
<1>8. \A q \in Payments : standing[q] = Standing(q)
  OBVIOUS
<1> HIDE DEF standing
<1>9. ASSUME UNCHANGED <<standing, refunded>>
      PROVE  /\ Standing(p)' \in Standings
             /\ refunded'[p] > 0 => Standing(p)' \in {"REFUNDED", "PARTIALLY_REFUNDED"}
             /\ Awaited(p) => Awaited(p)'
  BY <1>0, <1>2, <1>9 DEF Awaited
<1>10. ASSUME NEW q \in Payments, NEW to, Agreement!MoveTo(q, to),
              \/ Standing(q) \in {"ABSENT", "INITIATED"}
                 /\ to \in {"INITIATED", "AWAITING_CONFIRMATION", "ABANDONED"}
              \/ Standing(q) = "AWAITING_CONFIRMATION"
                 /\ to \in {"EXPIRED", "CONFIRMED", "FAILED"}
       PROVE  /\ Standing(p)' \in Standings
              /\ refunded'[p] > 0 => Standing(p)' \in {"REFUNDED", "PARTIALLY_REFUNDED"}
              /\ Awaited(p) => Awaited(p)'
  BY <1>0, <1>3, <1>10 DEF Awaited, Standings
<1>11. ASSUME NEW q \in Payments, Agreement!Book(q)
       PROVE  /\ Standing(p)' \in Standings
              /\ refunded'[p] > 0 => Standing(p)' \in {"REFUNDED", "PARTIALLY_REFUNDED"}
              /\ Awaited(p) => Awaited(p)'
  BY <1>0, <1>4, <1>11 DEF Awaited, Standings
<1>12. CASE Agreement!AgreementNext
  <2>1. CASE Agreement!Repeat
    BY <1>7, <1>9, <2>1
  <2>2. CASE ~Agreement!Repeat
    <3>1. PICK q \in Payments :
            \/ Agreement!Begin(q) \/ Agreement!Await(q) \/ Agreement!Abandon(q)
            \/ Agreement!Expire(q) \/ Agreement!Confirm(q) \/ Agreement!Fail(q)
            \/ Agreement!Book(q)
            \/ Agreement!Fund(q) \/ Agreement!ReleaseFunds(q) \/ Agreement!GiveBack(q)
      BY <1>12, <2>2 DEF Agreement!AgreementNext
    <3>2. CASE \/ Agreement!Begin(q) \/ Agreement!Await(q) \/ Agreement!Abandon(q)
               \/ Agreement!Expire(q) \/ Agreement!Confirm(q) \/ Agreement!Fail(q)
      BY <1>5, <1>8, <1>10, <3>2
    <3>3. CASE Agreement!Book(q)
      BY <1>11, <3>3
    <3>4. CASE Agreement!Fund(q) \/ Agreement!ReleaseFunds(q) \/ Agreement!GiveBack(q)
      BY <1>6, <1>9, <3>4
    <3> QED
      BY <3>1, <3>2, <3>3, <3>4
  <2> QED
    BY <2>1, <2>2
<1> QED
  BY <1>1, <1>9, <1>12

\* What the services put under way.
LEMMA ServicesBegin ==
  ASSUME TypeInv, NEW q \in Payments, Services(q), NEW p \in Payments
  PROVE  /\ asked'[p] \notin {asked[p], "none"} => status[p] = "AWAITING_CONFIRMATION"
         /\ Enqueued("release", p)' => Enqueued("release", p) \/ p \in Releasable
<1>0. asked \in [Payments -> {"none", "confirmed", "failed"}]
  BY DEF TypeInv, EscrowTypeOK
<1>1. CASE AskChain(q)
  BY <1>0, <1>1 DEF AskChain, Enqueued, queueVars
<1>2. CASE ApplyAnswer(q)
  BY <1>0, <1>2 DEF ApplyAnswer, Enqueued, queueVars
<1>3. ASSUME UNCHANGED asked, UNCHANGED jobIds
      PROVE  /\ asked'[p] \notin {asked[p], "none"} => status[p] = "AWAITING_CONFIRMATION"
             /\ Enqueued("release", p)' => Enqueued("release", p) \/ p \in Releasable
  BY <1>3 DEF Enqueued
<1>4. CASE SaveAwaiting(q) \/ Sweep(q) \/ \E amount \in RefundAmounts : BookRefund(q, amount)
  <2>1. UNCHANGED asked /\ UNCHANGED jobIds
    BY <1>4 DEF SaveAwaiting, Sweep, BookRefund, queueVars
  <2> QED
    BY <1>3, <2>1
<1>5. CASE Initiate(q) \/ SendRefund(q)
  <2>1. /\ UNCHANGED asked
        /\ jobIds' \in {jobIds, jobIds \cup {[kind |-> "create", pay |-> q]},
                        jobIds \cup {[kind |-> "refund", pay |-> q]}}
    BY <1>5 DEF Initiate, SendRefund, Enqueue
  <2> QED
    BY <2>1 DEF Enqueued
<1>6. CASE Release(q)
  <2>1. /\ UNCHANGED asked /\ q \in Releasable
        /\ jobIds' = jobIds \cup {[kind |-> "release", pay |-> q]}
    BY <1>6 DEF Release, Enqueue, paymentVars
  <2> QED
    BY <2>1 DEF Enqueued
<1> QED
  BY <1>1, <1>2, <1>4, <1>5, <1>6 DEF Services

\* Only a create job comes to a fresh read.
LEMMA CreatesAreRead ==
  ASSUME TypeInv, Processor, ~StartJob, ~Stall, worker'.at = "fresh"
  PROVE  worker.job.kind = "create"
<1>1. worker \in Worker /\ NoWork.at = "idle"
  BY WorkerStep DEF TypeInv, WorkerOK, NoWork
<1>2. ASSUME NEW error, worker' = Caught(MapSorobanError(error))
      PROVE  worker.job.kind = "create"
  <2> DEFINE e == MapSorobanError(error)
  <2>1. e \in {"already", "indeterminate", "rejected"}
    BY MapCases
  <2> HIDE DEF e
  <2>2. Caught(e) = NoWork \/ worker.job.kind = "create"
    BY <2>1, CaughtCases
  <2> QED
    BY <1>1, <1>2, <2>2 DEF e
<1>3. /\ \A tx : [worker EXCEPT !.at = "send", !.tx = tx].at = "send"
      /\ [worker EXCEPT !.at = "poll"].at = "poll"
      /\ [worker EXCEPT !.endpoint = @ + 1, !.tries = 0].at = worker.at
      /\ [worker EXCEPT !.tries = @ + 1].at = worker.at
      /\ [worker EXCEPT !.at = "tag"].at = "tag"
      /\ \A arg : [worker EXCEPT !.at = "apply", !.arg = arg].at = "apply"
  BY <1>1 DEF Worker
<1>4. CASE BuildTx
  BY <1>2, <1>3, <1>4 DEF BuildTx
<1>5. CASE SendAccepted
  BY <1>3, <1>5 DEF SendAccepted
<1>6. CASE SendUnreachable \/ SendTransient \/ SendRejected
  BY <1>2, <1>3, <1>6 DEF SendUnreachable, SendTransient, SendRejected, NextEndpoint, At
<1>7. CASE PollFinality
  BY <1>1, <1>7 DEF PollFinality, EndJob
<1>8. CASE ReadFresh \/ ApplyOutcome \/ TagReason
  BY <1>1, <1>3, <1>8 DEF ReadFresh, ApplyOutcome, TagReason, EndJob
<1> QED
  BY <1>4, <1>5, <1>6, <1>7, <1>8 DEF Processor

\* What the processor puts under way, and on its way.
LEMMA ProcessorBegins ==
  ASSUME AgreementInv, Processor
  PROVE  /\ worker'.at # "idle" /\ worker'.job.kind = "create" => Awaited(worker'.job.pay)
         /\ worker'.at \in {"fresh", "apply", "tag"} => worker'.job.kind = "create"
         /\ \A tx \in pending' : tx.kind = "create" => Awaited(tx.pay)
<1>0. TypeInv /\ JobsAreGrounded /\ UnderWay
  BY DEF AgreementInv, PaidInv, GroundedInv
<1>1. CASE StartJob
  <2>1. worker'.at \in {"idle", "build"} /\ UNCHANGED pending
    BY <1>0, <1>1, QueueStep DEF chainVars
  <2> DEFINE job == Head(queue)
             w == [NoWork EXCEPT !.at = "build", !.job = job]
  <2>2. \/ worker' = w /\ (job.kind = "create" => AwaitsFunds(job.pay))
        \/ worker' = NoWork
    BY <1>1 DEF StartJob, EndJob
  <2>3. w.job = job /\ NoWork.at = "idle"
    BY DEF NoWork
  <2> HIDE DEF w, job
  <2>4. worker'.at # "idle" /\ worker'.job.kind = "create" =>
          status[worker'.job.pay] = "AWAITING_CONFIRMATION"
    BY <2>2, <2>3 DEF AwaitsFunds
  <2>5. worker'.at # "idle" /\ worker'.job.kind = "create" => Awaited(worker'.job.pay)
    BY <2>4 DEF Awaited, Standing
  <2> QED
    BY <1>0, <2>1, <2>5 DEF UnderWay
<1>2. CASE Stall
  <2>1. worker' = NoWork /\ UNCHANGED pending
    BY <1>2 DEF Stall, EndJob, chainVars
  <2> QED
    BY <1>0, <2>1 DEF UnderWay, NoWork
<1>3. CASE ~StartJob /\ ~Stall
  <2>1. /\ worker.at # "idle"
        /\ worker'.at # "idle" => worker'.job = worker.job
    BY <1>0, <1>3, WorkerStep
  <2>2. worker'.at # "idle" /\ worker'.job.kind = "create" => Awaited(worker'.job.pay)
    BY <1>0, <2>1 DEF UnderWay
  <2>3. ASSUME worker'.at \in {"fresh", "apply", "tag"}
        PROVE  worker'.job.kind = "create"
    <3>1. CASE worker'.at = "fresh"
      BY <1>0, <1>3, <2>1, <3>1, CreatesAreRead
    <3>2. CASE worker'.at = "apply"
      BY <1>0, <1>3, <2>1, <3>2, WorkerArrives DEF UnderWay
    <3>3. CASE worker'.at = "tag"
      <4>1. worker.at = "apply"
        BY <1>0, <1>3, <3>3, WorkerArrives DEF ApplyOutcome, At
      <4> QED
        BY <1>0, <2>1, <3>3, <4>1 DEF UnderWay
    <3> QED
      BY <2>3, <3>1, <3>2, <3>3
  <2>4. \/ pending' = pending
        \/ worker.at = "send" /\ pending' = pending \cup {worker.tx}
    BY <1>3
    DEF Processor, BuildTx, SendAccepted, SendUnreachable, SendTransient, SendRejected,
        PollFinality, ReadFresh, ApplyOutcome, TagReason, Accept, At, chainVars
  <2>5. ASSUME NEW tx \in pending', tx.kind = "create"
        PROVE  Awaited(tx.pay)
    <3>1. CASE tx \in pending
      BY <1>0, <2>5, <3>1 DEF UnderWay
    <3>2. CASE tx = worker.tx /\ worker.at = "send"
      BY <1>0, <2>5, <3>2 DEF UnderWay, JobsAreGrounded
    <3> QED
      BY <2>4, <3>1, <3>2
  <2> QED
    BY <2>2, <2>3, <2>5
<1> QED
  BY <1>1, <1>2, <1>3

\* What is under way stays about payments that have awaited their payer.
LEMMA UnderWayStep ==
  AgreementInv /\ [Next]_vars => UnderWay'
<1> SUFFICES ASSUME AgreementInv, [Next]_vars PROVE UnderWay'
  OBVIOUS
<1>0. /\ TypeInv /\ TypeInv' /\ UnderWay
      /\ asked \in [Payments -> {"none", "confirmed", "failed"}]
  BY TypeInvStep DEF AgreementInv, PaidInv, TypeInv, EscrowTypeOK
<1>1. \A p \in Payments : Awaited(p) => Awaited(p)'
  BY StandsOn
<1>2. \A p \in Payments : status[p] = "AWAITING_CONFIRMATION" => Awaited(p)
  BY DEF Awaited, Standing
<1>3. /\ worker'.at # "idle" => worker'.job.pay \in Payments
      /\ \A tx \in pending' : tx.pay \in Payments
  BY <1>0 DEF TypeInv, WorkerOK, Job, EscrowTypeOK, ChainTypeOK, Transaction
<1>4. ASSUME \A p \in Payments :
               /\ asked'[p] # "none" => Awaited(p)
               /\ Enqueued("release", p)' => p \in Releasable,
             worker'.at # "idle" /\ worker'.job.kind = "create" =>
               Awaited(worker'.job.pay),
             worker'.at \in {"fresh", "apply", "tag"} => worker'.job.kind = "create",
             \A tx \in pending' : tx.kind = "create" => Awaited(tx.pay)
      PROVE  UnderWay'
  <2>1. \A p \in Payments :
          /\ asked'[p] # "none" => Awaited(p)'
          /\ Enqueued("release", p)' => p \in Releasable
    BY <1>1, <1>4
  <2>2. ASSUME worker'.at # "idle", worker'.job.kind = "create"
        PROVE  (Awaited(worker.job.pay))'
    <3>1. PICK p \in Payments : p = worker'.job.pay
      BY <1>3, <2>2
    <3>2. Awaited(p)
      BY <1>4, <2>2, <3>1
    <3>3. Awaited(p)'
      BY <1>1, <3>2
    <3> QED
      BY <3>1, <3>3 DEF Awaited, Standing
  <2>3. ASSUME NEW tx \in pending', tx.kind = "create"
        PROVE  Awaited(tx.pay)'
    <3>1. PICK p \in Payments : p = tx.pay
      BY <1>3, <2>3
    <3>2. Awaited(p)
      BY <1>4, <2>3, <3>1
    <3>3. Awaited(p)'
      BY <1>1, <3>2
    <3> QED
      BY <3>1, <3>3
  <2> QED
    BY <1>4, <2>1, <2>2, <2>3 DEF UnderWay
<1>5. CASE UNCHANGED vars
  BY <1>0, <1>4, <1>5 DEF UnderWay, Enqueued, vars, chainVars, paymentVars, queueVars
<1>6. CASE \E q \in Payments : Services(q)
  <2>1. PICK q \in Payments : Services(q)
    BY <1>6
  <2>2. UNCHANGED <<worker, pending>>
    <3>1. ASSUME NEW p \in Payments PROVE UNCHANGED <<worker, chainVars>>
      BY <1>0, <2>1, ServicesMove
    <3> QED
      BY <2>1, <3>1 DEF chainVars
  <2>3. \A p \in Payments :
          /\ asked'[p] \notin {asked[p], "none"} => status[p] = "AWAITING_CONFIRMATION"
          /\ Enqueued("release", p)' => Enqueued("release", p) \/ p \in Releasable
    BY <1>0, <2>1, ServicesBegin
  <2>4. \A p \in Payments :
          /\ asked'[p] # "none" => Awaited(p)
          /\ Enqueued("release", p)' => p \in Releasable
    BY <1>0, <1>2, <2>3 DEF UnderWay
  <2> QED
    BY <1>0, <1>4, <2>2, <2>4 DEF UnderWay
<1>7. CASE Processor
  <2>1. /\ worker'.at # "idle" /\ worker'.job.kind = "create" => Awaited(worker'.job.pay)
        /\ worker'.at \in {"fresh", "apply", "tag"} => worker'.job.kind = "create"
        /\ \A tx \in pending' : tx.kind = "create" => Awaited(tx.pay)
    BY <1>7, ProcessorBegins
  <2>2. UNCHANGED <<asked, jobIds>>
    BY <1>0, <1>7, QueueStep, WorkerStep DEF paymentVars, queueVars
  <2>3. \A p \in Payments :
          /\ asked'[p] # "none" => Awaited(p)
          /\ Enqueued("release", p)' => p \in Releasable
    BY <1>0, <2>2 DEF UnderWay, Enqueued
  <2> QED
    BY <1>4, <2>1, <2>3
<1>8. CASE \E tx \in pending : Ledger(tx)
  <2>1. UNCHANGED <<asked, jobIds, worker>> /\ pending' \subseteq pending
    BY <1>8 DEF Ledger, Include, Drop, paymentVars, queueVars
  <2> QED
    BY <1>0, <1>4, <2>1 DEF UnderWay, Enqueued
<1> QED
  BY <1>5, <1>6, <1>7, <1>8 DEF Next

LEMMA AgreementInvInit ==
  Init => AgreementInv /\ Agreement!AgreementInit
<1> SUFFICES ASSUME Init PROVE AgreementInv /\ Agreement!AgreementInit
  OBVIOUS
<1>1. /\ \A p \in Payments :
           /\ Standing(p) = "ABSENT" /\ asked[p] = "none" /\ ~(refunded[p] > 0)
           /\ ~Enqueued("release", p)
      /\ worker.at = "idle" /\ pending = {}
  BY DEF Init, ChainInit, NoWork, Standing, Enqueued
<1>2. StandingOK /\ UnderWay
  BY <1>1 DEF StandingOK, Standings, UnderWay
<1>3. AgreementInv
  BY <1>2, PaidInvInit, GroundedInit, SettledInit DEF AgreementInv
<1>4. Agreement!AgreementInit
  BY <1>1 DEF Agreement!AgreementInit, Init, ChainInit
<1> QED
  BY <1>3, <1>4

LEMMA AgreementInvStep ==
  AgreementInv /\ [Next]_vars => AgreementInv'
<1> SUFFICES ASSUME AgreementInv, [Next]_vars PROVE AgreementInv'
  OBVIOUS
<1>1. PaidInv' /\ GroundedInv'
  BY PaidInvStep, GroundedStep DEF AgreementInv
<1>2. (Endpoints = 1 => SettledInv)'
  BY SettledStep DEF AgreementInv
<1>3. StandingOK'
  BY StandsOn DEF StandingOK
<1>4. UnderWay'
  BY UnderWayStep
<1> QED
  BY <1>1, <1>2, <1>3, <1>4 DEF AgreementInv

\* The services, the queue, the worker with its retries, the endpoints and the
\* ledger implement the agreement between a payment and its escrow, for any
\* number of payments, endpoints and stalls: a payment is confirmed on a funded
\* escrow and fails on an empty one (or a repeated submission), an escrow is
\* funded only for a payment that awaits its payer or did until it expired, and
\* given back only for a booking.
THEOREM RailKeepsAgreement ==
  Spec => ImplementsAgreement
<1>1. AgreementInv /\ [Next]_vars =>
        [Agreement!AgreementNext]_<<[p \in Payments |-> Standing(p)], escrow, refunded,
                                    stalls > 0 \/ Endpoints > 1>>
  BY StepAgrees
<1> QED
  BY <1>1, AgreementInvInit, AgreementInvStep, PTL
  DEF Spec, ImplementsAgreement, Agreement!AgreementSpec
==============================================================================
