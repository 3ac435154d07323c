--------------------------- MODULE PaymentsSystem ---------------------------
(***************************************************************************)
(* The payments module as it runs: HTTP calls and scheduled passes         *)
(* interleaving over one database, a provider that settles charges in its  *)
(* own time, a clock, and a server process that may die at any await.      *)
(***************************************************************************)
EXTENDS PaymentInitiation, Reconciliation, Refunds

\* The provider reaches its verdict.
ProviderSettle ==
  /\ \E p \in Payments, verdict \in Verdicts :
       /\ charge[p] = "pending"
       /\ charge' = [charge EXCEPT ![p] = verdict]
  /\ UNCHANGED <<payments, refunded, events, rowLock, calls, returned,
                 decisions, now, restarts>>

\* Bound: from MaxNow on the clock only runs until open payments are past
\* their TTL.
Tick ==
  /\ \/ now < MaxNow
     \/ \E p \in Payments : /\ payments[p].status \in OpenStatuses
                           /\ now <= ExpiresAt(payments[p])
  /\ now' = now + 1
  /\ UNCHANGED <<payments, refunded, events, rowLock, calls, charge, returned,
                 decisions, restarts>>

\* The process dies: every call is lost, every open transaction rolled back.
Restart ==
  /\ restarts < MaxRestarts
  /\ restarts' = restarts + 1
  /\ calls' = [c \in Calls |-> IdleCall]
  /\ rowLock' = [p \in Payments |-> None]
  /\ UNCHANGED <<payments, refunded, events, charge, returned, decisions, now>>

Save(c) == SaveSelect(c) \/ SaveUpdate(c)

HttpStep(c) ==
  \/ Initiate(c) \/ Confirm(c) \/ Reconcile(c) \/ Administer(c) \/ Refund(c)
  \/ Save(c) \/ Reply(c)

CronStep(c) ==
  \/ ReconciliationPass(c) \/ VerifyAnswer(c) \/ Apply(c) \/ LogNoOp(c)
  \/ LogApplied(c) \/ Reconcile(c) \/ Save(c)

Next ==
  \/ \E c \in HttpCalls : HttpStep(c)
  \/ \E c \in CronCalls : CronStep(c)
  \/ ProviderSettle \/ Tick \/ Restart

Spec == Init /\ [][Next]_vars

(***************************************************************************)
(* Fairness: time passes, the scheduler keeps firing and its passes keep   *)
(* going (queries return, verifyByReference is cut off by a timeout), and  *)
(* a refund's transaction, which makes no provider call, comes to an end.  *)
(* Nothing is assumed of clients, of the provider or of other HTTP calls.  *)
(***************************************************************************)
Fairness ==
  /\ WF_vars(Tick)
  /\ \A c \in CronCalls : WF_vars(CronStep(c))
  /\ \A c \in HttpCalls : WF_vars(RefundSum(c) \/ RefundCommit(c))

FairSpec == Spec /\ Fairness
=============================================================================
