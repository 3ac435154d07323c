-------------------------- MODULE PaymentLifecycle --------------------------
(***************************************************************************)
(* What the payments module promises about each payment, with neither      *)
(* calls nor database nor provider: a booking gets at most one payment     *)
(* that is in progress or confirmed, a status moves only along the table   *)
(* of payment-state-machine.ts, and refunds never exceed the captured      *)
(* amount and decide between the two refund statuses.                      *)
(***************************************************************************)
EXTENDS Integers, PaymentStateMachine

CONSTANTS Payments, Requests, NoRequest

VARIABLES
  status,   \* status of each payment, "ABSENT" before it exists
  request,  \* what was asked for
  refunded  \* total refunded

lifecycleVars == <<status, request, refunded>>

LifecycleInit ==
  /\ status = [p \in Payments |-> "ABSENT"]
  /\ request = [p \in Payments |-> NoRequest]
  /\ refunded = [p \in Payments |-> 0]

\* initiate().
Create(req) ==
  /\ status[req.key] = "ABSENT"
  /\ \A q \in Payments : status[q] \in BlockingStatuses
                           => request[q].booking # req.booking
  /\ status' = [status EXCEPT ![req.key] = "INITIATED"]
  /\ request' = [request EXCEPT ![req.key] = req]
  /\ UNCHANGED refunded

\* Confirmation, failure, expiry, escalation, resolution, voiding.
Move(p, s) ==
  /\ s \notin {"REFUNDED", "PARTIALLY_REFUNDED"}
  /\ <<status[p], s>> \in AllowedTransitions
  /\ status' = [status EXCEPT ![p] = s]
  /\ UNCHANGED <<request, refunded>>

\* A refund is booked.
BookRefund(p) ==
  /\ status[p] \in RefundableStatuses
  /\ \E amount \in 1..(request[p].amount - refunded[p]) :
       /\ refunded' = [refunded EXCEPT ![p] = @ + amount]
       /\ status' = [status EXCEPT ![p] =
                       IF refunded[p] + amount = request[p].amount
                       THEN "REFUNDED" ELSE "PARTIALLY_REFUNDED"]
  /\ UNCHANGED request

LifecycleNext ==
  \/ \E req \in Requests : Create(req)
  \/ \E p \in Payments, s \in Statuses : Move(p, s)
  \/ \E p \in Payments : BookRefund(p)

LifecycleSpec == LifecycleInit /\ [][LifecycleNext]_lifecycleVars
=============================================================================
