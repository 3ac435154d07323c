--------------------------- MODULE PaymentContract ---------------------------
(***************************************************************************)
(* What the payments module promises of every payment however many calls   *)
(* and passes overlap and wherever the server dies.  Stale saves may move  *)
(* a status that was final (PaymentLifecycle, which rules that out, holds  *)
(* of one call at a time), but never without the grounds stated here: the  *)
(* hand-over that created the payment, the word of the provider or of an   *)
(* administrator, its age, or a booked refund.                             *)
(***************************************************************************)
EXTENDS Integers, PaymentStateMachine

CONSTANTS Payments, Requests, NoRequest, TTL, ReviewAfter, RefundTries

VARIABLES
  status,     \* status of each payment, "ABSENT" before it exists
  request,    \* what was asked for
  since,      \* when it was created
  handover,   \* payments that initiate() is handing over to the provider
  charge,     \* the provider's verdict, once it has an order
  decisions,  \* <<payment, status>> that an administrator decided
  refunded,   \* total of the booked refunds
  returned,   \* money the provider has paid back
  now         \* the clock

promises == <<status, request, since>>
words == <<charge, decisions>>
money == <<refunded, returned>>
contractVars == <<promises, handover, words, money, now>>

ContractInit ==
  /\ status = [p \in Payments |-> "ABSENT"]
  /\ request = [p \in Payments |-> NoRequest]
  /\ since = [p \in Payments |-> 0]
  /\ handover = {}
  /\ charge = [p \in Payments |-> "none"]
  /\ decisions = {}
  /\ refunded = [p \in Payments |-> 0]
  /\ returned = [p \in Payments |-> 0]
  /\ now = 0

\* No other payment of the booking is in progress.
BookingFree(p, booking) ==
  \A q \in Payments \ {p} :
    status[q] \in OpenStatuses => request[q].booking # booking

(***************************************************************************)
(* The hand-over.                                                          *)
(***************************************************************************)

Create(req) ==
  /\ status[req.key] = "ABSENT"
  /\ BookingFree(req.key, req.booking)
  /\ status' = [status EXCEPT ![req.key] = "INITIATED"]
  /\ request' = [request EXCEPT ![req.key] = req]
  /\ since' = [since EXCEPT ![req.key] = now]
  /\ handover' = handover \cup {req.key}
  /\ UNCHANGED <<words, money, now>>

\* A payment that is being handed over has at most expired, or been failed.
NotYetHandedOver(p) ==
  /\ p \in handover
  /\ status[p] \in {"INITIATED", "EXPIRED", "FAILED"}

\* The provider gets one order; the call may end with it.
Order(p) ==
  /\ NotYetHandedOver(p)
  /\ charge[p] = "none"
  /\ charge' = [charge EXCEPT ![p] = "pending"]
  /\ handover' \in {handover, handover \ {p}}
  /\ UNCHANGED <<promises, decisions, money, now>>

\* The one way into AWAITING_CONFIRMATION, taken at most once.
Await(p) ==
  /\ NotYetHandedOver(p)
  /\ charge[p] # "none"
  /\ BookingFree(p, request[p].booking)
  /\ status' = [status EXCEPT ![p] = "AWAITING_CONFIRMATION"]
  /\ handover' = handover \ {p}
  /\ UNCHANGED <<request, since, words, money, now>>

\* Calls end early, or die with the server.
Abandon ==
  /\ handover' \subseteq handover
  /\ UNCHANGED <<promises, words, money, now>>

(***************************************************************************)
(* What settles a payment.                                                 *)
(***************************************************************************)

HandedOver(p) == p \notin handover /\ status[p] \notin {"ABSENT", "INITIATED"}

OlderThan(p, age) == since[p] + age <= now

MoveTo(p, to) ==
  /\ status' = [status EXCEPT ![p] = to]
  /\ UNCHANGED <<request, since, handover, words, money, now>>

Confirm(p) ==
  /\ HandedOver(p)
  /\ charge[p] = "confirmed" \/ <<p, "CONFIRMED">> \in decisions
  /\ MoveTo(p, "CONFIRMED")

\* An administrator may fail a payment that never reached the provider.
Fail(p) ==
  /\ \/ HandedOver(p) /\ charge[p] = "failed"
     \/ status[p] # "ABSENT" /\ <<p, "FAILED">> \in decisions
  /\ MoveTo(p, "FAILED")

Expire(p) ==
  /\ status[p] # "ABSENT"
  /\ OlderThan(p, TTL + 1)
  /\ MoveTo(p, "EXPIRED")

Review(p) ==
  /\ HandedOver(p)
  /\ OlderThan(p, ReviewAfter)
  /\ MoveTo(p, "MANUAL_REVIEW")

\* Only what was up for review.
Void(p) ==
  /\ HandedOver(p)
  /\ OlderThan(p, ReviewAfter)
  /\ MoveTo(p, "VOIDED")

(***************************************************************************)
(* Who speaks, and who pays.                                               *)
(***************************************************************************)

\* The provider speaks once.
Settle(p) ==
  /\ charge[p] = "pending"
  /\ \E verdict \in {"confirmed", "failed"} :
       charge' = [charge EXCEPT ![p] = verdict]
  /\ UNCHANGED <<promises, handover, decisions, money, now>>

Decide(p, resolution) ==
  /\ CanTransition(status[p], resolution)
  /\ decisions' = decisions \cup {<<p, resolution>>}
  /\ UNCHANGED <<promises, handover, charge, money, now>>

Book(p) ==
  /\ p \notin handover
  /\ status[p] \in RefundableStatuses
  /\ \E total \in (refunded[p] + 1)..request[p].amount :
       /\ refunded' = [refunded EXCEPT ![p] = total]
       /\ status' = [status EXCEPT ![p] = IF total = request[p].amount
                                          THEN "REFUNDED" ELSE "PARTIALLY_REFUNDED"]
  /\ UNCHANGED <<request, since, handover, words, returned, now>>

PayBack(p) ==
  /\ \E total \in returned[p]..(RefundTries * refunded[p]) :
       returned' = [returned EXCEPT ![p] = total]
  /\ UNCHANGED <<promises, handover, words, refunded, now>>

PassTime ==
  /\ now' = now + 1
  /\ UNCHANGED <<promises, handover, words, money>>

ContractNext ==
  \/ \E req \in Requests : Create(req)
  \/ \E p \in Payments :
       \/ Order(p) \/ Await(p) \/ Confirm(p) \/ Fail(p) \/ Expire(p)
       \/ Review(p) \/ Void(p) \/ Settle(p) \/ Book(p) \/ PayBack(p)
       \/ \E resolution \in {"CONFIRMED", "FAILED"} : Decide(p, resolution)
  \/ Abandon \/ PassTime

ContractSpec == ContractInit /\ [][ContractNext]_contractVars
==============================================================================
