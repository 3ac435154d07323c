-------------------------- MODULE EscrowAgreement --------------------------
(***************************************************************************)
(* What the Soroban rail promises of a payment and its escrow, with the    *)
(* queue, its jobs, their transactions, the endpoints and the answers in   *)
(* flight left out: the two records are written by different systems, and  *)
(* each may move only when the other stands where the promise wants it.    *)
(***************************************************************************)
EXTENDS Integers

CONSTANTS
  Payments,
  Amount,       \* what each payment is for
  Releasable    \* payments that somebody calls release() for

VARIABLES
  standing,   \* the payment's status; ABANDONED if it never awaited its payer
  escrow,     \* the contract's status of its escrow
  booked,     \* what is booked to be refunded
  repeated    \* a transaction may have been submitted more than once

AgreementInit ==
  /\ standing = [p \in Payments |-> "ABSENT"]
  /\ escrow = [p \in Payments |-> "NOT_FOUND"]
  /\ booked = [p \in Payments |-> 0]
  /\ repeated \in BOOLEAN

\* The payment moves.
MoveTo(p, to) ==
  /\ standing' = [standing EXCEPT ![p] = to]
  /\ UNCHANGED <<escrow, booked, repeated>>

Begin(p) == standing[p] = "ABSENT" /\ MoveTo(p, "INITIATED")

Await(p) == standing[p] = "INITIATED" /\ MoveTo(p, "AWAITING_CONFIRMATION")

Abandon(p) == standing[p] = "INITIATED" /\ MoveTo(p, "ABANDONED")

Expire(p) == standing[p] = "AWAITING_CONFIRMATION" /\ MoveTo(p, "EXPIRED")

\* Paid only when the escrow is funded, and not yet given back.
Confirm(p) ==
  /\ standing[p] = "AWAITING_CONFIRMATION"
  /\ escrow[p] \in {"LOCKED", "RELEASED"}
  /\ MoveTo(p, "CONFIRMED")

\* Failed only when the escrow never got the payer's money.
Fail(p) ==
  /\ standing[p] = "AWAITING_CONFIRMATION"
  /\ escrow[p] = "NOT_FOUND" \/ repeated
  /\ MoveTo(p, "FAILED")

Book(p) ==
  /\ standing[p] \in {"CONFIRMED", "PARTIALLY_REFUNDED"}
  /\ \E total \in (booked[p] + 1)..Amount :
       /\ booked' = [booked EXCEPT ![p] = total]
       /\ standing' = [standing EXCEPT
                         ![p] = IF total = Amount THEN "REFUNDED"
                                ELSE "PARTIALLY_REFUNDED"]
  /\ UNCHANGED <<escrow, repeated>>

\* The escrow moves.
EscrowTo(p, to) ==
  /\ escrow' = [escrow EXCEPT ![p] = to]
  /\ UNCHANGED <<standing, booked, repeated>>

\* The payer's money is taken for a payment that awaits it, or awaited it when
\* its transaction was signed and has expired since; never for one that was
\* abandoned, or that its payer was told has failed.
Fund(p) ==
  /\ escrow[p] = "NOT_FOUND"
  /\ \/ standing[p] \in {"AWAITING_CONFIRMATION", "EXPIRED"}
     \/ standing[p] = "FAILED" /\ repeated
  /\ EscrowTo(p, "LOCKED")

ReleaseFunds(p) ==
  /\ escrow[p] = "LOCKED"
  /\ p \in Releasable
  /\ EscrowTo(p, "RELEASED")

GiveBack(p) ==
  /\ escrow[p] = "LOCKED"
  /\ booked[p] > 0
  /\ EscrowTo(p, "REFUNDED")

\* The worker dies, and its job is run again.
Repeat ==
  /\ repeated' = TRUE
  /\ UNCHANGED <<standing, escrow, booked>>

AgreementNext ==
  \/ \E p \in Payments :
       \/ Begin(p) \/ Await(p) \/ Abandon(p) \/ Expire(p)
       \/ Confirm(p) \/ Fail(p) \/ Book(p)
       \/ Fund(p) \/ ReleaseFunds(p) \/ GiveBack(p)
  \/ Repeat

AgreementSpec ==
  AgreementInit /\ [][AgreementNext]_<<standing, escrow, booked, repeated>>
=============================================================================
