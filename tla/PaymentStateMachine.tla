------------------------ MODULE PaymentStateMachine ------------------------
(***************************************************************************)
(* The status lifecycle of a Payment: payment-state-machine.ts and the     *)
(* status sets that the services decide on.  Constant operators only.      *)
(***************************************************************************)

\* enum PaymentStatus.
Statuses ==
  {"INITIATED", "AWAITING_CONFIRMATION", "CONFIRMED", "FAILED", "EXPIRED",
   "REFUNDED", "PARTIALLY_REFUNDED", "MANUAL_REVIEW", "DISPUTED", "VOIDED"}

\* NON_TERMINAL_PAYMENT_STATUSES, also the WHERE of the booking's unique index.
OpenStatuses == {"INITIATED", "AWAITING_CONFIRMATION"}

\* BLOCKING_STATUSES_FOR_NEW_PAYMENT of PaymentsService.
BlockingStatuses == OpenStatuses \cup {"CONFIRMED"}

\* TERMINAL_STATUSES of PaymentConfirmationService.  DISPUTED, MANUAL_REVIEW
\* and VOIDED are not in it.
TerminalStatuses ==
  {"CONFIRMED", "FAILED", "EXPIRED", "REFUNDED", "PARTIALLY_REFUNDED"}

\* REFUNDABLE_STATUSES of RefundsService.
RefundableStatuses == {"CONFIRMED", "PARTIALLY_REFUNDED"}

\* ALLOWED_TRANSITIONS, as a relation.
AllowedTransitions ==
  ({"INITIATED"} \X {"AWAITING_CONFIRMATION", "FAILED", "EXPIRED"})
    \cup ({"AWAITING_CONFIRMATION"} \X
            {"CONFIRMED", "FAILED", "EXPIRED", "MANUAL_REVIEW"})
    \cup ({"CONFIRMED"} \X {"REFUNDED", "PARTIALLY_REFUNDED", "DISPUTED"})
    \cup ({"PARTIALLY_REFUNDED"} \X {"REFUNDED"})
    \cup ({"MANUAL_REVIEW"} \X {"CONFIRMED", "FAILED", "VOIDED"})
    \cup ({"DISPUTED"} \X {"REFUNDED"})

\* Mutant: the transition check of a handler is forgotten.
AnyTransition(from, to) == TRUE

\* canTransition; assertValidTransition throws (HTTP 422) when it is false.
CanTransition(from, to) == <<from, to>> \in AllowedTransitions
=============================================================================
