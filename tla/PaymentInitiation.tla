------------------------- MODULE PaymentInitiation -------------------------
(***************************************************************************)
(* PaymentsService.initiate: POST /payments/initiate, with its idempotency *)
(* key, the availability check of the booking, the insert whose unique     *)
(* indexes settle the races, and the hand-over to the payment rail.        *)
(***************************************************************************)
EXTENDS PaymentStore

\* assertSamePayload; the key is equal because the row was found by it.
SamePayload(row, req) == row.req = req

\* initiate up to its first SELECT: findByIdempotencyKey, assertSamePayload.
InitiateStart(c) ==
  /\ Start(c, "initiate")
  /\ \E req \in Requests :
       LET p == req.key
           call == [NewCall("initiate", p) EXCEPT !.given = NewRow(req, now)]
       IN GoTo(c, IF ~Exists(p) THEN At(call, "check_booking")
                  ELSE IF SamePayload(payments[p], req)
                       THEN Done([call EXCEPT !.snap = payments[p]], "ok")
                       ELSE Done(call, "conflict"))
  /\ UNCHANGED <<payments, refunded, events, rowLock, charge, returned,
                 decisions, now, restarts>>

BookingBlocked(booking) ==
  \E q \in Payments : /\ payments[q].status \in BlockingStatuses
                      /\ payments[q].req.booking = booking

\* assertBookingAvailable.
CheckBooking(c) ==
  LET call == calls[c] IN
  /\ Suspended(c, "check_booking")
  /\ GoTo(c, IF BookingBlocked(call.given.req.booking)
             THEN Done(call, "conflict") ELSE At(call, "insert"))
  /\ UNCHANGED <<payments, refunded, events, rowLock, charge, returned,
                 decisions, now, restarts>>

\* Mutant: there is no unique index on the user and the key.
NoKeyIndex(p) == FALSE

\* uq_payments_user_id_idempotency_key refuses the row.
KeyTaken(p) == Exists(p)

\* buildInitiatedPayment and the INSERT.  The key's index was created first
\* and is reported first (handleInsertConflict).
InsertPayment(c) ==
  LET call == calls[c]
      row == NewRow(call.given.req, now)
  IN
  /\ Suspended(c, "insert")
  /\ \/ /\ KeyTaken(call.pay)
        /\ GoTo(c, At(call, "read_winner"))
        /\ UNCHANGED payments
     \/ /\ ~KeyTaken(call.pay) /\ BookingTaken(call.pay, row)
        /\ GoTo(c, Done(call, "conflict"))
        /\ UNCHANGED payments
     \/ /\ ~KeyTaken(call.pay) /\ ~BookingTaken(call.pay, row)
        /\ payments' = [payments EXCEPT ![call.pay] = row]
        /\ GoTo(c, [call EXCEPT !.at = "rail_initiate", !.snap = row])
  /\ UNCHANGED <<refunded, events, rowLock, charge, returned, decisions, now,
                 restarts>>

\* handleInsertConflict after a violated key index: the winner's payment.
ReadWinner(c) ==
  LET call == calls[c] IN
  /\ Suspended(c, "read_winner")
  /\ GoTo(c, Done([call EXCEPT !.snap = payments[call.pay]], "ok"))
  /\ UNCHANGED <<payments, refunded, events, rowLock, charge, returned,
                 decisions, now, restarts>>

\* Mutant: the status moves on without the provider's reference.
NoReference(row) == [row EXCEPT !.status = "AWAITING_CONFIRMATION"]

AwaitingConfirmation(row) ==
  [row EXCEPT !.ref = TRUE, !.status = "AWAITING_CONFIRMATION"]

\* progressToAwaitingConfirmation up to its save(): the rail creates an order
\* at the provider, or throws; a lost answer leaves an order there as well.
RailInitiate(c) ==
  LET call == calls[c] IN
  /\ Suspended(c, "rail_initiate")
  /\ \/ /\ charge' = [charge EXCEPT ![call.pay] = "pending"]
        /\ GoTo(c, [call EXCEPT !.at = "save",
                                !.snap = AwaitingConfirmation(call.snap)])
     \/ /\ charge' \in {charge, [charge EXCEPT ![call.pay] = "pending"]}
        /\ GoTo(c, Done(call, "error"))
  /\ UNCHANGED <<payments, refunded, events, rowLock, returned, decisions, now,
                 restarts>>

Initiate(c) ==
  \/ InitiateStart(c) \/ CheckBooking(c) \/ InsertPayment(c)
  \/ ReadWinner(c) \/ RailInitiate(c)
=============================================================================
