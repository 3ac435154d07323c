--------------------------- MODULE ContractProofs ---------------------------
(***************************************************************************)
(* The services keep what they promise: one at a time the lifecycle of     *)
(* PaymentLifecycle, and however they overlap the contract of              *)
(* PaymentContract.  Both refinements are proved for every instance.       *)
(*                                                                         *)
(* The first rests on AloneInv: without overlaps, what a call has read is  *)
(* still so when it writes.  The second may not use that.  It rests on     *)
(* ContractInv: what a call has read may be out of date when it writes,    *)
(* but the grounds on which it decided are of the kind that lasts.  A      *)
(* payment that was handed over stays so, an order and a verdict stand,    *)
(* what an administrator decided was decided, and age only grows.  So      *)
(* every call carries the grounds of its decision to its UPDATE.           *)
(***************************************************************************)
EXTENDS ReferenceProofs

(***************************************************************************)
(* One call at a time.                                                     *)
(***************************************************************************)

\* Only one call is in flight.
Alone ==
  \A c, d \in Calls : c # d => calls[c].at = "idle" \/ calls[d].at = "idle"

\* The call is in the sweep of its pass.
Sweeping(call) ==
  \/ call.at = "sweep"
  \/ call.at \in {"save", "flush"} /\ call.snap.status = "EXPIRED"

\* The entities that are still to be swept are those of open payments, one of
\* each, and none of the payment that is being swept.
SweepsOpen(call, rows) ==
  \A item \in call.batch :
    /\ item[1] \in Payments
    /\ item[2].status = rows[item[1]].status
    /\ item[2].status \in OpenStatuses
    /\ call.at # "sweep" => item[1] # call.pay
    /\ \A other \in call.batch : other[1] = item[1] => other = item

\* What a call has found out still holds when it acts on it.
Foreseen(call, rows) ==
  /\ call.at \in {"check_booking", "insert"} =>
       call.given.req \in Requests /\ call.given.req.key = call.pay
  /\ call.at = "insert" =>
       \A q \in Payments : rows[q].status \in BlockingStatuses =>
         rows[q].req.booking # call.given.req.booking
  /\ call.at = "rail_initiate" => rows[call.pay].status = "INITIATED"
  /\ call.at \in {"save", "flush"} =>
       /\ CanTransition(rows[call.pay].status, call.snap.status)
       /\ call.snap.status \notin {"REFUNDED", "PARTIALLY_REFUNDED"}
  /\ call.at \in {"refund_sum", "refund_commit"} => call.amount >= 1
  /\ Sweeping(call) => SweepsOpen(call, rows)

AloneInv ==
  /\ Alone
  /\ \A c \in Calls : Foreseen(calls[c], payments)

Watched ==
  {"check_booking", "insert", "rail_initiate", "save", "flush", "refund_sum",
   "refund_commit", "sweep"}

\* Wherever else a call goes, it has nothing to rely on.
LEMMA Unwatched ==
  ASSUME NEW call, NEW rows, call.at \notin Watched
  PROVE  Foreseen(call, rows)
BY DEF Foreseen, Watched, Sweeping

\* A call that moves or starts is the only one in flight.
LEMMA OnlyOne ==
  ASSUME MaxInFlight = 1, IsFiniteSet(Calls), Alone, NEW c \in Calls,
         calls[c].at # "idle" \/ \E op : Start(c, op)
  PROVE  \A d \in Calls : d # c => calls[d].at = "idle"
<1> DEFINE flying == {d \in Calls : ~Suspended(d, "idle")}
<1>1. CASE calls[c].at # "idle"
  BY <1>1 DEF Alone
<1>2. CASE \E op : Start(c, op)
  <2>1. Cardinality(flying) < 1
    BY <1>2 DEF Start
  <2>2. IsFiniteSet(flying)
    BY FS_Subset
  <2>3. Cardinality(flying) = 0
    <3> HIDE DEF flying
    <3> QED
      BY <2>1, <2>2, FS_CardinalityType
  <2>4. flying = {}
    <3> HIDE DEF flying
    <3> QED
      BY <2>2, <2>3, FS_EmptySet
  <2> QED
    BY <2>4 DEF Suspended
<1> QED
  BY <1>1, <1>2

\* One call moves on while the others are idle.
LEMMA Moves ==
  ASSUME TypeInv, AloneInv, NEW c \in Calls, NEW call,
         \A d \in Calls : d # c => calls[d].at = "idle",
         GoTo(c, call), Foreseen(call, payments')
  PROVE  AloneInv'
<1>1. /\ calls'[c] = call
      /\ \A d \in Calls : d # c => calls'[d] = calls[d]
  BY DEF GoTo, TypeInv
<1>2. \A d \in Calls : d # c => calls'[d].at = "idle"
  BY <1>1
<1>3. Alone'
  BY <1>2 DEF Alone
<1>4. ASSUME NEW d \in Calls
      PROVE  Foreseen(calls'[d], payments')
  <2>1. CASE d = c
    BY <1>1, <2>1
  <2>2. CASE d # c
    BY <1>2, <2>2, Unwatched DEF Watched
  <2> QED
    BY <2>1, <2>2
<1> QED
  BY <1>3, <1>4 DEF AloneInv

\* The call goes on with nothing to rely on, or with what still holds.
GoesOnForeseen(c) == \E call : GoTo(c, call) /\ Foreseen(call, payments')

\* initiate().
LEMMA InitiateForeseen ==
  ASSUME TypeInv, AloneInv, NEW c \in Calls, Initiate(c)
  PROVE  GoesOnForeseen(c)
<1> DEFINE call == calls[c]
<1>0. call \in Call /\ call.snap \in Row /\ Foreseen(call, payments)
  BY CallType DEF AloneInv
<1>1. CASE InitiateStart(c)
  <2>1. PICK req \in Requests :
          LET p == req.key
              new == [NewCall("initiate", p) EXCEPT !.given = NewRow(req, now)]
          IN GoTo(c, IF ~Exists(p) THEN At(new, "check_booking")
                     ELSE IF SamePayload(payments[p], req)
                          THEN Done([new EXCEPT !.snap = payments[p]], "ok")
                          ELSE Done(new, "conflict"))
    BY <1>1 DEF InitiateStart
  <2> DEFINE p == req.key
             new == [NewCall("initiate", p) EXCEPT !.given = NewRow(req, now)]
  <2>2. \A result : Foreseen(Done(new, result), payments')
                    /\ Foreseen(Done([new EXCEPT !.snap = payments[p]], result), payments')
    BY DoneAt, Unwatched DEF Watched
  <2>3. /\ At(new, "check_booking").at = "check_booking"
        /\ At(new, "check_booking").given.req = req
        /\ At(new, "check_booking").pay = p
    BY DEF At, NewCall, IdleCall, NewRow
  <2>4. Foreseen(At(new, "check_booking"), payments')
    BY <2>3 DEF Foreseen, Sweeping
  <2> QED
    BY <2>1, <2>2, <2>4 DEF GoesOnForeseen
<1>2. CASE CheckBooking(c)
  <2>1. /\ payments' = payments
        /\ call.given.req \in Requests /\ call.given.req.key = call.pay
    BY <1>0, <1>2 DEF CheckBooking, Suspended, Foreseen
  <2>2. CASE BookingBlocked(call.given.req.booking)
    BY <1>2, <2>2, DoneAt, Unwatched DEF CheckBooking, GoesOnForeseen, Watched
  <2>3. CASE ~BookingBlocked(call.given.req.booking)
    <3>1. /\ At(call, "insert").at = "insert"
          /\ At(call, "insert").given = call.given
          /\ At(call, "insert").pay = call.pay
      BY <1>0 DEF At, Call
    <3>2. Foreseen(At(call, "insert"), payments')
      BY <2>1, <2>3, <3>1 DEF Foreseen, Sweeping, BookingBlocked
    <3> QED
      BY <1>2, <2>3, <3>2 DEF CheckBooking, GoesOnForeseen
  <2> QED
    BY <2>2, <2>3
<1>3. CASE InsertPayment(c)
  <2> DEFINE row == NewRow(call.given.req, now)
             inserted == [call EXCEPT !.at = "rail_initiate", !.snap = row]
  <2>1. CASE GoTo(c, At(call, "read_winner"))
    BY <1>0, <2>1, WhereCallsGo, Unwatched DEF GoesOnForeseen, Watched
  <2>2. CASE GoTo(c, Done(call, "conflict"))
    BY <2>2, DoneAt, Unwatched DEF GoesOnForeseen, Watched
  <2>3. CASE GoTo(c, inserted) /\ payments' = [payments EXCEPT ![call.pay] = row]
    <3>1. call.pay \in Payments
      BY <1>3, CallType DEF InsertPayment, Suspended, Working, Labels
    <3>2. inserted.at = "rail_initiate" /\ inserted.pay = call.pay
      BY <1>0 DEF Call
    <3>3. payments'[call.pay].status = "INITIATED"
      BY <2>3, <3>1 DEF NewRow, TypeInv, TypeOK
    <3> HIDE DEF inserted, call
    <3> QED
      BY <2>3, <3>2, <3>3 DEF Foreseen, Sweeping, GoesOnForeseen
  <2> QED
    BY <1>3, <2>1, <2>2, <2>3 DEF InsertPayment
<1>4. CASE ReadWinner(c)
  BY <1>4, DoneAt, Unwatched DEF ReadWinner, GoesOnForeseen, Watched
<1>5. CASE RailInitiate(c)
  <2> DEFINE saving == [call EXCEPT !.at = "save", !.snap = AwaitingConfirmation(call.snap)]
  <2>1. CASE GoTo(c, Done(call, "error"))
    BY <2>1, DoneAt, Unwatched DEF GoesOnForeseen, Watched
  <2>2. CASE GoTo(c, saving)
    <3>1. /\ payments' = payments
          /\ payments[call.pay].status = "INITIATED"
      BY <1>0, <1>5 DEF RailInitiate, Suspended, Foreseen
    <3>2. /\ saving.at = "save" /\ saving.pay = call.pay
          /\ saving.snap.status = "AWAITING_CONFIRMATION"
      BY <1>0 DEF Call, Row, AwaitingConfirmation
    <3> HIDE DEF saving, call
    <3> QED
      BY <2>2, <3>1, <3>2
         DEF Foreseen, Sweeping, GoesOnForeseen, CanTransition, AllowedTransitions
  <2> QED
    BY <1>5, <2>1, <2>2 DEF RailInitiate
<1> QED
  BY <1>1, <1>2, <1>3, <1>4, <1>5 DEF Initiate

\* A call whose entity is to be saved has just read the row.
LEMMA SavingForeseen ==
  ASSUME NEW call \in Call, NEW entity, NEW rows,
         call.pay \in Payments,
         CanTransition(rows[call.pay].status, entity.status),
         entity.status \notin {"EXPIRED", "REFUNDED", "PARTIALLY_REFUNDED"}
  PROVE  Foreseen([call EXCEPT !.at = "save", !.snap = entity], rows)
<1> DEFINE saving == [call EXCEPT !.at = "save", !.snap = entity]
<1>1. saving.at = "save" /\ saving.pay = call.pay /\ saving.snap = entity
  BY DEF Call
<1> HIDE DEF saving
<1> QED
  BY <1>1 DEF Foreseen, Sweeping, saving

\* Webhooks, verify-on-return and apply().
LEMMA ConfirmForeseen ==
  ASSUME TypeInv, NEW c \in Calls, Confirm(c), ~RejectWebhook(c)
  PROVE  GoesOnForeseen(c)
<1> DEFINE call == calls[c]
<1>0. call \in Call
  BY CallType
<1>1. CASE WebhookReceive(c)
  <2>1. PICK p \in Payments, outcome \in Outcomes :
          GoTo(c, [NewCall("webhook", p) EXCEPT !.at = "apply", !.arg = outcome])
    BY <1>1 DEF WebhookReceive, Answers, Outcomes, Verdicts
  <2>2. [NewCall("webhook", p) EXCEPT !.at = "apply", !.arg = outcome].at = "apply"
    BY DEF NewCall, IdleCall
  <2> QED
    BY <2>1, <2>2, Unwatched DEF GoesOnForeseen, Watched
<1>2. CASE VerifyReturnStart(c)
  <2>1. PICK p \in Payments :
          LET new == [NewCall("verify_return", p) EXCEPT !.given = payments[p]]
          IN GoTo(c, IF \/ payments[p].status \in TerminalStatuses
                        \/ ~payments[p].ref
                     THEN Done(new, "ok") ELSE At(new, "verify"))
    BY <1>2 DEF VerifyReturnStart
  <2> DEFINE new == [NewCall("verify_return", p) EXCEPT !.given = payments[p]]
  <2>2. Done(new, "ok").at = "done" /\ At(new, "verify").at = "verify"
    BY DoneAt DEF At, NewCall, IdleCall
  <2> QED
    BY <2>1, <2>2, Unwatched DEF GoesOnForeseen, Watched
<1>3. CASE VerifyAnswer(c)
  <2>1. PICK answer :
          GoTo(c, IF IsVerdict(answer)
                  THEN [call EXCEPT !.at = "apply", !.arg = answer]
                  ELSE IF call.op = "verify_return" THEN Done(call, answer)
                  ELSE [call EXCEPT !.at = "record", !.arg = answer])
    BY <1>3 DEF VerifyAnswer
  <2>2. /\ [call EXCEPT !.at = "apply", !.arg = answer].at = "apply"
        /\ [call EXCEPT !.at = "record", !.arg = answer].at = "record"
        /\ Done(call, answer).at = "done"
    BY <1>0, DoneAt DEF Call
  <2> QED
    BY <2>1, <2>2, Unwatched DEF GoesOnForeseen, Watched
<1>4. CASE Apply(c)
  <2> DEFINE row == payments[call.pay]
             next == Implied(call.arg)
             moved == [row EXCEPT !.status = next]
  <2>1. call.pay \in Payments /\ row \in Row /\ payments' = payments
    BY <1>4, CallType, PaymentType DEF Apply, Suspended, Working, Labels
  <2>2. CASE GoTo(c, [call EXCEPT !.at = "save", !.snap = moved]) /\ CanTransition(row.status, next)
    <3>1. moved.status = next /\ next \in {"CONFIRMED", "FAILED"}
      BY <2>1 DEF Row, Implied
    <3> HIDE DEF moved, next
    <3> QED
      BY <1>0, <2>1, <2>2, <3>1, SavingForeseen DEF GoesOnForeseen
  <2>3. CASE \E entity : GoTo(c, [call EXCEPT !.at = "log", !.snap = entity])
    <3>1. \A entity : [call EXCEPT !.at = "log", !.snap = entity].at = "log"
      BY <1>0 DEF Call
    <3> QED
      BY <2>3, <3>1, Unwatched DEF GoesOnForeseen, Watched
  <2>4. CASE GoTo(c, Thrown(call))
    BY <1>0, <2>4, WhereCallsGo, Unwatched DEF GoesOnForeseen, Watched
  <2> QED
    BY <1>4, <2>2, <2>3, <2>4 DEF Apply
<1>5. CASE LogNoOp(c) \/ LogApplied(c)
  BY <1>0, <1>5, WhereCallsGo, Unwatched DEF LogNoOp, LogApplied, GoesOnForeseen, Watched
<1> QED
  BY <1>1, <1>2, <1>3, <1>4, <1>5 DEF Confirm

\* The scheduled pass: the sweep's entities are those of open payments.
LEMMA PassForeseen ==
  ASSUME TypeInv, AloneInv, NEW c \in Calls, ReconciliationPass(c)
  PROVE  GoesOnForeseen(c)
<1> DEFINE call == calls[c]
<1>0. /\ call \in Call /\ Foreseen(call, payments)
      /\ call.batch \in SUBSET (Payments \X Row)
  BY CallType DEF AloneInv
<1>p. payments' = payments
  BY DEF ReconciliationPass, CronStart, SweepOne, FindAwaiting, PollOne, PassEnd
<1>1. CASE CronStart(c)
  <2> DEFINE batch == Snapshots({p \in Payments : IsExpired(payments[p])})
             new == [NewCall("cron", None) EXCEPT !.at = "sweep", !.time = now,
                                                  !.batch = batch]
  <2>1. new.at = "sweep" /\ new.batch = batch
    BY DEF NewCall, IdleCall
  <2>2. \A item \in batch : /\ item[1] \in Payments
                            /\ item = <<item[1], payments[item[1]]>>
                            /\ item[2] = payments[item[1]]
                            /\ item[2].status \in OpenStatuses
    BY DEF Snapshots, IsExpired
  <2>3. SweepsOpen(new, payments)
    <3> HIDE DEF batch, new
    <3> QED
      BY <2>1, <2>2 DEF SweepsOpen
  <2>4. Foreseen(new, payments')
    <3> HIDE DEF batch, new
    <3> QED
      BY <1>p, <2>1, <2>3 DEF Foreseen
  <2> QED
    BY <1>1, <2>4 DEF CronStart, GoesOnForeseen
<1>2. CASE SweepOne(c)
  <2>1. PICK item \in call.batch :
          GoTo(c, [call EXCEPT !.at = "save", !.pay = item[1],
                               !.snap = Expired(item[2]), !.batch = @ \ {item}])
    BY <1>2 DEF SweepOne
  <2> DEFINE new == [call EXCEPT !.at = "save", !.pay = item[1],
                       !.snap = Expired(item[2]), !.batch = @ \ {item}]
  <2>2. SweepsOpen(call, payments)
    BY <1>0, <1>2 DEF SweepOne, Suspended, Foreseen, Sweeping
  <2>3. /\ new.at = "save" /\ new.pay = item[1] /\ new.batch = call.batch \ {item}
        /\ new.snap = Expired(item[2])
    BY <1>0 DEF Call
  <2>4. new.snap.status = "EXPIRED"
    BY <1>0, <2>3 DEF Expired, Row
  <2>5. CanTransition(payments[item[1]].status, "EXPIRED")
    BY <2>2 DEF SweepsOpen, CanTransition, AllowedTransitions, OpenStatuses
  <2>6. SweepsOpen(new, payments)
    <3> HIDE DEF new
    <3> QED
      BY <2>2, <2>3 DEF SweepsOpen
  <2>7. Foreseen(new, payments')
    <3> HIDE DEF new
    <3> QED
      BY <1>p, <2>3, <2>4, <2>5, <2>6 DEF Foreseen
  <2> QED
    BY <2>1, <2>7 DEF GoesOnForeseen
<1>3. CASE FindAwaiting(c)
  <2>1. PICK batch : GoTo(c, [call EXCEPT !.at = "poll", !.batch = batch])
    BY <1>3 DEF FindAwaiting
  <2>2. [call EXCEPT !.at = "poll", !.batch = batch].at = "poll"
    BY <1>0 DEF Call
  <2> QED
    BY <2>1, <2>2, Unwatched DEF GoesOnForeseen, Watched
<1>4. CASE PollOne(c)
  <2>1. PICK item : GoTo(c, [call EXCEPT !.at = "verify", !.pay = item[1],
                                         !.given = item[2], !.batch = @ \ {item}])
    BY <1>4 DEF PollOne
  <2>2. [call EXCEPT !.at = "verify", !.pay = item[1], !.given = item[2],
                     !.batch = @ \ {item}].at = "verify"
    BY <1>0 DEF Call
  <2> QED
    BY <2>1, <2>2, Unwatched DEF GoesOnForeseen, Watched
<1>5. CASE PassEnd(c)
  BY <1>5, Unwatched DEF PassEnd, GoesOnForeseen, Watched, IdleCall
<1> QED
  BY <1>1, <1>2, <1>3, <1>4, <1>5 DEF ReconciliationPass

\* The rest of reconciliation.
LEMMA ReconcileForeseen ==
  ASSUME TypeInv, NEW c \in Calls, Reconcile(c)
  PROVE  GoesOnForeseen(c)
<1> DEFINE call == calls[c]
           fresh == payments[call.pay]
           escalated == [fresh EXCEPT !.status = "MANUAL_REVIEW"]
<1>0. call \in Call
  BY CallType
<1>1. CASE AfterApply(c)
  BY <1>0, <1>1, WhereCallsGo, Unwatched DEF AfterApply, GoesOnForeseen, Watched
<1>2. CASE RecordAttempt(c)
  BY <1>0, <1>2, WhereCallsGo, Unwatched DEF RecordAttempt, GoesOnForeseen, Watched
<1>3. CASE Escalate(c)
  <2>1. call.pay \in Payments /\ fresh \in Row /\ payments' = payments
    BY <1>3, CallType, PaymentType DEF Escalate, Suspended, Working, Labels
  <2>2. CASE GoTo(c, Thrown(call))
    BY <1>0, <2>2, WhereCallsGo, Unwatched DEF GoesOnForeseen, Watched
  <2>3. CASE /\ GoTo(c, [call EXCEPT !.at = "save", !.snap = escalated])
             /\ CanTransition(fresh.status, "MANUAL_REVIEW")
    <3>1. escalated.status = "MANUAL_REVIEW"
      BY <2>1 DEF Row
    <3> HIDE DEF escalated
    <3> QED
      BY <1>0, <2>1, <2>3, <3>1, SavingForeseen DEF GoesOnForeseen
  <2> QED
    BY <1>3, <2>2, <2>3 DEF Escalate
<1> QED
  BY <1>1, <1>2, <1>3 DEF Reconcile

\* The administrator's actions.
LEMMA AdministerForeseen ==
  ASSUME TypeInv, NEW c \in Calls, Administer(c)
  PROVE  GoesOnForeseen(c)
<1>p. payments' = payments
  BY DEF Administer, ForceReconcile, ResolveManually, VoidPayment
<1>1. CASE ForceReconcile(c)
  <2>1. PICK p : GoTo(c, [NewCall("force", p) EXCEPT
                            !.at = "verify", !.given = payments[p], !.time = now])
    BY <1>1 DEF ForceReconcile
  <2>2. [NewCall("force", p) EXCEPT !.at = "verify", !.given = payments[p],
                                    !.time = now].at = "verify"
    BY DEF NewCall, IdleCall
  <2> QED
    BY <2>1, <2>2, Unwatched DEF GoesOnForeseen, Watched
<1>2. ASSUME NEW op \in AllOperations, NEW p \in Payments, NEW entity,
             GoTo(c, [NewCall(op, p) EXCEPT !.at = "save", !.snap = entity]),
             CanTransition(payments[p].status, entity.status),
             entity.status \notin {"EXPIRED", "REFUNDED", "PARTIALLY_REFUNDED"}
      PROVE  GoesOnForeseen(c)
  <2>1. NewCall(op, p) \in Call /\ NewCall(op, p).pay = p
    BY NewCallType
  <2>2. Foreseen([NewCall(op, p) EXCEPT !.at = "save", !.snap = entity], payments')
    BY <1>p, <1>2, <2>1, SavingForeseen
  <2> QED
    BY <1>2, <2>2 DEF GoesOnForeseen
<1>3. CASE ResolveManually(c)
  <2>1. PICK p \in Payments, resolution \in {"CONFIRMED", "FAILED"} :
          /\ CanTransition(payments[p].status, resolution)
          /\ GoTo(c, [NewCall("resolve", p) EXCEPT
                        !.at = "save", !.snap = Resolved(payments[p], resolution)])
    BY <1>3 DEF ResolveManually
  <2>2. Resolved(payments[p], resolution).status = resolution
    BY PaymentType DEF Resolved, Row
  <2> QED
    BY <1>2, <2>1, <2>2 DEF AllOperations
<1>4. CASE VoidPayment(c)
  <2>1. PICK p \in Payments :
          /\ CanTransition(payments[p].status, "VOIDED")
          /\ GoTo(c, [NewCall("void", p) EXCEPT
                        !.at = "save", !.snap = [payments[p] EXCEPT !.status = "VOIDED"]])
    BY <1>4 DEF VoidPayment
  <2>2. [payments[p] EXCEPT !.status = "VOIDED"].status = "VOIDED"
    BY PaymentType DEF Row
  <2> QED
    BY <1>2, <2>1, <2>2 DEF AllOperations
<1> QED
  BY <1>1, <1>3, <1>4 DEF Administer

\* Refunds ask for something.
LEMMA RefundForeseen ==
  ASSUME TypeInv, AloneInv, NEW c \in Calls, Refund(c)
  PROVE  GoesOnForeseen(c)
<1> DEFINE call == calls[c]
<1>0. call \in Call /\ Foreseen(call, payments)
  BY CallType DEF AloneInv
<1>1. CASE RefundLock(c)
  <2>1. PICK p \in Payments, amount \in RefundAmounts :
          GoTo(c, [NewCall("refund", p) EXCEPT
                     !.at = "refund_sum", !.snap = payments[p], !.amount = amount])
    BY <1>1 DEF RefundLock
  <2> DEFINE new == [NewCall("refund", p) EXCEPT
                       !.at = "refund_sum", !.snap = payments[p], !.amount = amount]
  <2>2. new.at = "refund_sum" /\ new.amount = amount
    BY DEF NewCall, IdleCall
  <2>3. amount >= 1
    BY StoreAssumption
  <2>4. Foreseen(new, payments')
    <3> HIDE DEF new
    <3> QED
      BY <2>2, <2>3 DEF Foreseen, Sweeping
  <2> QED
    BY <2>1, <2>4 DEF GoesOnForeseen
<1>2. CASE RefundSum(c)
  <2> DEFINE new == [call EXCEPT !.at = "refund_commit", !.sum = refunded[call.pay]]
  <2>1. new.at = "refund_commit" /\ new.amount = call.amount
    BY <1>0 DEF Call
  <2>2. call.amount >= 1
    BY <1>0, <1>2 DEF RefundSum, Suspended, Foreseen
  <2>3. Foreseen(new, payments')
    <3> HIDE DEF new, call
    <3> QED
      BY <2>1, <2>2 DEF Foreseen, Sweeping
  <2>4. Foreseen(Done(call, "conflict"), payments')
    BY DoneAt, Unwatched DEF Watched
  <2> QED
    BY <1>2, <2>3, <2>4 DEF RefundSum, GoesOnForeseen
<1>3. CASE RefundCommit(c)
  <2>1. [call EXCEPT !.at = "refund_provider", !.sum = 0].at = "refund_provider"
    BY <1>0 DEF Call
  <2> QED
    BY <1>3, <2>1, Unwatched DEF RefundCommit, GoesOnForeseen, Watched
<1>4. CASE RefundProvider(c)
  <2>1. [call EXCEPT !.sum = @ + 1].at = "refund_provider"
    BY <1>0, <1>4 DEF RefundProvider, Suspended, Call
  <2>2. Done(call, "ok").at = "done"
    BY DoneAt
  <2> QED
    BY <1>4, <2>1, <2>2, Unwatched DEF RefundProvider, GoesOnForeseen, Watched
<1> QED
  BY <1>1, <1>2, <1>3, <1>4 DEF Refund

\* After a save() the sweep goes on with other payments.
LEMMA AfterSaveForeseen ==
  ASSUME TypeInv, NEW call \in Call, call.at \in {"save", "flush"},
         Foreseen(call, payments),
         NEW rows, \A p \in Payments : p # call.pay => rows[p] = payments[p]
  PROVE  Foreseen(AfterSave(call), rows)
<1>1. CASE AfterSave(call).at # "sweep"
  BY <1>1, WhereCallsGo, Unwatched DEF Watched
<1>2. CASE AfterSave(call).at = "sweep"
  <2>1. \A label : /\ NextItem(call, label).at = label
                   /\ NextItem(call, label).batch = call.batch
    BY DEF NextItem, Call
  <2>2. [call EXCEPT !.at = "log_applied", !.dirty = {}].at = "log_applied"
    BY DEF Call
  <2>3. call.snap.status = "EXPIRED" /\ AfterSave(call) = NextItem(call, "sweep")
    BY <1>2, <2>1, <2>2, DoneAt DEF AfterSave
  <2>4. SweepsOpen(call, payments)
    BY <2>3 DEF Foreseen, Sweeping
  <2>5. \A item \in call.batch : rows[item[1]] = payments[item[1]]
    BY <2>4 DEF SweepsOpen
  <2>6. SweepsOpen(AfterSave(call), rows)
    BY <1>2, <2>1, <2>3, <2>4, <2>5 DEF SweepsOpen
  <2> QED
    BY <1>2, <2>6 DEF Foreseen
<1> QED
  BY <1>1, <1>2

\* save().
LEMMA SaveForeseen ==
  ASSUME TypeInv, AloneInv, NEW c \in Calls, Save(c)
  PROVE  GoesOnForeseen(c)
<1> DEFINE call == calls[c]
           flushing == [call EXCEPT !.at = "flush",
                                    !.dirty = Changed(payments[call.pay], call.snap)]
<1>0. call \in Call /\ Foreseen(call, payments) /\ call.at \in {"save", "flush"}
  BY CallType DEF AloneInv, Save, SaveSelect, SaveUpdate, Suspended
<1>1. \A p \in Payments : p # call.pay => payments'[p] = payments[p]
  BY DEF Save, SaveSelect, SaveUpdate, TypeInv, TypeOK
<1>2. Foreseen(AfterSave(call), payments')
  BY <1>0, <1>1, AfterSaveForeseen
<1>3. Foreseen(Done(call, "conflict"), payments')
  BY DoneAt, Unwatched DEF Watched
<1>4. CASE GoTo(c, flushing) /\ payments' = payments
  <2>1. /\ flushing.at = "flush" /\ flushing.pay = call.pay
        /\ flushing.snap = call.snap /\ flushing.batch = call.batch
    BY <1>0 DEF Call
  <2>2. Foreseen(flushing, payments)
    <3> HIDE DEF flushing, call
    <3> QED
      BY <1>0, <2>1 DEF Foreseen, Sweeping, SweepsOpen
  <2> QED
    BY <1>4, <2>2 DEF GoesOnForeseen
<1> QED
  BY <1>2, <1>3, <1>4 DEF Save, SaveSelect, SaveUpdate, GoesOnForeseen

\* At first nothing is in flight.
LEMMA AloneInit == Init => AloneInv
<1> SUFFICES ASSUME Init
             PROVE  AloneInv
  OBVIOUS
<1>1. \A c \in Calls : calls[c].at = "idle"
  BY DEF Init, IdleCall
<1> QED
  BY <1>1, Unwatched DEF AloneInv, Alone, Watched

\* With one call at a time, each call finds what it has left.
LEMMA AloneStep ==
  ASSUME MaxInFlight = 1, IsFiniteSet(Calls), TypeInv, AloneInv, [Next]_vars
  PROVE  AloneInv'
<1>1. CASE payments' = payments /\ calls' = calls
  BY <1>1 DEF AloneInv, Alone
<1>2. CASE Restart
  <2>1. \A c \in Calls : calls'[c].at = "idle"
    BY <1>2 DEF Restart, IdleCall
  <2> QED
    BY <2>1, Unwatched DEF AloneInv, Alone, Watched
<1>3. ASSUME NEW c \in Calls, GoesOnForeseen(c),
             calls[c].at # "idle" \/ \E op : Start(c, op)
      PROVE  AloneInv'
  BY <1>3, OnlyOne, Moves DEF AloneInv, GoesOnForeseen
<1>4. CASE \E c \in Calls : \/ Initiate(c) \/ Confirm(c) \/ ReconciliationPass(c)
                            \/ Reconcile(c) \/ Administer(c) \/ Refund(c) \/ Save(c)
  <2>1. PICK c \in Calls : \/ Initiate(c) \/ Confirm(c) \/ ReconciliationPass(c)
                           \/ Reconcile(c) \/ Administer(c) \/ Refund(c) \/ Save(c)
    BY <1>4
  <2>2. CASE RejectWebhook(c)
    BY <1>1, <2>2 DEF RejectWebhook
  <2>3. CASE ~RejectWebhook(c)
    <3>1. GoesOnForeseen(c)
      BY <2>1, <2>3, InitiateForeseen, ConfirmForeseen, PassForeseen,
         ReconcileForeseen, AdministerForeseen, RefundForeseen, SaveForeseen
    <3>2. calls[c].at # "idle" \/ \E op : Start(c, op)
      <4>1. Initiate(c) => calls[c].at # "idle" \/ \E op : Start(c, op)
        BY DEF Initiate, InitiateStart, CheckBooking, InsertPayment, ReadWinner,
               RailInitiate, Suspended
      <4>2. Confirm(c) => calls[c].at # "idle" \/ \E op : Start(c, op)
        BY DEF Confirm, WebhookReceive, RejectWebhook, VerifyReturnStart,
               VerifyAnswer, Apply, LogNoOp, LogApplied, Suspended
      <4>3. ReconciliationPass(c) => calls[c].at # "idle" \/ \E op : Start(c, op)
        BY DEF ReconciliationPass, CronStart, SweepOne, FindAwaiting, PollOne,
               PassEnd, Suspended
      <4>4. Reconcile(c) \/ Administer(c)
            => calls[c].at # "idle" \/ \E op : Start(c, op)
        BY DEF Reconcile, AfterApply, RecordAttempt, Escalate, Administer,
               ForceReconcile, ResolveManually, VoidPayment, Suspended
      <4>5. Refund(c) \/ Save(c) => calls[c].at # "idle" \/ \E op : Start(c, op)
        BY DEF Refund, RefundLock, RefundSum, RefundCommit, RefundProvider, Save,
               SaveSelect, SaveUpdate, Suspended
      <4> QED
        BY <2>1, <4>1, <4>2, <4>3, <4>4, <4>5
    <3> QED
      BY <1>3, <3>1, <3>2
  <2> QED
    BY <2>2, <2>3
<1>5. CASE \E c \in Calls : Reply(c)
  <2>1. PICK c \in Calls : Reply(c)
    BY <1>5
  <2>2. GoesOnForeseen(c)
    BY <2>1, Unwatched DEF Reply, GoesOnForeseen, Watched, IdleCall
  <2> QED
    BY <1>3, <2>1, <2>2 DEF Reply, Suspended
<1>6. CASE ProviderSettle \/ Tick \/ UNCHANGED vars
  BY <1>1, <1>6 DEF ProviderSettle, Tick, vars
<1> QED
  BY <1>2, <1>4, <1>5, <1>6
     DEF Next, HttpStep, CronStep, Confirm, Calls

\* The promised lifecycle speaks of the same statuses.
LEMMA SameStatuses ==
  /\ Lifecycle!Statuses = Statuses
  /\ Lifecycle!OpenStatuses = OpenStatuses
  /\ Lifecycle!BlockingStatuses = BlockingStatuses
  /\ Lifecycle!RefundableStatuses = RefundableStatuses
  /\ Lifecycle!AllowedTransitions = AllowedTransitions
BY DEF Lifecycle!Statuses, Statuses, Lifecycle!OpenStatuses, OpenStatuses,
       Lifecycle!BlockingStatuses, BlockingStatuses, Lifecycle!RefundableStatuses,
       RefundableStatuses, Lifecycle!AllowedTransitions, AllowedTransitions

StatusOf == [p \in Payments |-> payments[p].status]
RequestOf == [p \in Payments |-> payments[p].req]

\* One row is written, as the lifecycle sees it.
LEMMA RowSeen ==
  ASSUME TypeInv, NEW p \in Payments, NEW row \in Row,
         payments' = [payments EXCEPT ![p] = row]
  PROVE  /\ StatusOf' = [StatusOf EXCEPT ![p] = row.status]
         /\ RequestOf' = [RequestOf EXCEPT ![p] = row.req]
         /\ row.status = payments[p].status => StatusOf' = StatusOf
         /\ row.req = payments[p].req => RequestOf' = RequestOf
BY DEF StatusOf, RequestOf, TypeInv, TypeOK

\* The INSERT of initiate() creates a payment for a booking that is free.
LEMMA InsertCreates ==
  ASSUME TypeInv, AloneInv, NEW c \in Calls, InsertPayment(c), payments' # payments
  PROVE  \E req \in Requests : Lifecycle!Create(req)
<1> DEFINE call == calls[c]
           req == call.given.req
           row == NewRow(req, now)
<1>1. /\ call.pay \in Payments
      /\ req \in Requests /\ req.key = call.pay
      /\ \A q \in Payments : payments[q].status \in BlockingStatuses =>
           payments[q].req.booking # req.booking
  BY CallType DEF InsertPayment, Suspended, Working, Labels, AloneInv, Foreseen
<1>2. /\ payments' = [payments EXCEPT ![call.pay] = row]
      /\ payments[call.pay].status = "ABSENT"
      /\ refunded' = refunded
  BY DEF InsertPayment, KeyTaken, Exists
<1>3. row.status = "INITIATED" /\ row.req = req /\ row \in Row
  BY <1>1, NewRowType DEF NewRow, TypeInv, TypeOK
<1> HIDE DEF row, req, call
<1>4. /\ StatusOf' = [StatusOf EXCEPT ![req.key] = "INITIATED"]
      /\ RequestOf' = [RequestOf EXCEPT ![req.key] = req]
  <2>1. /\ StatusOf' = [StatusOf EXCEPT ![call.pay] = row.status]
        /\ RequestOf' = [RequestOf EXCEPT ![call.pay] = row.req]
    BY <1>1, <1>2, <1>3, RowSeen
  <2> QED
    BY <1>1, <1>3, <2>1
<1>5. Lifecycle!Create(req)
  BY <1>1, <1>2, <1>4, SameStatuses DEF Lifecycle!Create, StatusOf, RequestOf
<1> QED
  BY <1>1, <1>5 DEF Lifecycle!Create

\* The UPDATE of a save() moves a payment along the table, or leaves its status.
LEMMA SaveMoves ==
  ASSUME TypeInv, AloneInv, NEW c \in Calls, SaveUpdate(c), payments' # payments
  PROVE  \/ \E p \in Payments, s \in Statuses : Lifecycle!Move(p, s)
         \/ UNCHANGED <<StatusOf, RequestOf, refunded>>
<1> DEFINE call == calls[c]
           row == Written(payments[call.pay], call.snap, call.dirty)
<1>1. /\ call.pay \in Payments /\ payments[call.pay] \in Row
      /\ call.snap \in Row /\ call.dirty \in SUBSET Columns
  BY CallType, PaymentType DEF SaveUpdate, Suspended, Working, Labels
<1>2. /\ payments' = [payments EXCEPT ![call.pay] = row]
      /\ refunded' = refunded
  BY DEF SaveUpdate
<1>3. /\ CanTransition(payments[call.pay].status, call.snap.status)
      /\ call.snap.status \notin {"REFUNDED", "PARTIALLY_REFUNDED"}
  BY DEF SaveUpdate, Suspended, AloneInv, Foreseen
<1>4. /\ row \in Row /\ row.req = payments[call.pay].req
      /\ row.status \in {payments[call.pay].status, call.snap.status}
  BY <1>1, WrittenType
<1>5. call.snap.status \in Statuses
  BY <1>3 DEF CanTransition, AllowedTransitions, Statuses
<1> HIDE DEF row, call
<1>6. RequestOf' = RequestOf
  BY <1>1, <1>2, <1>4, RowSeen
<1>7. CASE row.status = payments[call.pay].status
  BY <1>1, <1>2, <1>4, <1>6, <1>7, RowSeen
<1>8. CASE row.status = call.snap.status
  <2>1. StatusOf' = [StatusOf EXCEPT ![call.pay] = call.snap.status]
    <3>1. StatusOf' = [StatusOf EXCEPT ![call.pay] = row.status]
      BY <1>1, <1>2, <1>4, RowSeen
    <3> QED
      BY <1>8, <3>1
  <2>2. Lifecycle!Move(call.pay, call.snap.status)
    BY <1>1, <1>2, <1>3, <1>6, <2>1, SameStatuses
       DEF Lifecycle!Move, CanTransition, StatusOf, RequestOf
  <2> QED
    BY <1>1, <1>5, <2>2 DEF Lifecycle!Move
<1> QED
  BY <1>4, <1>7, <1>8

\* The COMMIT of a refund books it on a refundable payment.
LEMMA CommitBooks ==
  ASSUME TypeInv, RefundInv, AloneInv, NEW c \in Calls, RefundCommit(c)
  PROVE  \E p \in Payments : Lifecycle!BookRefund(p)
<1> DEFINE call == calls[c]
           p == call.pay
           row == [payments[p] EXCEPT !.status = RefundedStatus(call)]
<1>1. /\ p \in Payments /\ payments[p] \in Row
      /\ refunded[p] \in Nat /\ call.amount \in Nat
  BY CallType, PaymentType DEF RefundCommit, Suspended, Working, Labels
<1>2. /\ call.snap = payments[p] /\ call.snap.status \in RefundableStatuses
      /\ call.sum = refunded[p]
      /\ call.sum + call.amount <= Amount(call.snap)
      /\ call.amount >= 1
  BY DEF RefundCommit, Suspended, RefundInv, LockedRowIsCurrent, SumIsCurrent,
         InTransaction, AloneInv, Foreseen
<1>3. /\ payments' = [payments EXCEPT ![p] = row]
      /\ refunded' = [refunded EXCEPT ![p] = @ + call.amount]
  BY DEF RefundCommit
<1>4. row.status = RefundedStatus(call) /\ row.req = payments[p].req /\ row \in Row
  BY <1>1 DEF Row, RefundedStatus, Statuses
<1>5. Amount(payments[p]) = RequestOf[p].amount /\ Amount(payments[p]) \in Nat
  BY <1>1, StoreAssumption DEF Amount, RequestOf, Row, NoRequest
<1>6. RefundedStatus(call) = IF refunded[p] + call.amount = RequestOf[p].amount
                             THEN "REFUNDED" ELSE "PARTIALLY_REFUNDED"
  BY <1>1, <1>2, <1>5 DEF RefundedStatus
<1>7. call.amount \in 1..(RequestOf[p].amount - refunded[p])
  BY <1>1, <1>2, <1>5
<1> DEFINE amount == call.amount
<1> HIDE DEF row, p, amount, call
<1>8. /\ StatusOf' = [StatusOf EXCEPT ![p] = RefundedStatus(call)]
      /\ RequestOf' = RequestOf
  BY <1>1, <1>3, <1>4, RowSeen
<1>9. Lifecycle!BookRefund(p)
  <2>1. StatusOf[p] \in RefundableStatuses
    BY <1>1, <1>2 DEF StatusOf
  <2> QED
    BY <1>3, <1>6, <1>7, <1>8, <2>1, SameStatuses
       DEF Lifecycle!BookRefund, StatusOf, RequestOf
<1> QED
  BY <1>1, <1>9 DEF Lifecycle!BookRefund

\* Every step of the services is one that the lifecycle allows, or none to it.
LEMMA LifecycleStep ==
  ASSUME TypeInv, RefundInv, AloneInv, [Next]_vars
  PROVE  \/ Lifecycle!LifecycleNext
         \/ UNCHANGED <<StatusOf, RequestOf, refunded>>
<1>1. CASE \E c \in Calls : RefundCommit(c)
  BY <1>1, CommitBooks DEF Lifecycle!LifecycleNext
<1>2. CASE ~\E c \in Calls : RefundCommit(c)
  <2>1. refunded' = refunded
    BY <1>2, LedgerWriters DEF vars
  <2>2. CASE payments' = payments
    BY <2>1, <2>2 DEF StatusOf, RequestOf
  <2>3. CASE payments' # payments
    <3>1. PICK c \in Calls : \/ InsertPayment(c) \/ SaveUpdate(c)
                            \/ AfterApply(c) \/ RecordAttempt(c)
      BY <1>2, <2>3, PaymentWriters DEF vars
    <3>2. CASE InsertPayment(c)
      BY <2>3, <3>2, InsertCreates DEF Lifecycle!LifecycleNext
    <3>3. CASE SaveUpdate(c)
      BY <2>3, <3>3, SaveMoves, SameStatuses DEF Lifecycle!LifecycleNext
    <3>4. CASE AfterApply(c) \/ RecordAttempt(c)
      <4>1. \A p \in Payments : /\ payments'[p].status = payments[p].status
                                /\ payments'[p].req = payments[p].req
        BY <3>4, Bookkeeping DEF TypeInv, TypeOK
      <4> QED
        BY <2>1, <4>1 DEF StatusOf, RequestOf
    <3> QED
      BY <3>1, <3>2, <3>3, <3>4
  <2> QED
    BY <2>2, <2>3
<1> QED
  BY <1>1, <1>2

\* If no two calls overlap, the services keep the promises of PaymentLifecycle:
\* payments are created for free bookings, move along ALLOWED_TRANSITIONS, and
\* are refunded within what was captured, whichever operations follow each
\* other and wherever the process dies.
THEOREM OneAtATimeKeepsLifecycle ==
  ASSUME MaxInFlight = 1, IsFiniteSet(Calls)
  PROVE  Spec => ImplementsLifecycle
<1>1. Init => Lifecycle!LifecycleInit
  BY DEF Init, NoRow, NewRow, Lifecycle!LifecycleInit
<1>2. Init => AloneInv
  BY AloneInit
<1>3. TypeInv /\ AloneInv /\ [Next]_vars => AloneInv'
  BY AloneStep
<1>4. TypeInv /\ RefundInv /\ AloneInv /\ [Next]_vars
      => [Lifecycle!LifecycleNext]_Lifecycle!lifecycleVars
  BY LifecycleStep DEF Lifecycle!lifecycleVars, StatusOf, RequestOf
<1> QED
  BY <1>1, <1>2, <1>3, <1>4, TypeInvAlways, RefundInvAlways, PTL
     DEF Spec, ImplementsLifecycle, Lifecycle!LifecycleSpec

(***************************************************************************)
(* Any calls at once: the contract.                                        *)
(***************************************************************************)

\* Payments that are through with initiate() and have left INITIATED, for good.
Handed == {p \in Payments : Settled(p) /\ payments[p].status # "INITIATED"}

\* Payments with an order at the provider, and payments of some age.
Ordered == {p \in Payments : charge[p] # "none"}

Aged(age) == {p \in Payments : Exists(p) /\ payments[p].createdAt + age <= now}

Overdue == Aged(TTL + 1)
Grown == Aged(ReviewAfter)

\* What entitles a call to the entity that it is going to save.
MaySave(call, handed, ordered, overdue, grown) ==
  call.at \in {"save", "flush"} =>
    IF call.op = "initiate"
    THEN /\ call.pay \in ordered
         /\ call.at = "flush" => "status" \in call.dirty
    ELSE \/ call.snap.status = "FAILED"
         \/ call.snap.status = "EXPIRED" /\ call.pay \in overdue
         \/ call.snap.status \in {"CONFIRMED", "MANUAL_REVIEW"} /\ call.pay \in handed
         \/ call.snap.status = "VOIDED" /\ call.pay \in handed \cap grown

\* What entitles a call to create, refund, save and sweep.
Entitled(call, handed, ordered, overdue, grown) ==
  /\ call.at \in {"check_booking", "insert"} =>
       call.given.req \in Requests /\ call.given.req.key = call.pay
  /\ call.at \in {"refund_sum", "refund_commit"} => call.amount >= 1
  /\ MaySave(call, handed, ordered, overdue, grown)
  /\ Sweeping(call) => \A item \in call.batch : item[1] \in overdue

CallsEntitled == \A c \in Calls : Entitled(calls[c], Handed, Ordered, Overdue, Grown)

\* How far a row has come.
RowsHanded ==
  \A p \in Payments :
    /\ payments[p].status \notin {"ABSENT", "INITIATED", "EXPIRED", "FAILED"} => p \in Handed
    /\ payments[p].ref => p \in Handed
    /\ payments[p].status = "MANUAL_REVIEW" => p \in Grown
    /\ \A s \in Statuses : <<p, s>> \in decisions => Exists(p)

ContractInv == CallsEntitled /\ RowsHanded

\* A call without a right to anything.
LEMMA IdleIsEntitled ==
  ASSUME NEW call, NEW handed, NEW ordered, NEW overdue, NEW grown,
         call.at \notin {"check_booking", "insert", "refund_sum", "refund_commit",
                         "save", "flush", "sweep"}
  PROVE  Entitled(call, handed, ordered, overdue, grown)
BY DEF Entitled, MaySave, Sweeping

\* A call stays entitled while payments grow old and are handed over.
LEMMA EntitledStands ==
  ASSUME NEW call, NEW handed, NEW ordered, NEW overdue, NEW grown,
         NEW handed2, NEW ordered2, NEW overdue2, NEW grown2,
         handed \subseteq handed2, ordered \subseteq ordered2,
         overdue \subseteq overdue2, grown \subseteq grown2,
         Entitled(call, handed, ordered, overdue, grown)
  PROVE  Entitled(call, handed2, ordered2, overdue2, grown2)
<1>1. MaySave(call, handed2, ordered2, overdue2, grown2)
  BY DEF Entitled, MaySave
<1> QED
  BY <1>1 DEF Entitled

\* The call goes on to something that it is entitled to.
GoesOnEntitled(c) ==
  \E call : GoTo(c, call) /\ Entitled(call, Handed, Ordered', Overdue, Grown)

\* A call that ends here, or goes on to ask or to write down.
LEMMA EndsAreEntitled ==
  ASSUME TypeInv, NEW c \in Calls,
         \/ GoTo(c, IdleCall) \/ GoTo(c, Thrown(calls[c]))
         \/ GoTo(c, AfterItem(calls[c])) \/ GoTo(c, Applied(calls[c]))
         \/ \E call, result : GoTo(c, Done(call, result))
  PROVE  GoesOnEntitled(c)
<1>1. ASSUME NEW call, GoTo(c, call),
             call.at \in {"idle", "done", "poll", "after_apply"}
      PROVE  GoesOnEntitled(c)
  BY <1>1, IdleIsEntitled DEF GoesOnEntitled
<1>2. /\ IdleCall.at = "idle"
      /\ Thrown(calls[c]).at \in {"idle", "done"}
      /\ AfterItem(calls[c]).at \in {"done", "poll"}
      /\ Applied(calls[c]).at \in {"done", "after_apply"}
      /\ \A call, result : Done(call, result).at = "done"
  BY CallType, WhereCallsGo, DoneAt DEF IdleCall
<1> QED
  BY <1>1, <1>2

\* A row with a reference, or a status that needs one, was handed over.
LEMMA RowHanded ==
  ASSUME ContractInv, NEW p \in Payments,
         \/ payments[p].ref
         \/ payments[p].status \notin {"ABSENT", "INITIATED", "EXPIRED", "FAILED"}
  PROVE  p \in Handed
BY DEF ContractInv, RowsHanded

\* A call that keeps going where it claims nothing.
LEMMA QuietIsEntitled ==
  ASSUME NEW c \in Calls, NEW call, GoTo(c, call),
         call.at \notin {"check_booking", "insert", "refund_sum", "refund_commit",
                         "save", "flush", "sweep"}
  PROVE  GoesOnEntitled(c)
BY IdleIsEntitled DEF GoesOnEntitled

\* Steps of initiate(): the request that came in is the one that is inserted,
\* and what is saved has an order.
LEMMA InitiateIsEntitled ==
  ASSUME TypeInv, ReferenceInv, ContractInv, NEW c \in Calls, Initiate(c)
  PROVE  GoesOnEntitled(c)
<1> DEFINE call == calls[c]
<1>0. /\ call \in Call /\ Entitled(call, Handed, Ordered, Overdue, Grown)
      /\ FitsCode(call)
  BY CallType, CallGround DEF ContractInv, CallsEntitled, Grounded
<1>1. CASE InitiateStart(c)
  <2> DEFINE first(req) == [NewCall("initiate", req.key) EXCEPT
                              !.given = NewRow(req, now)]
             next(req) == At(first(req), "check_booking")
             known(req) == Done([first(req) EXCEPT !.snap = payments[req.key]], "ok")
  <2>1. PICK req \in Requests :
          \/ GoTo(c, next(req)) \/ GoTo(c, known(req))
          \/ GoTo(c, Done(first(req), "conflict"))
    BY <1>1 DEF InitiateStart
  <2>2. /\ next(req).at = "check_booking" /\ next(req).pay = req.key
        /\ next(req).given.req = req
    BY DEF At, NewCall, IdleCall, NewRow
  <2> HIDE DEF next
  <2>3. Entitled(next(req), Handed, Ordered', Overdue, Grown)
    BY <2>2 DEF Entitled, MaySave, Sweeping
  <2> QED
    BY <2>1, <2>3, EndsAreEntitled DEF GoesOnEntitled
<1>2. CASE CheckBooking(c)
  <2> DEFINE next == At(call, "insert")
  <2>1. call.at = "check_booking" /\ (GoTo(c, Done(call, "conflict")) \/ GoTo(c, next))
    BY <1>2 DEF CheckBooking, Suspended
  <2>2. next.at = "insert" /\ next.pay = call.pay /\ next.given = call.given
    BY <1>0 DEF At, Call
  <2> HIDE DEF next
  <2>3. Entitled(next, Handed, Ordered', Overdue, Grown)
    BY <1>0, <2>1, <2>2 DEF Entitled, MaySave, Sweeping
  <2> QED
    BY <2>1, <2>3, EndsAreEntitled DEF GoesOnEntitled
<1>3. CASE InsertPayment(c)
  <2> DEFINE row == NewRow(call.given.req, now)
             next == [call EXCEPT !.at = "rail_initiate", !.snap = row]
             again == At(call, "read_winner")
  <2>1. GoTo(c, next) \/ GoTo(c, Done(call, "conflict")) \/ GoTo(c, again)
    BY <1>3 DEF InsertPayment
  <2>2. next.at = "rail_initiate" /\ again.at = "read_winner"
    BY <1>0 DEF At, Call
  <2> HIDE DEF next, again
  <2> QED
    BY <2>1, <2>2, QuietIsEntitled, EndsAreEntitled
<1>4. CASE ReadWinner(c)
  BY <1>4, EndsAreEntitled DEF ReadWinner
<1>5. CASE RailInitiate(c)
  <2> DEFINE row == AwaitingConfirmation(call.snap)
             next == [call EXCEPT !.at = "save", !.snap = row]
             ordered == [charge EXCEPT ![call.pay] = "pending"]
  <2>1. \/ GoTo(c, next) /\ charge' = ordered
        \/ GoTo(c, Done(call, "error"))
    BY <1>5 DEF RailInitiate
  <2>2. call.at = "rail_initiate" /\ call.op = "initiate" /\ call.pay \in Payments
    BY <1>0, <1>5, CallType DEF RailInitiate, Suspended, FitsCode, Working, Labels
  <2>3. /\ next.at = "save" /\ next.op = "initiate" /\ next.pay = call.pay
        /\ next.snap.status = "AWAITING_CONFIRMATION"
    BY <1>0, <2>2, CallType DEF Call, AwaitingConfirmation, Row
  <2>4. ordered[call.pay] = "pending"
    BY <2>2 DEF TypeInv, TypeOK
  <2> HIDE DEF next, ordered
  <2>5. ASSUME charge' = ordered
        PROVE  Entitled(next, Handed, Ordered', Overdue, Grown)
    <3>1. call.pay \in Ordered'
      BY <2>2, <2>4, <2>5 DEF Ordered
    <3> QED
      BY <2>3, <3>1 DEF Entitled, MaySave, Sweeping
  <2> QED
    BY <2>1, <2>5, EndsAreEntitled DEF GoesOnEntitled
<1> QED
  BY <1>1, <1>2, <1>3, <1>4, <1>5 DEF Initiate

\* Steps of refunds: what is asked for is some money.
LEMMA RefundIsEntitled ==
  ASSUME TypeInv, ReferenceInv, ContractInv, NEW c \in Calls, Refund(c)
  PROVE  GoesOnEntitled(c)
<1> DEFINE call == calls[c]
<1>0. /\ call \in Call /\ Entitled(call, Handed, Ordered, Overdue, Grown)
  BY CallType DEF ContractInv, CallsEntitled
<1>1. CASE RefundLock(c)
  <2> DEFINE next(p, amount) == [NewCall("refund", p) EXCEPT
                  !.at = "refund_sum", !.snap = payments[p], !.amount = amount]
  <2>1. PICK p \in Payments, amount \in RefundAmounts : GoTo(c, next(p, amount))
    BY <1>1 DEF RefundLock
  <2>2. next(p, amount).at = "refund_sum" /\ next(p, amount).amount = amount
    BY DEF NewCall, IdleCall
  <2>3. amount >= 1
    BY <2>1, StoreAssumption
  <2> HIDE DEF next
  <2>4. Entitled(next(p, amount), Handed, Ordered', Overdue, Grown)
    BY <2>2, <2>3 DEF Entitled, MaySave, Sweeping
  <2> QED
    BY <2>1, <2>4 DEF GoesOnEntitled
<1>2. CASE RefundSum(c)
  <2> DEFINE next == [call EXCEPT !.at = "refund_commit", !.sum = refunded[call.pay]]
  <2>1. call.at = "refund_sum" /\ (GoTo(c, Done(call, "conflict")) \/ GoTo(c, next))
    BY <1>2 DEF RefundSum, Suspended
  <2>2. next.at = "refund_commit" /\ next.amount = call.amount
    BY <1>0 DEF Call
  <2> HIDE DEF next
  <2>3. Entitled(next, Handed, Ordered', Overdue, Grown)
    BY <1>0, <2>1, <2>2 DEF Entitled, MaySave, Sweeping
  <2> QED
    BY <2>1, <2>3, EndsAreEntitled DEF GoesOnEntitled
<1>3. CASE RefundCommit(c) \/ RefundProvider(c)
  <2> DEFINE pays == [call EXCEPT !.at = "refund_provider", !.sum = 0]
             tries == [call EXCEPT !.sum = @ + 1]
  <2>1. \/ GoTo(c, pays)
        \/ GoTo(c, tries) /\ call.at = "refund_provider"
        \/ GoTo(c, Done(call, "ok"))
    BY <1>3 DEF RefundCommit, RefundProvider, Suspended
  <2>2. pays.at = "refund_provider" /\ tries.at = call.at
    BY <1>0 DEF Call
  <2> HIDE DEF pays, tries
  <2> QED
    BY <2>1, <2>2, QuietIsEntitled, EndsAreEntitled
<1> QED
  BY <1>1, <1>2, <1>3 DEF Refund

\* Steps of webhooks, answers, apply() and replies.  What apply() saves has a
\* reference.
LEMMA ConfirmIsEntitled ==
  ASSUME TypeInv, ReferenceInv, ContractInv, NEW c \in Calls, Confirm(c) \/ Reply(c)
  PROVE  GoesOnEntitled(c)
<1> DEFINE call == calls[c]
<1>0. /\ call \in Call /\ Entitled(call, Handed, Ordered, Overdue, Grown)
  BY CallType DEF ContractInv, CallsEntitled
<1>1. CASE WebhookReceive(c)
  <2> DEFINE next(p, outcome) ==
        [NewCall("webhook", p) EXCEPT !.at = "apply", !.arg = outcome]
  <2>1. \E p \in Payments : \E outcome \in Answers(p) : GoTo(c, next(p, outcome))
    BY <1>1 DEF WebhookReceive
  <2>2. PICK p, outcome : GoTo(c, next(p, outcome))
    BY <2>1
  <2>3. next(p, outcome).at = "apply"
    BY DEF NewCall, IdleCall
  <2> HIDE DEF next
  <2> QED
    BY <2>2, <2>3, QuietIsEntitled
<1>2. CASE RejectWebhook(c)
  <2>1. GoTo(c, call) /\ Ordered' = Ordered
    BY <1>2 DEF RejectWebhook, GoTo, TypeInv, TypeOK, Ordered
  <2> QED
    BY <1>0, <2>1 DEF GoesOnEntitled
<1>3. CASE VerifyReturnStart(c)
  <2> DEFINE first(p) == [NewCall("verify_return", p) EXCEPT !.given = payments[p]]
             next(p) == At(first(p), "verify")
  <2>1. PICK p : GoTo(c, next(p)) \/ \E result : GoTo(c, Done(first(p), result))
    BY <1>3 DEF VerifyReturnStart
  <2>2. next(p).at = "verify"
    BY DEF At, NewCall, IdleCall
  <2> HIDE DEF next
  <2> QED
    BY <2>1, <2>2, QuietIsEntitled, EndsAreEntitled
<1>4. CASE VerifyAnswer(c)
  <2> DEFINE asked(answer) == [call EXCEPT !.at = "apply", !.arg = answer]
             counted(answer) == [call EXCEPT !.at = "record", !.arg = answer]
  <2>1. \E answer : \/ GoTo(c, asked(answer)) \/ GoTo(c, Done(call, answer))
                    \/ GoTo(c, counted(answer))
    BY <1>4 DEF VerifyAnswer
  <2>2. PICK answer : \/ GoTo(c, asked(answer)) \/ GoTo(c, Done(call, answer))
                      \/ GoTo(c, counted(answer))
    BY <2>1
  <2>3. asked(answer).at = "apply" /\ counted(answer).at = "record"
    BY <1>0 DEF Call
  <2> HIDE DEF asked, counted
  <2> QED
    BY <2>2, <2>3, QuietIsEntitled, EndsAreEntitled
<1>5. CASE Apply(c)
  <2> DEFINE row == payments[call.pay]
             entity == [row EXCEPT !.status = Implied(call.arg)]
             lost == [call EXCEPT !.at = "log", !.snap = NoRow]
             noop == [call EXCEPT !.at = "log", !.snap = row]
             moves == [call EXCEPT !.at = "save", !.snap = entity]
  <2>1. /\ call.at = "apply"
        /\ \/ GoTo(c, lost) \/ GoTo(c, noop) \/ GoTo(c, Thrown(call))
           \/ row.ref /\ GoTo(c, moves)
    BY <1>5 DEF Apply, Suspended
  <2>2. call.pay \in Payments /\ row \in Row
    BY <2>1, CallType, PaymentType DEF Working, Labels
  <2>3. entity.status \in {"CONFIRMED", "FAILED"}
    BY <2>2, ImpliedType DEF Row
  <2>4. /\ lost.at = "log" /\ noop.at = "log"
        /\ moves.at = "save" /\ moves.pay = call.pay /\ moves.op = call.op
        /\ moves.snap = entity
    BY <1>0 DEF Call
  <2>5. row.ref => call.pay \in Handed
    BY <2>2, RowHanded
  <2>6. call.op # "initiate"
    BY <2>1, CallGround DEF Grounded, FitsCode, Applying, Asking, Polling
  <2> HIDE DEF lost, noop, moves, entity, row
  <2>7. row.ref => Entitled(moves, Handed, Ordered', Overdue, Grown)
    BY <2>3, <2>4, <2>5, <2>6 DEF Entitled, MaySave, Sweeping
  <2> QED
    BY <2>1, <2>4, <2>7, QuietIsEntitled, EndsAreEntitled DEF GoesOnEntitled
<1>6. CASE LogNoOp(c) \/ LogApplied(c) \/ Reply(c)
  BY <1>6, EndsAreEntitled DEF LogNoOp, LogApplied, Reply
<1> QED
  BY <1>1, <1>2, <1>3, <1>4, <1>5, <1>6 DEF Confirm

\* Steps of save(): initiate() finds a status to write, and the sweep keeps
\* what is left of its batch.
LEMMA SaveIsEntitled ==
  ASSUME TypeInv, ReferenceInv, ContractInv, NEW c \in Calls, Save(c)
  PROVE  GoesOnEntitled(c)
<1> DEFINE call == calls[c]
           row == payments[call.pay]
           flush == [call EXCEPT !.at = "flush", !.dirty = Changed(row, call.snap)]
           logs == [call EXCEPT !.at = "log_applied", !.dirty = {}]
           sweeps == NextItem(call, "sweep")
           polls == NextItem(call, "poll")
<1>0. /\ call \in Call /\ Entitled(call, Handed, Ordered, Overdue, Grown)
      /\ BringsReference(call) /\ Ordered' = Ordered
  BY CallType, CallGround DEF ContractInv, CallsEntitled, Grounded, Save,
     SaveSelect, SaveUpdate, Ordered
<1>1. /\ call.at \in {"save", "flush"} /\ call.pay \in Payments
      /\ \/ GoTo(c, AfterSave(call)) \/ GoTo(c, Done(call, "conflict"))
         \/ call.at = "save" /\ GoTo(c, flush)
  BY CallType DEF Save, SaveSelect, SaveUpdate, Suspended, Working, Labels
<1>2. /\ flush.at = "flush" /\ flush.snap = call.snap /\ flush.pay = call.pay
      /\ flush.op = call.op /\ flush.batch = call.batch
      /\ flush.dirty = Changed(row, call.snap)
      /\ logs.at = "log_applied"
      /\ sweeps.at = "sweep" /\ sweeps.batch = call.batch
      /\ polls.at = "poll"
  BY <1>0 DEF Call, NextItem
<1>3. \/ AfterSave(call) = Done(call, "ok") \/ AfterSave(call) = logs
      \/ AfterSave(call) = sweeps /\ call.snap.status = "EXPIRED"
      \/ AfterSave(call) = polls
  BY DEF AfterSave
<1>4. CASE call.at = "save" /\ GoTo(c, flush)
  <2>1. ASSUME call.op = "initiate"
        PROVE  "status" \in flush.dirty
    <3>1. call.snap.status = "AWAITING_CONFIRMATION"
      BY <1>0, <1>4, <2>1 DEF BringsReference
    <3>2. call.pay \notin Handed
      BY <1>4, <2>1 DEF Handed, Settled, Initiating
    <3>3. row.status # "AWAITING_CONFIRMATION"
      BY <1>1, <3>2, RowHanded
    <3> QED
      BY <1>2, <3>1, <3>3 DEF Changed, Columns
  <2> HIDE DEF flush
  <2>2. MaySave(flush, Handed, Ordered, Overdue, Grown)
    BY <1>0, <1>2, <1>4, <2>1 DEF Entitled, MaySave
  <2>3. Entitled(flush, Handed, Ordered, Overdue, Grown)
    BY <1>0, <1>2, <1>4, <2>2 DEF Entitled, Sweeping
  <2> QED
    BY <1>0, <1>4, <2>3 DEF GoesOnEntitled
<1>5. CASE GoTo(c, AfterSave(call)) \/ GoTo(c, Done(call, "conflict"))
  <2> HIDE DEF flush, logs, sweeps, polls
  <2>1. call.snap.status = "EXPIRED" => Entitled(sweeps, Handed, Ordered, Overdue, Grown)
    BY <1>0, <1>1, <1>2 DEF Entitled, MaySave, Sweeping
  <2> QED
    BY <1>0, <1>2, <1>3, <1>5, <2>1, QuietIsEntitled, EndsAreEntitled
       DEF GoesOnEntitled
<1> QED
  BY <1>1, <1>4, <1>5

\* Steps of a scheduled pass: it sweeps what was overdue when it looked.
LEMMA PassIsEntitled ==
  ASSUME TypeInv, ReferenceInv, ContractInv, NEW c \in Calls, ReconciliationPass(c)
  PROVE  GoesOnEntitled(c)
<1> DEFINE call == calls[c]
<1>0. /\ call \in Call /\ Entitled(call, Handed, Ordered, Overdue, Grown)
      /\ call.batch \in SUBSET (Payments \X Row) /\ FitsCode(call)
  BY CallType, CallGround DEF ContractInv, CallsEntitled, Grounded
<1>1. CASE CronStart(c)
  <2> DEFINE found == {p \in Payments : IsExpired(payments[p])}
             next == [NewCall("cron", None) EXCEPT
                        !.at = "sweep", !.time = now, !.batch = Snapshots(found)]
  <2>1. GoTo(c, next)
    BY <1>1 DEF CronStart
  <2>2. next.at = "sweep" /\ next.batch = Snapshots(found)
    BY DEF NewCall, IdleCall
  <2>3. ASSUME NEW p \in found
        PROVE  p \in Overdue
    <3>1. /\ payments[p].createdAt + TTL < now /\ payments[p].status \in OpenStatuses
      BY DEF IsExpired, ExpiresAt
    <3>2. payments[p].createdAt \in Nat /\ TTL \in Nat /\ now \in Nat
      BY PaymentType, StoreAssumption DEF Row, TypeInv, TypeOK
    <3>3. Exists(p) /\ payments[p].createdAt + (TTL + 1) <= now
      BY <3>1, <3>2 DEF Exists, OpenStatuses
    <3> QED
      BY <3>3 DEF Overdue, Aged
  <2> HIDE DEF next, found
  <2>4. Entitled(next, Handed, Ordered', Overdue, Grown)
    BY <2>2, <2>3 DEF Entitled, MaySave, Sweeping, Snapshots
  <2> QED
    BY <2>1, <2>4 DEF GoesOnEntitled
<1>2. CASE SweepOne(c)
  <2> DEFINE next(item) == [call EXCEPT !.at = "save", !.pay = item[1],
                              !.snap = Expired(item[2]), !.batch = @ \ {item}]
  <2>1. call.at = "sweep" /\ \E item \in call.batch : GoTo(c, next(item))
    BY <1>2 DEF SweepOne, Suspended
  <2>2. PICK item \in call.batch : GoTo(c, next(item))
    BY <2>1
  <2>3. /\ next(item).at = "save" /\ next(item).op = call.op
        /\ next(item).pay = item[1]
        /\ next(item).snap = Expired(item[2])
        /\ next(item).batch = call.batch \ {item}
    BY <1>0 DEF Call
  <2>4. Expired(item[2]).status = "EXPIRED"
    BY <1>0 DEF Expired, Row
  <2>5. call.op = "cron" /\ \A other \in call.batch : other[1] \in Overdue
    BY <1>0, <2>1 DEF FitsCode, Entitled, Sweeping
  <2> HIDE DEF next, call
  <2>6. Entitled(next(item), Handed, Ordered', Overdue, Grown)
    BY <2>3, <2>4, <2>5 DEF Entitled, MaySave, Sweeping
  <2> QED
    BY <2>2, <2>6 DEF GoesOnEntitled
<1>3. CASE FindAwaiting(c)
  <2> DEFINE due(found) == {item \in Snapshots(found) : IsDueForPoll(item[2], call.time)}
             next(found) == [call EXCEPT !.at = "poll", !.batch = due(found)]
  <2>1. \E found : GoTo(c, next(found))
    BY <1>3 DEF FindAwaiting
  <2>2. PICK found : GoTo(c, next(found))
    BY <2>1
  <2>3. next(found).at = "poll"
    BY <1>0 DEF Call
  <2> HIDE DEF next
  <2> QED
    BY <2>2, <2>3, QuietIsEntitled
<1>4. CASE PollOne(c)
  <2> DEFINE next(item) == [call EXCEPT !.at = "verify", !.pay = item[1],
                                  !.given = item[2], !.batch = @ \ {item}]
  <2>1. \E item : GoTo(c, next(item))
    BY <1>4 DEF PollOne
  <2>2. PICK item : GoTo(c, next(item))
    BY <2>1
  <2>3. next(item).at = "verify"
    BY <1>0 DEF Call
  <2> HIDE DEF next
  <2> QED
    BY <2>2, <2>3, QuietIsEntitled
<1>5. CASE PassEnd(c)
  BY <1>5, EndsAreEntitled DEF PassEnd
<1> QED
  BY <1>1, <1>2, <1>3, <1>4, <1>5 DEF ReconciliationPass

\* Steps of reconcileOne and of administrators: what they decide of was handed
\* over, or never left INITIATED, and what they void was up for review.
LEMMA ReconcileIsEntitled ==
  ASSUME TypeInv, ReferenceInv, ContractInv, NEW c \in Calls,
         Reconcile(c) \/ Administer(c)
  PROVE  GoesOnEntitled(c)
<1> DEFINE call == calls[c]
<1>0. /\ call \in Call /\ Entitled(call, Handed, Ordered, Overdue, Grown)
      /\ FitsCode(call)
  BY CallType, CallGround DEF ContractInv, CallsEntitled, Grounded
<1>1. CASE AfterApply(c)
  BY <1>1, EndsAreEntitled DEF AfterApply
<1>2. CASE RecordAttempt(c)
  <2> DEFINE next == At(call, "escalate")
  <2>1. GoTo(c, AfterItem(call)) \/ GoTo(c, next)
    BY <1>2 DEF RecordAttempt
  <2>2. next.at = "escalate"
    BY <1>0 DEF At, Call
  <2> HIDE DEF next
  <2> QED
    BY <2>1, <2>2, QuietIsEntitled, EndsAreEntitled
<1>3. CASE Escalate(c)
  <2> DEFINE row == [payments[call.pay] EXCEPT !.status = "MANUAL_REVIEW"]
             next == [call EXCEPT !.at = "save", !.snap = row]
             may == CanTransition(payments[call.pay].status, "MANUAL_REVIEW")
  <2>1. /\ call.at = "escalate"
        /\ (may /\ GoTo(c, next)) \/ GoTo(c, Thrown(call))
    BY <1>3 DEF Escalate, Suspended
  <2>2. call.pay \in Payments /\ payments[call.pay] \in Row /\ call.op # "initiate"
    BY <1>0, <2>1, CallType, PaymentType DEF Working, Labels, FitsCode, Polling
  <2>3. may => call.pay \in Handed
    BY <2>2, RowHanded DEF CanTransition, AllowedTransitions
  <2>4. /\ next.at = "save" /\ next.op = call.op /\ next.pay = call.pay
        /\ next.snap.status = "MANUAL_REVIEW"
    BY <1>0, <2>2 DEF Call, Row
  <2> HIDE DEF next, may
  <2>5. may => Entitled(next, Handed, Ordered', Overdue, Grown)
    BY <2>2, <2>3, <2>4 DEF Entitled, MaySave, Sweeping
  <2> QED
    BY <2>1, <2>5, EndsAreEntitled DEF GoesOnEntitled
<1>4. CASE ForceReconcile(c)
  <2> DEFINE next(p) == [NewCall("force", p) EXCEPT
                     !.at = "verify", !.given = payments[p], !.time = now]
  <2>1. PICK p \in Payments : GoTo(c, next(p))
    BY <1>4 DEF ForceReconcile
  <2>2. next(p).at = "verify"
    BY DEF NewCall, IdleCall
  <2> HIDE DEF next
  <2> QED
    BY <2>1, <2>2, QuietIsEntitled
<1>5. CASE ResolveManually(c)
  <2> DEFINE next(p, resolution) == [NewCall("resolve", p) EXCEPT
                     !.at = "save", !.snap = Resolved(payments[p], resolution)]
  <2>1. PICK p \in Payments, resolution \in {"CONFIRMED", "FAILED"} :
          /\ CanTransition(payments[p].status, resolution)
          /\ GoTo(c, next(p, resolution))
    BY <1>5 DEF ResolveManually
  <2>2. /\ next(p, resolution).at = "save" /\ next(p, resolution).op = "resolve"
        /\ next(p, resolution).pay = p
        /\ next(p, resolution).snap = Resolved(payments[p], resolution)
    BY DEF NewCall, IdleCall
  <2>3. Resolved(payments[p], resolution).status = resolution
    BY <2>1, PaymentType DEF Resolved, Row
  <2>4. resolution = "CONFIRMED" => p \in Handed
    BY <2>1, RowHanded DEF CanTransition, AllowedTransitions
  <2> HIDE DEF next
  <2>5. Entitled(next(p, resolution), Handed, Ordered', Overdue, Grown)
    BY <2>1, <2>2, <2>3, <2>4 DEF Entitled, MaySave, Sweeping
  <2> QED
    BY <2>1, <2>5 DEF GoesOnEntitled
<1>6. CASE VoidPayment(c)
  <2> DEFINE row(p) == [payments[p] EXCEPT !.status = "VOIDED"]
             next(p) == [NewCall("void", p) EXCEPT !.at = "save", !.snap = row(p)]
  <2>1. PICK p \in Payments : /\ CanTransition(payments[p].status, "VOIDED")
                              /\ GoTo(c, next(p))
    BY <1>6 DEF VoidPayment
  <2>2. /\ next(p).at = "save" /\ next(p).op = "void"
        /\ next(p).pay = p /\ next(p).snap = row(p)
    BY DEF NewCall, IdleCall
  <2>3. row(p).status = "VOIDED"
    BY <2>1, PaymentType DEF Row
  <2>4. p \in Handed \cap Grown
    <3>1. payments[p].status = "MANUAL_REVIEW"
      BY <2>1 DEF CanTransition, AllowedTransitions
    <3>2. p \in Grown
      BY <2>1, <3>1 DEF ContractInv, RowsHanded
    <3> QED
      BY <2>1, <3>1, <3>2, RowHanded
  <2> HIDE DEF next, row
  <2>5. Entitled(next(p), Handed, Ordered', Overdue, Grown)
    BY <2>1, <2>2, <2>3, <2>4 DEF Entitled, MaySave, Sweeping
  <2> QED
    BY <2>1, <2>5 DEF GoesOnEntitled
<1> QED
  BY <1>1, <1>2, <1>3, <1>4, <1>5, <1>6 DEF Reconcile, Administer

(***************************************************************************)
(* The invariant of the contract is inductive.                             *)
(***************************************************************************)

\* A payment that was handed over stays so.
LEMMA HandedStands ==
  ASSUME TypeInv, RefundInv, ReferenceInv, [Next]_vars
  PROVE  Handed \subseteq Handed'
<1> SUFFICES ASSUME NEW p \in Payments, p \in Handed
             PROVE  Settled(p)' /\ payments'[p].status # "INITIATED"
  BY DEF Handed
<1>0. /\ Exists(p) /\ payments[p].status # "INITIATED"
      /\ \A c \in Calls : Initiating(calls[c]) => calls[c].pay # p
  BY DEF Handed, Settled
<1>1. Settled(p)'
  <2>1. Exists(p)'
    BY <1>0, RowsStay
  <2>2. ASSUME NEW d \in Calls, Initiating(calls'[d])
        PROVE  calls'[d].pay # p
    BY <1>0, <2>2, InitiatingStays, InsertGoesToTheRail
  <2> QED
    BY <2>1, <2>2 DEF Settled
<1>2. CASE payments'[p] # payments[p]
  <2>1. PICK c \in Calls : \/ InsertPayment(c) \/ SaveUpdate(c) \/ AfterApply(c)
                          \/ RecordAttempt(c) \/ RefundCommit(c)
    BY <1>2, PaymentWriters DEF vars
  <2>2. CASE InsertPayment(c)
    BY <1>0, <1>2, <2>2, InsertGoesToTheRail
  <2>3. CASE SaveUpdate(c)
    <3>1. /\ calls[c].pay = p /\ calls[c].at = "flush"
          /\ payments'[p].status \in {calls[c].snap.status, payments[p].status}
      BY <1>2, <2>3, UpdatedRow DEF SaveUpdate, Suspended
    <3>2. calls[c].op # "initiate"
      BY <1>0, <3>1 DEF Initiating
    <3>3. calls[c].snap.status \notin OpenStatuses
      BY <3>1, <3>2, CallGround DEF Grounded, SavesClosed
    <3> QED
      BY <1>0, <1>1, <3>1, <3>3 DEF OpenStatuses
  <2>4. CASE AfterApply(c) \/ RecordAttempt(c) \/ RefundCommit(c)
    BY <1>0, <1>1, <2>4, OtherWriters
  <2> QED
    BY <2>1, <2>2, <2>3, <2>4
<1> QED
  BY <1>0, <1>1, <1>2

\* So does one that has an order.
LEMMA OrderedStands ==
  ASSUME TypeInv, [Next]_vars
  PROVE  Ordered \subseteq Ordered'
<1>1. CASE charge' = charge
  BY <1>1 DEF Ordered
<1>2. CASE ProviderSettle
  BY <1>2 DEF ProviderSettle, Ordered, Verdicts, TypeInv, TypeOK
<1>3. ASSUME NEW c \in Calls, RailInitiate(c)
      PROVE  Ordered \subseteq Ordered'
  <2>1. charge' \in {charge, [charge EXCEPT ![calls[c].pay] = "pending"]}
    BY <1>3 DEF RailInitiate
  <2> QED
    BY <2>1 DEF Ordered, TypeInv, TypeOK
<1> QED
  BY <1>1, <1>2, <1>3, ChargeWriters DEF vars

\* And payments only grow older.
LEMMA AgesStand ==
  ASSUME TypeInv, RefundInv, [Next]_vars
  PROVE  Overdue \subseteq Overdue' /\ Grown \subseteq Grown'
<1>1. now \in Nat /\ now' \in {now, now + 1}
  BY ClockRuns
<1>2. TTL \in Nat /\ ReviewAfter \in Nat
  BY StoreAssumption, ReconciliationAssumption
<1>3. ASSUME NEW p \in Payments, Exists(p)
      PROVE  /\ Exists(p)' /\ payments'[p].createdAt = payments[p].createdAt
             /\ payments[p].createdAt \in Nat
  BY <1>3, DatesStand, PaymentType DEF Row
<1>4. ASSUME NEW p \in Overdue
      PROVE  p \in Overdue'
  <2>1. p \in Payments /\ Exists(p) /\ payments[p].createdAt + (TTL + 1) <= now
    BY <1>4 DEF Overdue, Aged
  <2>2. Exists(p)' /\ payments'[p].createdAt + (TTL + 1) <= now'
    BY <1>1, <1>2, <1>3, <2>1
  <2> QED
    BY <2>1, <2>2 DEF Overdue, Aged
<1>5. ASSUME NEW p \in Grown
      PROVE  p \in Grown'
  <2>1. p \in Payments /\ Exists(p) /\ payments[p].createdAt + ReviewAfter <= now
    BY <1>5 DEF Grown, Aged
  <2>2. Exists(p)' /\ payments'[p].createdAt + ReviewAfter <= now'
    BY <1>1, <1>2, <1>3, <2>1
  <2> QED
    BY <2>1, <2>2 DEF Grown, Aged
<1> QED
  BY <1>4, <1>5

\* An UPDATE by initiate() is the hand-over; any other moves a payment on the
\* grounds that entitle its call, or not at all.
LEMMA UpdateIsEntitled ==
  ASSUME TypeInv, ReferenceInv, ContractInv, CallsTimely,
         NEW c \in Calls, SaveUpdate(c), payments' # payments,
         NEW p \in Payments, p = calls[c].pay
  PROVE  /\ calls[c].op = "initiate" =>
              /\ payments'[p].status = "AWAITING_CONFIRMATION" /\ p \in Handed'
              /\ payments[p].status \in {"INITIATED", "EXPIRED", "FAILED"}
         /\ calls[c].op # "initiate" =>
              /\ payments'[p].status \in {payments[p].status, calls[c].snap.status}
              /\ \/ calls[c].snap.status = "FAILED"
                 \/ calls[c].snap.status = "EXPIRED" /\ p \in Overdue
                 \/ calls[c].snap.status = "CONFIRMED" /\ p \in Handed
                 \/ /\ calls[c].snap.status \in {"MANUAL_REVIEW", "VOIDED"}
                    /\ p \in Handed \cap Grown
              /\ payments'[p].ref => payments[p].ref \/ p \in Handed
<1> DEFINE call == calls[c]
<1>0. /\ Entitled(call, Handed, Ordered, Overdue, Grown)
      /\ BringsReference(call) /\ SavesClosed(call, Referenced, Closed)
      /\ Timely(call, payments, now)
      /\ call.at = "flush"
  BY CallGround DEF ContractInv, CallsEntitled, Grounded, CallsTimely, SaveUpdate,
     Suspended
<1>1. /\ payments'[p].status = IF "status" \in call.dirty
                               THEN call.snap.status ELSE payments[p].status
      /\ payments'[p].ref = IF "ref" \in call.dirty
                            THEN call.snap.ref ELSE payments[p].ref
  BY UpdatedRow
<1>2. ASSUME call.op = "initiate"
      PROVE  /\ payments'[p].status = "AWAITING_CONFIRMATION" /\ p \in Handed'
             /\ payments[p].status \in {"INITIATED", "EXPIRED", "FAILED"}
  <2>1. payments'[p].status = "AWAITING_CONFIRMATION"
    BY <1>0, <1>1, <1>2 DEF BringsReference, Entitled, MaySave
  <2>2. ASSUME NEW d \in Calls, Initiating(calls'[d])
        PROVE  calls'[d].pay # p
    <3>1. d # c /\ calls'[d] = calls[d]
      BY <2>2, UpdateGoesTo
    <3>2. Initiating(call)
      BY <1>0, <1>2 DEF Initiating
    <3> QED
      BY <2>2, <3>1, <3>2 DEF ReferenceInv, OneInitiates
  <2>3. Exists(p) /\ p \notin Handed
    BY <1>0, <1>2 DEF ReferenceInv, OneInitiates, Handed, Settled, Initiating
  <2>4. payments[p].status \in {"INITIATED", "EXPIRED", "FAILED"}
    BY <2>3, RowHanded DEF Exists
  <2> QED
    BY <2>1, <2>2, <2>4 DEF Handed, Settled, Exists
<1>3. ASSUME call.op # "initiate"
      PROVE  /\ \/ call.snap.status = "FAILED"
                \/ call.snap.status = "EXPIRED" /\ p \in Overdue
                \/ call.snap.status = "CONFIRMED" /\ p \in Handed
                \/ /\ call.snap.status \in {"MANUAL_REVIEW", "VOIDED"}
                   /\ p \in Handed \cap Grown
             /\ payments'[p].ref => payments[p].ref \/ p \in Handed
  <2>1. MaySave(call, Handed, Ordered, Overdue, Grown)
    BY <1>0 DEF Entitled
  <2>2. call.snap.status = "MANUAL_REVIEW" => p \in Grown
    <3>1. ASSUME call.snap.status = "MANUAL_REVIEW"
          PROVE  p \in Grown
      <4>1. /\ Exists(p) /\ payments[p].createdAt + ReviewAfter <= call.time
            /\ call.time <= now
        BY <1>0, <3>1 DEF Timely, MayEscalate, Exists
      <4>2. /\ payments[p].createdAt \in Nat /\ ReviewAfter \in Nat
            /\ call.time \in Nat /\ now \in Nat
        BY PaymentType, CallType, ReconciliationAssumption DEF Row, TypeInv, TypeOK
      <4>3. payments[p].createdAt + ReviewAfter <= now
        BY <4>1, <4>2
      <4> QED
        BY <4>1, <4>3 DEF Grown, Aged
    <3> QED
      BY <3>1
  <2>3. call.snap.ref => p \in Handed
    <3>1. call.snap.ref => p \in Referenced
      BY <1>0, <1>3 DEF SavesClosed
    <3>2. p \in Referenced /\ ~payments[p].ref => p \in Handed
      BY DEF Referenced, Handed, Open, OpenStatuses
    <3> QED
      BY <3>1, <3>2, RowHanded
  <2> QED
    BY <1>0, <1>1, <1>3, <2>1, <2>2, <2>3 DEF MaySave
<1> QED
  BY <1>1, <1>2, <1>3

\* What a refund books was handed over.
LEMMA BookedIsHanded ==
  ASSUME TypeInv, RefundInv, ContractInv, NEW c \in Calls, RefundCommit(c)
  PROVE  /\ calls[c].pay \in Handed
         /\ \A p \in Payments : p # calls[c].pay => payments'[p] = payments[p]
<1>1. calls[c].at = "refund_commit" /\ calls[c].pay \in Payments
  BY CallType DEF RefundCommit, Suspended, Working, Labels
<1>2. payments[calls[c].pay].status \in RefundableStatuses
  BY <1>1 DEF RefundInv, LockedRowIsCurrent, InTransaction
<1> QED
  BY <1>1, <1>2, RowHanded DEF RefundableStatuses, RefundCommit, TypeInv, TypeOK

\* What an administrator has decided of exists.
LEMMA DecidedExist ==
  ASSUME TypeInv, RefundInv, ContractInv, [Next]_vars,
         NEW p \in Payments, NEW s \in Statuses, <<p, s>> \in decisions'
  PROVE  payments'[p].status # "ABSENT"
<1>1. ASSUME <<p, s>> \in decisions
      PROVE  Exists(p)
  BY <1>1 DEF ContractInv, RowsHanded
<1>2. ASSUME <<p, s>> \notin decisions
      PROVE  Exists(p)
  <2>1. PICK c \in Calls : ResolveManually(c)
    BY <1>2, DecisionWriters DEF vars
  <2>2. PICK q \in Payments, resolution \in {"CONFIRMED", "FAILED"} :
          /\ CanTransition(payments[q].status, resolution)
          /\ decisions' = decisions \cup {<<q, resolution>>}
    BY <2>1 DEF ResolveManually
  <2>3. p = q
    BY <1>2, <2>2
  <2> QED
    BY <2>2, <2>3 DEF CanTransition, AllowedTransitions, Exists
<1> QED
  BY <1>1, <1>2, RowsStay DEF Exists

\* Every row has come as far as it says.
LEMMA RowsHandedStep ==
  ASSUME TypeInv, RefundInv, ReferenceInv, CallsTimely, ContractInv, [Next]_vars
  PROVE  RowsHanded'
<1>0. Handed \subseteq Handed' /\ Grown \subseteq Grown'
  BY HandedStands, AgesStand
<1> SUFFICES ASSUME NEW p \in Payments
             PROVE  /\ payments'[p].status \notin {"ABSENT", "INITIATED", "EXPIRED", "FAILED"}
                         => p \in Handed'
                    /\ payments'[p].ref => p \in Handed'
                    /\ payments'[p].status = "MANUAL_REVIEW" => p \in Grown'
  BY DecidedExist DEF RowsHanded, Exists
<1>1. /\ payments[p].status \notin {"ABSENT", "INITIATED", "EXPIRED", "FAILED"}
           => p \in Handed
      /\ payments[p].ref => p \in Handed
      /\ payments[p].status = "MANUAL_REVIEW" => p \in Grown
  BY DEF ContractInv, RowsHanded
<1>2. CASE payments'[p] = payments[p]
  BY <1>0, <1>1, <1>2
<1>3. CASE payments'[p] # payments[p]
  <2>1. PICK c \in Calls : \/ InsertPayment(c) \/ SaveUpdate(c) \/ AfterApply(c)
                          \/ RecordAttempt(c) \/ RefundCommit(c)
    BY <1>3, PaymentWriters DEF vars
  <2>2. CASE InsertPayment(c)
    <3>1. p = calls[c].pay /\ payments'[p] = NewRow(calls[c].given.req, now)
      BY <1>3, <2>2 DEF InsertPayment, TypeInv, TypeOK
    <3> QED
      BY <3>1 DEF NewRow
  <2>3. CASE SaveUpdate(c)
    <3>1. p = calls[c].pay
      BY <1>3, <2>3, UpdatedRow
    <3>2. CASE calls[c].op = "initiate"
      BY <1>3, <2>3, <3>1, <3>2, UpdateIsEntitled
    <3>3. CASE calls[c].op # "initiate"
      BY <1>0, <1>1, <1>3, <2>3, <3>1, <3>3, UpdateIsEntitled
    <3> QED
      BY <3>2, <3>3
  <2>4. CASE AfterApply(c) \/ RecordAttempt(c)
    <3>1. payments'[p].status = payments[p].status /\ payments'[p].ref = payments[p].ref
      <4>1. PICK row : /\ payments' = [payments EXCEPT ![calls[c].pay] = row]
                       /\ row.status = payments[calls[c].pay].status
        BY <2>4, Bookkeeping
      <4> QED
        BY <2>4, <4>1, OtherWriters DEF TypeInv, TypeOK
    <3> QED
      BY <1>0, <1>1, <3>1
  <2>5. CASE RefundCommit(c)
    <3>1. p \in Handed /\ payments'[p].status # "MANUAL_REVIEW"
      <4>1. p = calls[c].pay /\ p \in Handed
        BY <1>3, <2>5, BookedIsHanded
      <4>2. payments'[p].status = RefundedStatus(calls[c])
        BY <2>5, <4>1, PaymentType DEF RefundCommit, TypeInv, TypeOK, Row
      <4> QED
        BY <4>1, <4>2 DEF RefundedStatus
    <3> QED
      BY <1>0, <3>1
  <2> QED
    BY <2>1, <2>2, <2>3, <2>4, <2>5
<1> QED
  BY <1>2, <1>3

\* Every call stays entitled to what it goes on to do.
LEMMA EntitledStep ==
  ASSUME TypeInv, RefundInv, ReferenceInv, ContractInv, [Next]_vars
  PROVE  CallsEntitled'
<1>0. /\ Handed \subseteq Handed' /\ Ordered \subseteq Ordered'
      /\ Overdue \subseteq Overdue' /\ Grown \subseteq Grown'
  BY HandedStands, OrderedStands, AgesStand
<1>1. ASSUME NEW d \in Calls
      PROVE  Entitled(calls[d], Handed', Ordered', Overdue', Grown')
  BY <1>0, EntitledStands DEF ContractInv, CallsEntitled
<1> SUFFICES \A d \in Calls : Entitled(calls'[d], Handed', Ordered', Overdue', Grown')
  BY DEF CallsEntitled
<1>2. CASE ProviderSettle \/ Tick \/ UNCHANGED vars
  BY <1>1, <1>2 DEF ProviderSettle, Tick, vars
<1>3. CASE Restart
  <2>1. \A d \in Calls : calls'[d] = IdleCall
    BY <1>3 DEF Restart
  <2>2. IdleCall.at = "idle"
    BY DEF IdleCall
  <2> QED
    BY <2>1, <2>2, IdleIsEntitled
<1>4. ASSUME NEW c \in Calls, HttpStep(c) \/ CronStep(c)
      PROVE  \A d \in Calls : Entitled(calls'[d], Handed', Ordered', Overdue', Grown')
  <2>1. GoesOnEntitled(c)
    BY <1>4, InitiateIsEntitled, RefundIsEntitled, ConfirmIsEntitled, SaveIsEntitled,
       PassIsEntitled, ReconcileIsEntitled DEF HttpStep, CronStep, Confirm
  <2>2. PICK call : GoTo(c, call) /\ Entitled(call, Handed, Ordered', Overdue, Grown)
    BY <2>1 DEF GoesOnEntitled
  <2>3. calls'[c] = call /\ \A d \in Calls : d # c => calls'[d] = calls[d]
    BY <2>2 DEF GoTo, TypeInv, TypeOK
  <2>4. Entitled(call, Handed', Ordered', Overdue', Grown')
    BY <1>0, <2>2, EntitledStands
  <2> QED
    BY <1>1, <2>3, <2>4
<1> QED
  BY <1>2, <1>3, <1>4 DEF Next, Calls

\* The invariant holds of every reachable state.
THEOREM ContractInvAlways == Spec => []ContractInv
<1>1. Init => ContractInv
  <2>1. IdleCall.at = "idle" /\ NoRow.status = "ABSENT" /\ ~NoRow.ref
    BY DEF IdleCall, NoRow, NewRow
  <2>2. Init => CallsEntitled
    BY <2>1, IdleIsEntitled DEF Init, CallsEntitled
  <2>3. Init => RowsHanded
    BY <2>1 DEF Init, RowsHanded
  <2> QED
    BY <2>2, <2>3 DEF ContractInv
<1>2. TypeInv /\ RefundInv /\ ReferenceInv /\ CallsTimely /\ ContractInv
        /\ [Next]_vars => ContractInv'
  BY RowsHandedStep, EntitledStep DEF ContractInv
<1> QED
  BY <1>1, <1>2, TypeInvAlways, RefundInvAlways, ReferenceInvAlways,
     CallsTimelyAlways, PTL DEF Spec

(***************************************************************************)
(* The services keep the contract.                                         *)
(***************************************************************************)

\* The contract speaks of the same statuses.
LEMMA ContractTable ==
  /\ Contract!OpenStatuses = OpenStatuses
  /\ Contract!RefundableStatuses = RefundableStatuses
  /\ \A s, t : Contract!CanTransition(s, t) <=> CanTransition(s, t)
BY DEF Contract!OpenStatuses, OpenStatuses, Contract!RefundableStatuses,
       RefundableStatuses, Contract!CanTransition, CanTransition,
       Contract!AllowedTransitions, AllowedTransitions

SinceOf == [p \in Payments |-> payments[p].createdAt]
Handover == {p \in Payments : HandingOver(p)}

\* The promises of the contract, and everything it speaks of but the hand-over.
SamePromises == UNCHANGED <<StatusOf, RequestOf, SinceOf>>
SameWords == UNCHANGED <<charge, decisions>>
SameMoney == UNCHANGED <<refunded, returned>>

LEMMA HandoverMeans ==
  ASSUME NEW p \in Payments
  PROVE  /\ p \in Handover <=>
              \E c \in Calls : Initiating(calls[c]) /\ calls[c].pay = p
         /\ p \in Handed => p \notin Handover
BY DEF Handover, HandingOver, Initiating, Handed, Settled

\* One row is written, as the contract sees it.
LEMMA RowKept ==
  ASSUME TypeInv, NEW p \in Payments, NEW row \in Row,
         payments' = [payments EXCEPT ![p] = row],
         row.req = payments[p].req, row.createdAt = payments[p].createdAt
  PROVE  /\ StatusOf' = [StatusOf EXCEPT ![p] = row.status]
         /\ RequestOf' = RequestOf /\ SinceOf' = SinceOf
         /\ row.status = payments[p].status => SamePromises
<1>1. SinceOf' = SinceOf
  BY DEF SinceOf, TypeInv, TypeOK
<1> QED
  BY <1>1, RowSeen DEF SamePromises

\* Nobody is handed over by a call that does not initiate.
LEMMA HandoverStays ==
  ASSUME TypeInv, NEW c \in Calls, \A d \in Calls : d # c => calls'[d] = calls[d],
         \/ ~Initiating(calls[c]) /\ ~Initiating(calls'[c])
         \/ /\ Initiating(calls[c]) /\ Initiating(calls'[c])
            /\ calls'[c].pay = calls[c].pay
  PROVE  Handover' = Handover
<1>1. ASSUME NEW p \in Payments
      PROVE  (\E d \in Calls : Initiating(calls'[d]) /\ calls'[d].pay = p)
               <=> (\E d \in Calls : Initiating(calls[d]) /\ calls[d].pay = p)
  OBVIOUS
<1> QED
  BY <1>1 DEF Handover, HandingOver, Initiating

\* The hand-over of a payment ends with the one call that makes it.
LEMMA HandoverEnds ==
  ASSUME TypeInv, ReferenceInv, NEW c \in Calls,
         \A d \in Calls : d # c => calls'[d] = calls[d],
         Initiating(calls[c]), ~Initiating(calls'[c])
  PROVE  Handover' = Handover \ {calls[c].pay}
<1>1. ASSUME NEW p \in Payments
      PROVE  (\E d \in Calls : Initiating(calls'[d]) /\ calls'[d].pay = p)
               <=> /\ p # calls[c].pay
                   /\ \E d \in Calls : Initiating(calls[d]) /\ calls[d].pay = p
  BY DEF ReferenceInv, OneInitiates
<1> QED
  BY <1>1 DEF Handover, HandingOver, Initiating

\* Only the INSERT begins one.
LEMMA HandoverShrinks ==
  ASSUME TypeInv, ReferenceInv, [Next]_vars,
         ~\E c \in Calls : InsertPayment(c) /\ payments' # payments
  PROVE  Handover' \subseteq Handover
<1>1. \A d \in Calls : Initiating(calls'[d]) =>
        Initiating(calls[d]) /\ calls'[d].pay = calls[d].pay
  BY InitiatingStays
<1> QED
  BY <1>1 DEF Handover, HandingOver, Initiating

\* A payment that is handed over has no other status than these.
LEMMA HandoverStatus ==
  ASSUME TypeInv, ReferenceInv, ContractInv, NEW c \in Calls, Initiating(calls[c])
  PROVE  /\ calls[c].pay \in Handover
         /\ StatusOf[calls[c].pay] \in {"INITIATED", "EXPIRED", "FAILED"}
<1>1. calls[c].pay \in Payments
  BY CallGround
<1>2. calls[c].pay \in Handover
  BY <1>1, HandoverMeans
<1>3. Exists(calls[c].pay) /\ calls[c].pay \notin Handed
  BY <1>1, <1>2, HandoverMeans DEF ReferenceInv, OneInitiates
<1>4. payments[calls[c].pay].status \in {"INITIATED", "EXPIRED", "FAILED"}
  BY <1>1, <1>3, RowHanded DEF Exists
<1> QED
  BY <1>1, <1>2, <1>4 DEF StatusOf

\* What the unique index lets through is free.
LEMMA IndexFrees ==
  ASSUME NEW p \in Payments, NEW row, row.status \in OpenStatuses, ~BookingTaken(p, row)
  PROVE  Contract!BookingFree(p, row.req.booking)
BY ContractTable DEF BookingTaken, Contract!BookingFree

\* The INSERT of initiate() creates a payment.
LEMMA InsertKeepsContract ==
  ASSUME TypeInv, ReferenceInv, ContractInv,
         NEW c \in Calls, InsertPayment(c), payments' # payments
  PROVE  \E req \in Requests : Contract!Create(req)
<1> DEFINE call == calls[c]
           req == call.given.req
           row == NewRow(req, now)
<1>1. /\ call.pay \in Payments /\ call.at = "insert"
      /\ req \in Requests /\ req.key = call.pay
  BY CallType DEF InsertPayment, Suspended, Working, Labels, ContractInv,
     CallsEntitled, Entitled
<1>2. /\ payments' = [payments EXCEPT ![call.pay] = row]
      /\ payments[call.pay].status = "ABSENT" /\ ~BookingTaken(call.pay, row)
      /\ UNCHANGED <<refunded, charge, returned, decisions, now>>
      /\ GoTo(c, [call EXCEPT !.at = "rail_initiate", !.snap = row])
  BY DEF InsertPayment, KeyTaken, Exists
<1>3. /\ row.status = "INITIATED" /\ row.req = req /\ row.createdAt = now
      /\ row \in Row
  BY <1>1, NewRowType DEF NewRow, TypeInv, TypeOK
<1>4. Contract!BookingFree(req.key, req.booking)
  BY <1>1, <1>2, <1>3, IndexFrees DEF OpenStatuses
<1>5. /\ StatusOf' = [StatusOf EXCEPT ![req.key] = "INITIATED"]
      /\ RequestOf' = [RequestOf EXCEPT ![req.key] = req]
      /\ SinceOf' = [SinceOf EXCEPT ![req.key] = now]
  <2> HIDE DEF row, req, call
  <2>1. /\ StatusOf' = [StatusOf EXCEPT ![call.pay] = row.status]
        /\ RequestOf' = [RequestOf EXCEPT ![call.pay] = row.req]
    BY <1>1, <1>2, <1>3, RowSeen
  <2>2. SinceOf' = [SinceOf EXCEPT ![call.pay] = row.createdAt]
    BY <1>1, <1>2, <1>3 DEF SinceOf, TypeInv, TypeOK
  <2> QED
    BY <1>1, <1>3, <2>1, <2>2
<1>6. Handover' = Handover \cup {req.key}
  <2>1. /\ calls'[c].at = "rail_initiate" /\ calls'[c].pay = call.pay
        /\ calls'[c].op = call.op
        /\ \A d \in Calls : d # c => calls'[d] = calls[d]
    BY <1>2, CallType DEF GoTo, TypeInv, TypeOK, Call
  <2>2. call.op = "initiate"
    BY <1>1, CallGround DEF Grounded, FitsCode
  <2>3. Initiating(calls'[c]) /\ ~Initiating(calls[c])
    BY <1>1, <2>1, <2>2 DEF Initiating
  <2>4. ASSUME NEW p \in Payments
        PROVE  (\E d \in Calls : Initiating(calls'[d]) /\ calls'[d].pay = p)
                 <=> \/ p = call.pay
                     \/ \E d \in Calls : Initiating(calls[d]) /\ calls[d].pay = p
    BY <2>1, <2>3
  <2> QED
    BY <1>1, <2>4 DEF Handover, HandingOver, Initiating
<1> HIDE DEF row, req, call
<1>7. StatusOf[req.key] = "ABSENT"
  BY <1>1, <1>2 DEF StatusOf
<1>8. Contract!Create(req)
  BY <1>2, <1>4, <1>5, <1>6, <1>7
     DEF Contract!Create, Contract!words, Contract!money, StatusOf, RequestOf,
         SinceOf, Handover
<1> QED
  BY <1>1, <1>8 DEF Contract!Create

\* Calls that end, and steps that the contract does not see.
LEMMA UnseenKeepsContract ==
  ASSUME TypeInv, ReferenceInv, [Next]_vars,
         ~\E c \in Calls : InsertPayment(c) /\ payments' # payments,
         SamePromises, SameWords, SameMoney, UNCHANGED now
  PROVE  Contract!Abandon
BY HandoverShrinks
   DEF Contract!Abandon, Contract!promises, Contract!words, Contract!money,
       SamePromises, SameWords, SameMoney, StatusOf, RequestOf, SinceOf, Handover

\* A status is moved on one of the grounds that the contract allows.
LEMMA MoveKeepsContract ==
  ASSUME NEW p \in Payments, NEW to \in Statuses,
         StatusOf' = [StatusOf EXCEPT ![p] = to],
         UNCHANGED <<RequestOf, SinceOf, Handover, now>>, SameWords, SameMoney
  PROVE  Contract!MoveTo(p, to)
BY DEF Contract!MoveTo, Contract!words, Contract!money, SameWords, SameMoney,
       StatusOf, RequestOf, SinceOf, Handover

\* What the invariants say of payments, in the words of the contract.
LEMMA GroundsHold ==
  ASSUME TypeInv, NEW p \in Payments
  PROVE  /\ p \in Handed => Contract!HandedOver(p)
         /\ p \in Overdue => StatusOf[p] # "ABSENT" /\ Contract!OlderThan(p, TTL + 1)
         /\ p \in Grown => Contract!OlderThan(p, ReviewAfter)
<1>1. p \in Handed => Contract!HandedOver(p)
  BY HandoverMeans
     DEF Contract!HandedOver, Handed, Settled, Exists, Handover, StatusOf
<1>2. p \in Overdue => StatusOf[p] # "ABSENT" /\ Contract!OlderThan(p, TTL + 1)
  BY DEF Contract!OlderThan, Overdue, Aged, Exists, StatusOf
<1>3. p \in Grown => Contract!OlderThan(p, ReviewAfter)
  BY DEF Contract!OlderThan, Grown, Aged
<1> QED
  BY <1>1, <1>2, <1>3

\* The UPDATE of a save(): initiate() hands over, any other call settles.
LEMMA UpdateKeepsContract ==
  ASSUME TypeInv, RefundInv, VerdictInv, ReferenceInv, CallsTimely, ContractInv,
         Next, NEW c \in Calls, SaveUpdate(c), payments' # payments,
         NEW p \in Payments, p = calls[c].pay
  PROVE  Contract!ContractNext
<1> DEFINE call == calls[c]
           row == Written(payments[p], call.snap, call.dirty)
<1>1. /\ call.at = "flush" /\ payments[p] \in Row
      /\ call.snap \in Row /\ call.dirty \in SUBSET Columns
  BY CallType, PaymentType DEF SaveUpdate, Suspended
<1>2. /\ payments' = [payments EXCEPT ![p] = row] /\ ~BookingTaken(p, row)
      /\ SameWords /\ SameMoney /\ UNCHANGED now
  BY DEF SaveUpdate, SameWords, SameMoney
<1>3. row \in Row /\ row.req = payments[p].req /\ row.createdAt = payments[p].createdAt
  BY <1>1, WrittenType
<1>4. payments'[p] = row
  BY <1>1, <1>2 DEF TypeInv, TypeOK
<1>5. /\ StatusOf' = [StatusOf EXCEPT ![p] = row.status]
      /\ RequestOf' = RequestOf /\ SinceOf' = SinceOf
      /\ row.status = payments[p].status => SamePromises
  BY <1>1, <1>2, <1>3, RowKept
<1>6. /\ \A d \in Calls : d # c => calls'[d] = calls[d]
      /\ ~Initiating(calls'[c])
  BY UpdateGoesTo
<1>7. ~\E d \in Calls : InsertPayment(d) /\ payments' # payments
  <2>1. ASSUME NEW d \in Calls, InsertPayment(d)
        PROVE  FALSE
    <3>1. d # c
      BY <1>1, <2>1 DEF InsertPayment, Suspended
    <3>2. calls'[d].at = "rail_initiate" /\ calls[d].at = "insert"
      BY <2>1, InsertGoesToTheRail DEF InsertPayment, Suspended
    <3> QED
      BY <1>6, <3>1, <3>2
  <2> QED
    BY <2>1
<1> HIDE DEF row
<1>8. CASE call.op = "initiate"
  <2>1. row.status = "AWAITING_CONFIRMATION"
    BY <1>1, <1>4, <1>8, UpdateIsEntitled
  <2>2. charge[p] # "none"
    BY <1>1, <1>8 DEF ContractInv, CallsEntitled, Entitled, MaySave, Ordered
  <2>3. Initiating(call)
    BY <1>1, <1>8 DEF Initiating
  <2>4. /\ p \in Handover /\ StatusOf[p] \in {"INITIATED", "EXPIRED", "FAILED"}
        /\ Handover' = Handover \ {p}
    BY <1>6, <2>3, HandoverStatus, HandoverEnds
  <2>5. Contract!BookingFree(p, RequestOf[p].booking)
    <3>1. Contract!BookingFree(p, row.req.booking)
      BY <1>1, <1>2, <2>1, IndexFrees DEF OpenStatuses
    <3> QED
      BY <1>1, <1>3, <3>1 DEF RequestOf
  <2> HIDE DEF call
  <2>6. Contract!Await(p)
    BY <1>2, <1>5, <2>1, <2>2, <2>4, <2>5
       DEF Contract!Await, Contract!NotYetHandedOver, Contract!words, Contract!money,
           SameWords, SameMoney, StatusOf, RequestOf, SinceOf, Handover
  <2> QED
    BY <1>1, <2>6 DEF Contract!ContractNext
<1>9. CASE call.op # "initiate" /\ row.status # payments[p].status
  <2>0. PICK to \in Statuses : to = call.snap.status
    <3>1. call.snap.status \in Statuses
      BY <1>1, <1>9, UpdateIsEntitled DEF Statuses
    <3> QED
      BY <3>1
  <2>1. /\ row.status = to
        /\ \/ to = "FAILED"
           \/ to = "EXPIRED" /\ p \in Overdue
           \/ to = "CONFIRMED" /\ p \in Handed
           \/ to \in {"MANUAL_REVIEW", "VOIDED"} /\ p \in Handed \cap Grown
    BY <1>1, <1>4, <1>9, <2>0, UpdateIsEntitled
  <2>2. Handover' = Handover
    BY <1>6, <1>9, HandoverStays DEF Initiating
  <2>3. Contract!MoveTo(p, to)
    <3>1. StatusOf' = [StatusOf EXCEPT ![p] = to]
      BY <1>5, <2>1
    <3> QED
      BY <1>2, <1>5, <2>2, <3>1, MoveKeepsContract
  <2>4. /\ Honest(call, Charged, Declined, charge)
        /\ HasItsWord(call, decisions) /\ SavesClosed(call, Referenced, Closed)
    BY CallGround DEF VerdictInv, CallsHonest, Grounded
  <2>5. to = "CONFIRMED" => p \in Charged
    BY <1>1, <2>0, <2>4 DEF Honest, SnapLabels, Backed, PaidStatuses
  <2>6. to = "FAILED" =>
          \/ p \in Handed /\ charge[p] = "failed"
          \/ StatusOf[p] # "ABSENT" /\ <<p, "FAILED">> \in decisions
    <3>1. CASE call.op \in {"resolve", "void"}
      <4>1. to = "FAILED" => <<p, "FAILED">> \in decisions
        BY <1>1, <1>9, <2>0, <2>4, <3>1 DEF HasItsWord, Moved
      <4>2. <<p, "FAILED">> \in decisions => StatusOf[p] # "ABSENT"
        BY <1>1 DEF ContractInv, RowsHanded, Statuses, StatusOf, Exists
      <4> QED
        BY <4>1, <4>2
    <3>2. CASE call.op \notin {"resolve", "void"}
      <4>1. ASSUME to = "FAILED"
            PROVE  p \in Handed /\ charge[p] = "failed"
        <5>1. charge[p] = "failed"
          BY <1>1, <1>9, <2>0, <2>4, <3>2, <4>1 DEF Honest, Reported, VerdictOf
        <5>2. p \in Referenced
          BY <1>1, <1>9, <2>0, <2>4, <3>2, <4>1 DEF HasItsWord, Moved, SavesClosed
        <5>3. p \in Handed
          BY <1>1, <5>2, RowHanded DEF Referenced, Handed, Open, OpenStatuses
        <5> QED
          BY <5>1, <5>3
      <4> QED
        BY <4>1
    <3> QED
      BY <3>1, <3>2
  <2> HIDE DEF call
  <2>7. \/ Contract!Confirm(p) \/ Contract!Fail(p) \/ Contract!Expire(p)
        \/ Contract!Review(p) \/ Contract!Void(p)
    <3>1. CASE to = "CONFIRMED"
      <4>1. Contract!Confirm(p)
        BY <1>1, <2>1, <2>3, <2>5, <3>1, GroundsHold DEF Contract!Confirm, Charged
      <4> QED
        BY <4>1
    <3>2. CASE to = "FAILED"
      <4>1. Contract!Fail(p)
        BY <1>1, <2>3, <2>6, <3>2, GroundsHold DEF Contract!Fail, StatusOf
      <4> QED
        BY <4>1
    <3>3. CASE to = "EXPIRED"
      <4>1. Contract!Expire(p)
        BY <1>1, <2>1, <2>3, <3>3, GroundsHold DEF Contract!Expire, StatusOf
      <4> QED
        BY <4>1
    <3>4. CASE to = "MANUAL_REVIEW"
      <4>1. Contract!Review(p)
        BY <1>1, <2>1, <2>3, <3>4, GroundsHold DEF Contract!Review
      <4> QED
        BY <4>1
    <3>5. CASE to = "VOIDED"
      <4>1. Contract!Void(p)
        BY <1>1, <2>1, <2>3, <3>5, GroundsHold DEF Contract!Void
      <4> QED
        BY <4>1
    <3> QED
      BY <2>1, <3>1, <3>2, <3>3, <3>4, <3>5
  <2> QED
    BY <1>1, <2>7 DEF Contract!ContractNext
<1>10. CASE row.status = payments[p].status
  <2>1. Contract!Abandon
    BY <1>2, <1>5, <1>7, <1>10, UnseenKeepsContract
  <2> QED
    BY <2>1 DEF Contract!ContractNext
<1> QED
  BY <1>8, <1>9, <1>10

\* The COMMIT of a refund books it.
LEMMA CommitKeepsContract ==
  ASSUME TypeInv, RefundInv, ReferenceInv, ContractInv, NEW c \in Calls, RefundCommit(c)
  PROVE  \E p \in Payments : Contract!Book(p)
<1> DEFINE call == calls[c]
           p == call.pay
           row == [payments[p] EXCEPT !.status = RefundedStatus(call)]
           total == refunded[p] + call.amount
<1>1. /\ p \in Payments /\ payments[p] \in Row /\ call.at = "refund_commit"
      /\ refunded[p] \in Nat /\ call.amount \in Nat
  BY CallType, PaymentType DEF RefundCommit, Suspended, Working, Labels
<1>2. /\ call.snap = payments[p] /\ call.snap.status \in RefundableStatuses
      /\ call.sum = refunded[p]
      /\ call.sum + call.amount <= Amount(call.snap)
      /\ call.amount >= 1
  BY <1>1 DEF RefundInv, LockedRowIsCurrent, SumIsCurrent, InTransaction,
     ContractInv, CallsEntitled, Entitled
<1>3. /\ payments' = [payments EXCEPT ![p] = row]
      /\ refunded' = [refunded EXCEPT ![p] = total]
      /\ UNCHANGED <<charge, decisions, returned, now>>
      /\ GoTo(c, [call EXCEPT !.at = "refund_provider", !.sum = 0])
  BY DEF RefundCommit
<1>4. /\ row.status = RefundedStatus(call) /\ row.req = payments[p].req
      /\ row.createdAt = payments[p].createdAt /\ row \in Row
  BY <1>1 DEF Row, RefundedStatus, Statuses
<1>5. Amount(payments[p]) = RequestOf[p].amount /\ Amount(payments[p]) \in Nat
  BY <1>1, StoreAssumption DEF Amount, RequestOf, Row, NoRequest
<1>6. RefundedStatus(call) = IF total = RequestOf[p].amount
                             THEN "REFUNDED" ELSE "PARTIALLY_REFUNDED"
  BY <1>1, <1>2, <1>5 DEF RefundedStatus
<1>7. total \in (refunded[p] + 1)..RequestOf[p].amount
  BY <1>1, <1>2, <1>5
<1>8. Handover' = Handover
  <2>1. /\ calls'[c].at = "refund_provider"
        /\ \A d \in Calls : d # c => calls'[d] = calls[d]
    BY <1>3, CallType DEF GoTo, TypeInv, TypeOK, Call
  <2> QED
    BY <1>1, <2>1, HandoverStays DEF Initiating
<1>9. p \notin Handover
  BY <1>1, BookedIsHanded, HandoverMeans
<1> HIDE DEF row, p, total, call
<1>10. /\ StatusOf' = [StatusOf EXCEPT ![p] = RefundedStatus(call)]
       /\ RequestOf' = RequestOf /\ SinceOf' = SinceOf
  <2>1. /\ StatusOf' = [StatusOf EXCEPT ![p] = row.status]
        /\ RequestOf' = RequestOf /\ SinceOf' = SinceOf
    BY <1>1, <1>3, <1>4, RowKept
  <2> QED
    BY <1>4, <2>1
<1>11. StatusOf[p] \in RefundableStatuses
  BY <1>1, <1>2 DEF StatusOf
<1>12. Contract!Book(p)
  BY <1>3, <1>6, <1>7, <1>8, <1>9, <1>10, <1>11, ContractTable
     DEF Contract!Book, Contract!words, StatusOf, RequestOf, SinceOf, Handover
<1> QED
  BY <1>1, <1>12 DEF Contract!Book

\* The rail's initiate() orders, or ends without an order.
LEMMA OrderKeepsContract ==
  ASSUME TypeInv, OrderInv, ReferenceInv, ContractInv,
         NEW c \in Calls, RailInitiate(c), charge' # charge
  PROVE  \E p \in Payments : Contract!Order(p)
<1> DEFINE call == calls[c]
           p == call.pay
           row == AwaitingConfirmation(call.snap)
           next == [call EXCEPT !.at = "save", !.snap = row]
<1>1. /\ call \in Call /\ call.at = "rail_initiate" /\ p \in Payments
      /\ charge[p] = "none" /\ Initiating(call)
  BY CallType, CallGround DEF RailInitiate, Suspended, Working, Labels, OrderInv,
     Grounded, FitsCode, Initiating
<1>2. /\ charge' = [charge EXCEPT ![p] = "pending"]
      /\ GoTo(c, next) \/ GoTo(c, Done(call, "error"))
      /\ UNCHANGED <<payments, decisions, now>> /\ SameMoney
  BY DEF RailInitiate, SameMoney
<1>3. /\ p \in Handover /\ StatusOf[p] \in {"INITIATED", "EXPIRED", "FAILED"}
  BY <1>1, HandoverStatus
<1>4. next.at = "save" /\ next.op = call.op /\ next.pay = p
  BY <1>1 DEF Call
<1>5. Handover' \in {Handover, Handover \ {p}}
  <2> HIDE DEF next
  <2>1. /\ \A d \in Calls : d # c => calls'[d] = calls[d]
        /\ calls'[c] = next \/ calls'[c] = Done(call, "error")
    BY <1>2 DEF GoTo, TypeInv, TypeOK
  <2>2. CASE calls'[c] = next
    BY <1>1, <1>4, <2>1, <2>2, HandoverStays DEF Initiating
  <2>3. CASE calls'[c] = Done(call, "error")
    <3>1. ~Initiating(calls'[c])
      BY <2>3, DoneFields DEF Initiating
    <3> QED
      BY <1>1, <2>1, <3>1, HandoverEnds
  <2> QED
    BY <2>1, <2>2, <2>3
<1> HIDE DEF next, p, call
<1>6. UNCHANGED <<StatusOf, RequestOf, SinceOf>>
  BY <1>2 DEF StatusOf, RequestOf, SinceOf
<1>7. Contract!Order(p)
  BY <1>1, <1>2, <1>3, <1>5, <1>6
     DEF Contract!Order, Contract!NotYetHandedOver, Contract!promises,
         Contract!money, SameMoney, StatusOf, RequestOf, SinceOf, Handover
<1> QED
  BY <1>1, <1>7 DEF Contract!Order

\* Provider, administrator and clock speak for themselves.
LEMMA SpeakersKeepContract ==
  ASSUME TypeInv, ProviderSettle \/ Tick \/ \E c \in Calls : ResolveManually(c)
  PROVE  Contract!ContractNext
<1> USE DEF Contract!words, Contract!money, Contract!promises
<1>1. CASE ProviderSettle
  <2>1. PICK p \in Payments, verdict \in Verdicts :
          charge[p] = "pending" /\ charge' = [charge EXCEPT ![p] = verdict]
    BY <1>1 DEF ProviderSettle
  <2>2. /\ UNCHANGED <<StatusOf, RequestOf, SinceOf, Handover>>
        /\ UNCHANGED <<decisions, refunded, returned, now>>
    BY <1>1 DEF ProviderSettle, StatusOf, RequestOf, SinceOf, Handover, HandingOver
  <2>3. Contract!Settle(p)
    BY <2>1, <2>2 DEF Contract!Settle, Verdicts, StatusOf, RequestOf, SinceOf, Handover
  <2> QED
    BY <2>3 DEF Contract!ContractNext
<1>2. CASE Tick
  <2>1. /\ UNCHANGED <<StatusOf, RequestOf, SinceOf, Handover>>
        /\ UNCHANGED <<charge, decisions, refunded, returned>>
        /\ now' = now + 1
    BY <1>2 DEF Tick, StatusOf, RequestOf, SinceOf, Handover, HandingOver
  <2>2. Contract!PassTime
    BY <2>1 DEF Contract!PassTime, StatusOf, RequestOf, SinceOf, Handover
  <2> QED
    BY <2>2 DEF Contract!ContractNext
<1>3. ASSUME NEW c \in Calls, ResolveManually(c)
      PROVE  Contract!ContractNext
  <2> DEFINE next(p, resolution) == [NewCall("resolve", p) EXCEPT
                     !.at = "save", !.snap = Resolved(payments[p], resolution)]
  <2>1. PICK p \in Payments, resolution \in {"CONFIRMED", "FAILED"} :
          /\ CanTransition(payments[p].status, resolution)
          /\ GoTo(c, next(p, resolution))
          /\ decisions' = decisions \cup {<<p, resolution>>}
    BY <1>3 DEF ResolveManually
  <2>2. calls[c].at = "idle" /\ next(p, resolution).op = "resolve"
    BY <1>3 DEF ResolveManually, Start, Suspended, NewCall, IdleCall
  <2> HIDE DEF next
  <2>3. Handover' = Handover
    <3>1. calls'[c] = next(p, resolution) /\ \A d \in Calls : d # c => calls'[d] = calls[d]
      BY <2>1 DEF GoTo, TypeInv, TypeOK
    <3> QED
      BY <2>2, <3>1, HandoverStays DEF Initiating
  <2>4. /\ UNCHANGED <<StatusOf, RequestOf, SinceOf>>
        /\ UNCHANGED <<charge, refunded, returned, now>>
        /\ StatusOf[p] = payments[p].status
    BY <1>3 DEF ResolveManually, StatusOf, RequestOf, SinceOf
  <2>5. Contract!Decide(p, resolution)
    BY <2>1, <2>3, <2>4, ContractTable
       DEF Contract!Decide, StatusOf, RequestOf, SinceOf, Handover
  <2> QED
    BY <2>1, <2>5 DEF Contract!ContractNext
<1> QED
  BY <1>1, <1>2, <1>3

\* The provider pays back no more than it may.
LEMMA RefundPaysBack ==
  ASSUME TypeInv, ReferenceInv, PaidBackOnlyWhatIsBooked',
         NEW c \in Calls, RefundProvider(c), returned' # returned
  PROVE  \E p \in Payments : Contract!PayBack(p)
<1> DEFINE call == calls[c]
           p == call.pay
           total == returned[p] + call.amount
           tries == [call EXCEPT !.sum = @ + 1]
<1>1. /\ call \in Call /\ call.at = "refund_provider" /\ p \in Payments
      /\ returned[p] \in Nat /\ call.amount \in Nat /\ refunded[p] \in Nat
  BY CallType, PaymentType DEF RefundProvider, Suspended, Working, Labels
<1>2. /\ returned' = [returned EXCEPT ![p] = total]
      /\ GoTo(c, tries) \/ GoTo(c, Done(call, "ok"))
      /\ UNCHANGED <<payments, refunded, decisions, charge, now>>
  BY DEF RefundProvider
<1>3. total \in returned[p]..(RefundTries * refunded[p])
  <2>1. returned'[p] = total
    BY <1>1, <1>2 DEF TypeInv, TypeOK
  <2>2. total <= RefundTries * refunded[p]
    BY <1>1, <1>2, <2>1 DEF PaidBackOnlyWhatIsBooked
  <2>3. RefundTries * refunded[p] \in Int
    BY <1>1, RefundAssumption
  <2> QED
    BY <1>1, <2>2, <2>3
<1>4. Handover' = Handover
  <2>1. tries.at = call.at /\ Done(call, "ok").at = "done"
    BY <1>1, DoneFields DEF Call
  <2> HIDE DEF tries
  <2>2. /\ \A d \in Calls : d # c => calls'[d] = calls[d]
        /\ calls'[c] \in {tries, Done(call, "ok")}
    BY <1>2 DEF GoTo, TypeInv, TypeOK
  <2> QED
    BY <1>1, <2>1, <2>2, HandoverStays DEF Initiating
<1> HIDE DEF tries, total, p, call
<1>5. UNCHANGED <<StatusOf, RequestOf, SinceOf>>
  BY <1>2 DEF StatusOf, RequestOf, SinceOf
<1>6. Contract!PayBack(p)
  BY <1>2, <1>3, <1>4, <1>5
     DEF Contract!PayBack, Contract!promises, Contract!words, StatusOf, RequestOf,
         SinceOf, Handover
<1> QED
  BY <1>1, <1>6 DEF Contract!PayBack

\* Only the provider's answer to a refund pays back.
LEMMA PayingWriters ==
  ASSUME Next, returned' # returned
  PROVE  \E c \in Calls : RefundProvider(c)
<1>1. ASSUME NEW c \in Calls,
             \/ Initiate(c) \/ Confirm(c) \/ Save(c) \/ Reply(c)
             \/ RefundLock(c) \/ RefundSum(c) \/ RefundCommit(c)
      PROVE  returned' = returned
  BY <1>1 DEF Initiate, InitiateStart, CheckBooking, InsertPayment, ReadWinner,
     RailInitiate, Confirm, WebhookReceive, RejectWebhook, VerifyReturnStart,
     VerifyAnswer, Apply, LogNoOp, LogApplied, Save, SaveSelect, SaveUpdate,
     Reply, RefundLock, RefundSum, RefundCommit
<1>2. ASSUME NEW c \in Calls, ReconciliationPass(c) \/ Reconcile(c) \/ Administer(c)
      PROVE  returned' = returned
  BY <1>2 DEF ReconciliationPass, CronStart, SweepOne, FindAwaiting, PollOne,
     PassEnd, Reconcile, AfterApply, RecordAttempt, Escalate, Administer,
     ForceReconcile, ResolveManually, VoidPayment
<1>3. returned' = returned \/ \E c \in Calls : HttpStep(c) \/ CronStep(c)
  BY DEF Next, ProviderSettle, Tick, Restart, Calls
<1> QED
  BY <1>1, <1>2, <1>3 DEF HttpStep, CronStep, Confirm, Refund

\* Every step of the services is one that the contract allows.
LEMMA ContractStep ==
  ASSUME TypeInv, RefundInv, VerdictInv, OrderInv, ReferenceInv, CallsTimely,
         ContractInv, PaidBackOnlyWhatIsBooked', [Next]_vars
  PROVE  Contract!ContractNext
<1> DEFINE Inserts == \E c \in Calls : InsertPayment(c) /\ payments' # payments
<1>1. CASE \E c \in Calls : RefundCommit(c)
  BY <1>1, CommitKeepsContract DEF Contract!ContractNext
<1>2. CASE Inserts
  BY <1>2, InsertKeepsContract DEF Contract!ContractNext
<1>3. ASSUME NEW c \in Calls, SaveUpdate(c), payments' # payments
      PROVE  Contract!ContractNext
  <2>1. Next
    BY <1>3 DEF vars
  <2>2. PICK p \in Payments : p = calls[c].pay
    BY <1>3, UpdatedRow
  <2> QED
    BY <1>3, <2>1, <2>2, UpdateKeepsContract
<1>4. ASSUME NEW c \in Calls, RailInitiate(c), charge' # charge
      PROVE  Contract!ContractNext
  BY <1>4, OrderKeepsContract DEF Contract!ContractNext
<1>5. CASE ProviderSettle \/ Tick \/ \E c \in Calls : ResolveManually(c)
  BY <1>5, SpeakersKeepContract
<1>6. ASSUME NEW c \in Calls, RefundProvider(c), returned' # returned
      PROVE  Contract!ContractNext
  BY <1>6, RefundPaysBack DEF Contract!ContractNext
<1>7. CASE /\ ~\E c \in Calls : \/ RefundCommit(c) \/ ResolveManually(c)
                                \/ SaveUpdate(c) /\ payments' # payments
                                \/ RailInitiate(c) /\ charge' # charge
                                \/ RefundProvider(c) /\ returned' # returned
           /\ ~Inserts /\ ~ProviderSettle /\ ~Tick
  <2>1. SamePromises
    <3>1. ASSUME NEW c \in Calls, AfterApply(c) \/ RecordAttempt(c)
          PROVE  SamePromises
      <4>1. PICK row : /\ payments' = [payments EXCEPT ![calls[c].pay] = row]
                       /\ row.status = payments[calls[c].pay].status
                       /\ row.req = payments[calls[c].pay].req
        BY <3>1, Bookkeeping
      <4>2. \A p \in Payments : /\ payments'[p].status = payments[p].status
                                /\ payments'[p].req = payments[p].req
        BY <4>1 DEF TypeInv, TypeOK
      <4>3. \A p \in Payments : payments'[p].createdAt = payments[p].createdAt
        <5>1. payments \in [Payments -> Row]
          BY DEF TypeInv, TypeOK
        <5>2. CASE AfterApply(c)
          BY <5>1, <5>2 DEF AfterApply, Row
        <5>3. CASE RecordAttempt(c)
          BY <5>1, <5>3 DEF RecordAttempt, Row
        <5> QED
          BY <3>1, <5>2, <5>3
      <4> QED
        BY <4>2, <4>3 DEF SamePromises, StatusOf, RequestOf, SinceOf
    <3>2. CASE payments' = payments
      BY <3>2 DEF SamePromises, StatusOf, RequestOf, SinceOf
    <3> QED
      BY <1>7, <3>1, <3>2, PaymentWriters DEF vars
  <2>2. SameWords
    BY <1>7, ChargeWriters, DecisionWriters DEF SameWords, vars
  <2>3. SameMoney
    BY <1>7, LedgerWriters, PayingWriters DEF SameMoney, vars
  <2>4. now' = now
    BY <1>7, ClockRuns
  <2>5. Contract!Abandon
    BY <1>7, <2>1, <2>2, <2>3, <2>4, UnseenKeepsContract
  <2> QED
    BY <2>5 DEF Contract!ContractNext
<1> QED
  BY <1>1, <1>2, <1>3, <1>4, <1>5, <1>6, <1>7

\* However many calls and passes overlap, whichever stale entities they save
\* and wherever the server dies, the services keep the contract: a payment is
\* handed over once, with an order, and for a booking that is free; afterwards
\* it is confirmed, failed, expired, reviewed, voided, refunded and paid back
\* only on the grounds that PaymentContract states.
THEOREM ServicesKeepContract == Spec => ImplementsContract
<1>1. Init => Contract!ContractInit
  <2>1. Init => Handover = {}
    BY DEF Init, IdleCall, Handover, HandingOver
  <2> QED
    BY <2>1 DEF Init, NoRow, NewRow, Contract!ContractInit, Handover
<1>2. /\ TypeInv /\ RefundInv /\ VerdictInv /\ OrderInv /\ ReferenceInv
      /\ CallsTimely /\ ContractInv /\ PaidBackOnlyWhatIsBooked' /\ [Next]_vars
      => [Contract!ContractNext]_Contract!contractVars
  BY ContractStep
<1> QED
  BY <1>1, <1>2, TypeInvAlways, RefundInvAlways, VerdictInvAlways,
     ReferenceInvAlways, CallsTimelyAlways, ContractInvAlways,
     NeverPaidBackUnbooked, PTL DEF Spec, ImplementsContract, Contract!ContractSpec
==============================================================================
