---------------------------- MODULE VerdictProofs ----------------------------
(***************************************************************************)
(* A booking has at most one payment in progress; no payment is paid,      *)
(* failed or tagged as declined unless the provider or an administrator    *)
(* said so, and the audit trail repeats what the provider said: proved for *)
(* every instance, with stale entities, overlapping passes and crashes.    *)
(*                                                                         *)
(* The first rests on the partial unique index.  INSERT and save() are the *)
(* only statements that can make a payment open, and both are refused      *)
(* while another payment of the booking is open; the other statements      *)
(* leave the status alone or close the payment.                            *)
(*                                                                         *)
(* The second follows a verdict through the system.  The provider settles  *)
(* a charge once, since a payment gets one order; an answer in flight is   *)
(* the verdict; an entity that waits to be saved is as well founded as the *)
(* row it was made from; so is every mixture of the two that save() writes.*)
(***************************************************************************)
EXTENDS RefundsProofs, FiniteSetTheorems

(***************************************************************************)
(* One open payment.                                                       *)
(***************************************************************************)

\* One row is written: it is closed, as open as it was, or passes the index.
OneRowWritten(p, row) ==
  /\ payments' = [payments EXCEPT ![p] = row]
  /\ \/ row.status \notin OpenStatuses
     \/ row.status = payments[p].status /\ row.req = payments[p].req
     \/ ~BookingTaken(p, row)

\* Such a write keeps the index.
LEMMA WriteKeepsIndex ==
  ASSUME TypeInv, OneOpenPaymentPerBooking,
         NEW p \in Payments, NEW row, OneRowWritten(p, row)
  PROVE  OneOpenPaymentPerBooking'
<1>1. /\ payments'[p] = row
      /\ \A q \in Payments : q # p => payments'[q] = payments[q]
  BY DEF OneRowWritten, TypeInv, TypeOK
<1>2. ASSUME NEW q \in Payments, q # p, payments[q].status \in OpenStatuses,
             row.status \in OpenStatuses
      PROVE  payments[q].req.booking # row.req.booking
  <2>1. CASE row.status = payments[p].status /\ row.req = payments[p].req
    BY <1>2, <2>1 DEF OneOpenPaymentPerBooking, Open
  <2>2. CASE ~BookingTaken(p, row)
    BY <1>2, <2>2 DEF BookingTaken
  <2> QED
    BY <1>2, <2>1, <2>2 DEF OneRowWritten
<1> QED
  BY <1>1, <1>2 DEF OneOpenPaymentPerBooking, Open

\* The INSERT of initiate() passes the index.
LEMMA InsertWritesOneRow ==
  ASSUME TypeInv, NEW c \in Calls, InsertPayment(c), payments' # payments
  PROVE  \E p \in Payments : \E row : OneRowWritten(p, row)
<1>1. calls[c].pay \in Payments
  BY CallType DEF InsertPayment, Suspended, Working, Labels
<1> QED
  BY <1>1 DEF InsertPayment, OneRowWritten

\* So does the UPDATE of a save(), however old its entity is.
LEMMA SaveWritesOneRow ==
  ASSUME TypeInv, NEW c \in Calls, SaveUpdate(c), payments' # payments
  PROVE  \E p \in Payments : \E row : OneRowWritten(p, row)
<1>1. calls[c].pay \in Payments
  BY CallType DEF SaveUpdate, Suspended, Working, Labels
<1> QED
  BY <1>1 DEF SaveUpdate, OneRowWritten

\* Reconciliation's bookkeeping leaves status and booking alone.
LEMMA Bookkeeping ==
  ASSUME TypeInv, NEW c \in Calls, AfterApply(c) \/ RecordAttempt(c)
  PROVE  /\ calls[c].pay \in Payments
         /\ \E row : /\ payments' = [payments EXCEPT ![calls[c].pay] = row]
                     /\ row.status = payments[calls[c].pay].status
                     /\ row.req = payments[calls[c].pay].req
<1> DEFINE p == calls[c].pay
           reason == IF DeclinedBy(calls[c]) THEN "DECLINED" ELSE payments[p].reason
           tagged == [payments[p] EXCEPT !.attempts = NextAttempts(calls[c].given),
                                         !.last = calls[c].time, !.reason = reason]
           counted == [payments[p] EXCEPT !.attempts = NextAttempts(calls[c].given),
                                          !.last = calls[c].time]
<1>1. p \in Payments /\ payments[p] \in Row
  BY CallType, PaymentType
     DEF AfterApply, RecordAttempt, Suspended, Working, Labels
<1>2. /\ tagged.status = payments[p].status /\ tagged.req = payments[p].req
      /\ counted.status = payments[p].status /\ counted.req = payments[p].req
  BY <1>1 DEF Row
<1>3. \/ payments' = [payments EXCEPT ![p] = tagged]
      \/ payments' = [payments EXCEPT ![p] = counted]
  BY <1>1 DEF AfterApply, RecordAttempt, TypeInv, TypeOK
<1> HIDE DEF p, tagged, counted
<1> QED
  BY <1>1, <1>2, <1>3 DEF p

\* So it passes the index.
LEMMA BookkeepingWritesOneRow ==
  ASSUME TypeInv, NEW c \in Calls, AfterApply(c) \/ RecordAttempt(c)
  PROVE  \E p \in Payments : \E row : OneRowWritten(p, row)
BY Bookkeeping DEF OneRowWritten

\* A refund leaves its payment closed.
LEMMA RefundWritesOneRow ==
  ASSUME TypeInv, NEW c \in Calls, RefundCommit(c)
  PROVE  \E p \in Payments : \E row : OneRowWritten(p, row)
<1> DEFINE p == calls[c].pay
           row == [payments[p] EXCEPT !.status = RefundedStatus(calls[c])]
<1>1. p \in Payments /\ payments[p] \in Row
  BY CallType, PaymentType DEF RefundCommit, Suspended, Working, Labels
<1>2. row.status \notin OpenStatuses
  BY <1>1 DEF Row, RefundedStatus, OpenStatuses
<1>3. payments' = [payments EXCEPT ![p] = row]
  BY DEF RefundCommit
<1> HIDE DEF p, row
<1> QED
  BY <1>1, <1>2, <1>3 DEF OneRowWritten

\* Nothing else writes the payments table.
LEMMA PaymentWriters ==
  ASSUME Next, payments' # payments
  PROVE  \E c \in Calls : \/ InsertPayment(c) \/ SaveUpdate(c) \/ AfterApply(c)
                          \/ RecordAttempt(c) \/ RefundCommit(c)
<1>1. ~ProviderSettle /\ ~Tick /\ ~Restart
  BY DEF ProviderSettle, Tick, Restart
<1>2. ASSUME NEW c \in Calls, Initiate(c)
      PROVE  InsertPayment(c)
  BY <1>2 DEF Initiate, InitiateStart, CheckBooking, ReadWinner, RailInitiate
<1>3. ASSUME NEW c \in Calls
      PROVE  ~Confirm(c) /\ ~SaveSelect(c) /\ ~Reply(c)
  BY DEF Confirm, WebhookReceive, RejectWebhook, VerifyReturnStart, VerifyAnswer,
         Apply, LogNoOp, LogApplied, SaveSelect, Reply
<1>4. ASSUME NEW c \in Calls
      PROVE  ~ReconciliationPass(c) /\ ~Administer(c) /\ ~Escalate(c)
  BY DEF ReconciliationPass, CronStart, SweepOne, FindAwaiting, PollOne, PassEnd,
         Administer, ForceReconcile, ResolveManually, VoidPayment, Escalate
<1>5. ASSUME NEW c \in Calls, Refund(c)
      PROVE  RefundCommit(c)
  BY <1>5 DEF Refund, RefundLock, RefundSum, RefundProvider
<1> QED
  BY <1>1, <1>2, <1>3, <1>4, <1>5
     DEF Next, HttpStep, CronStep, Confirm, Reconcile, Save, Calls

\* However many initiate() calls, stale saves and expiries overlap, a booking
\* has at most one payment that is INITIATED or AWAITING_CONFIRMATION.
THEOREM OneOpenPayment == Spec => []OneOpenPaymentPerBooking
<1>1. Init => OneOpenPaymentPerBooking
  BY DEF Init, OneOpenPaymentPerBooking, Open, NoRow, NewRow, OpenStatuses
<1>2. TypeInv /\ OneOpenPaymentPerBooking /\ [Next]_vars
        => OneOpenPaymentPerBooking'
  <2> SUFFICES ASSUME TypeInv, OneOpenPaymentPerBooking, [Next]_vars
               PROVE  OneOpenPaymentPerBooking'
    OBVIOUS
  <2>1. CASE payments' = payments
    BY <2>1 DEF OneOpenPaymentPerBooking, Open
  <2>2. CASE payments' # payments
    <3>1. PICK p \in Payments : \E row : OneRowWritten(p, row)
      BY <2>2, PaymentWriters, InsertWritesOneRow, SaveWritesOneRow,
         BookkeepingWritesOneRow, RefundWritesOneRow DEF vars
    <3> QED
      BY <3>1, WriteKeepsIndex
  <2> QED
    BY <2>1, <2>2
<1> QED
  BY <1>1, <1>2, TypeInvAlways, PTL DEF Spec

(***************************************************************************)
(* No payment disappears.                                                  *)
(***************************************************************************)

\* No statement removes a payment, or makes it one that was never there.
LEMMA RowsStay ==
  ASSUME TypeInv, RefundInv, [Next]_vars, NEW p \in Payments, Exists(p)
  PROVE  Exists(p)'
<1> SUFFICES ASSUME payments' # payments
             PROVE  Exists(p)'
  BY DEF Exists
<1>1. PICK c \in Calls : \/ InsertPayment(c) \/ SaveUpdate(c) \/ AfterApply(c)
                        \/ RecordAttempt(c) \/ RefundCommit(c)
  BY PaymentWriters DEF vars
<1> DEFINE q == calls[c].pay
<1>2. q \in Payments /\ payments[q] \in Row
  BY <1>1, CallType, PaymentType
     DEF InsertPayment, SaveUpdate, AfterApply, RecordAttempt, RefundCommit,
         Suspended, Working, Labels
<1>3. \A r \in Payments : r # q => payments'[r] = payments[r]
  BY <1>1 DEF InsertPayment, SaveUpdate, AfterApply, RecordAttempt, RefundCommit,
              TypeInv, TypeOK
<1>4. CASE InsertPayment(c)
  BY <1>2, <1>3, <1>4 DEF InsertPayment, NewRow, Exists, TypeInv, TypeOK
<1>5. CASE SaveUpdate(c)
  <2>1. /\ calls[c].snap \in Row /\ calls[c].dirty \in SUBSET Columns
        /\ calls[c].snap.status # "ABSENT"
    BY <1>5, CallType DEF SaveUpdate, Suspended, RefundInv, SavesKeepRows
  <2>2. payments'[q] = Written(payments[q], calls[c].snap, calls[c].dirty)
    BY <1>2, <1>5 DEF SaveUpdate, TypeInv, TypeOK
  <2>3. payments[q].status # "ABSENT" => payments'[q].status # "ABSENT"
    <3> HIDE DEF q
    <3> QED
      BY <1>2, <2>1, <2>2, WrittenType
  <2> QED
    BY <1>2, <1>3, <2>3 DEF Exists
<1>6. CASE AfterApply(c) \/ RecordAttempt(c)
  <2>1. payments'[q].status = payments[q].status
    BY <1>2, <1>6, Bookkeeping DEF TypeInv, TypeOK
  <2> QED
    BY <1>2, <1>3, <2>1 DEF Exists
<1>7. CASE RefundCommit(c)
  <2>1. payments'[q].status \in {"REFUNDED", "PARTIALLY_REFUNDED"}
    BY <1>2, <1>7 DEF RefundCommit, RefundedStatus, TypeInv, TypeOK, Row
  <2> QED
    BY <1>2, <1>3, <2>1 DEF Exists
<1> QED
  BY <1>1, <1>4, <1>5, <1>6, <1>7

(***************************************************************************)
(* The invariant.                                                          *)
(***************************************************************************)

\* A call creates an order for a row that it alone has inserted.
OrderInv ==
  /\ \A p \in Payments : ~Exists(p) => charge[p] = "none"
  /\ \A c \in Calls : calls[c].at = "rail_initiate" =>
       Exists(calls[c].pay) /\ charge[calls[c].pay] = "none"
  /\ \A c, d \in Calls :
       /\ calls[c].at = "rail_initiate"
       /\ calls[d].at = "rail_initiate"
       /\ calls[c].pay = calls[d].pay
       => c = d

\* Payments of which somebody entitled has said that they are paid, or failed.
Charged == {p \in Payments : charge[p] = "confirmed" \/ <<p, "CONFIRMED">> \in decisions}
Declined == {p \in Payments : charge[p] = "failed" \/ <<p, "FAILED">> \in decisions}

\* What a row, or an entity, says of its payment has been said.
Backed(row, charged, declined) ==
  /\ row.status \in PaidStatuses => charged
  /\ row.status = "FAILED" \/ row.reason = "DECLINED" => declined

\* Where a call still has a use for its entity.
SnapLabels ==
  {"rail_initiate", "save", "flush", "log", "log_applied", "after_apply",
   "refund_sum", "refund_commit"}

\* apply() has made this entity of the provider's verdict.
Reported(call) ==
  \/ call.at = "log_applied"
  \/ /\ call.at \in {"save", "flush"}
     /\ call.op \notin {"initiate", "resolve", "void"}
     /\ call.snap.status \in {"CONFIRMED", "FAILED"}

VerdictOf(status) == IF status = "CONFIRMED" THEN "confirmed" ELSE "failed"

Honest(call, charged, declined, verdict) ==
  /\ call.at \in SnapLabels =>
       Backed(call.snap, call.pay \in charged, call.pay \in declined)
  /\ call.at = "apply" => \/ call.arg = "pending"
                          \/ call.arg \in Verdicts /\ verdict[call.pay] = call.arg
  /\ Reported(call) => verdict[call.pay] = VerdictOf(call.snap.status)

RowsBacked ==
  \A p \in Payments : Backed(payments[p], p \in Charged, p \in Declined)

CallsHonest == \A c \in Calls : Honest(calls[c], Charged, Declined, charge)

EventsTrue ==
  \A e \in events : e.applied =>
    e.pay \in Payments /\ charge[e.pay] = VerdictOf(e.status)

VerdictInv == RowsBacked /\ CallsHonest /\ EventsTrue

(***************************************************************************)
(* Where calls go on to.                                                   *)
(***************************************************************************)

\* A call that has no use for an entity or an answer says nothing.
LEMMA SilentCalls ==
  ASSUME NEW call, call.at \notin SnapLabels \cup {"apply"},
         NEW charged, NEW declined, NEW verdict
  PROVE  call.at # "rail_initiate" /\ Honest(call, charged, declined, verdict)
BY DEF Honest, SnapLabels, Reported

\* A call that keeps its payment and entity goes on as honestly as it was.
LEMMA SameEntity ==
  ASSUME NEW call, NEW next, NEW charged, NEW declined, NEW verdict,
         Honest(call, charged, declined, verdict), call.at \in SnapLabels,
         next.pay = call.pay, next.snap = call.snap,
         next.at # "apply", ~Reported(next)
  PROVE  Honest(next, charged, declined, verdict)
BY DEF Honest

\* The helpers that end or continue a call keep it silent or honest.
LEMMA HelpersAreSilent ==
  ASSUME NEW call \in Call, NEW charged, NEW declined, NEW verdict
  PROVE  /\ \A result : /\ Done(call, result).at # "rail_initiate"
                        /\ Honest(Done(call, result), charged, declined, verdict)
         /\ Thrown(call).at # "rail_initiate"
         /\ Honest(Thrown(call), charged, declined, verdict)
         /\ AfterItem(call).at # "rail_initiate"
         /\ Honest(AfterItem(call), charged, declined, verdict)
<1>1. ASSUME NEW result
      PROVE  /\ Done(call, result).at # "rail_initiate"
             /\ Honest(Done(call, result), charged, declined, verdict)
  BY DoneAt, SilentCalls DEF SnapLabels
<1>2. /\ Thrown(call).at # "rail_initiate"
      /\ Honest(Thrown(call), charged, declined, verdict)
  BY WhereCallsGo, SilentCalls DEF SnapLabels
<1>3. /\ AfterItem(call).at # "rail_initiate"
      /\ Honest(AfterItem(call), charged, declined, verdict)
  BY WhereCallsGo, SilentCalls DEF SnapLabels
<1> QED
  BY <1>1, <1>2, <1>3

\* The call goes on to an await other than the rail's, and honestly.
GoesOn(c) ==
  \E call : /\ GoTo(c, call)
            /\ call.at # "rail_initiate"
            /\ Honest(call, Charged, Declined, charge)

\* A step of initiate() other than a successful INSERT.
LEMMA InitiateGoesOn ==
  ASSUME TypeInv, VerdictInv, NEW c \in Calls,
         \/ InitiateStart(c) \/ CheckBooking(c) \/ ReadWinner(c) \/ RailInitiate(c)
         \/ InsertPayment(c) /\ UNCHANGED payments
  PROVE  GoesOn(c)
<1>0. calls[c] \in Call /\ calls[c].snap \in Row
  BY CallType
<1>1. CASE InitiateStart(c)
  <2>1. PICK req \in Requests :
          LET p == req.key
              call == [NewCall("initiate", p) EXCEPT !.given = NewRow(req, now)]
          IN GoTo(c, IF ~Exists(p) THEN At(call, "check_booking")
                     ELSE IF SamePayload(payments[p], req)
                          THEN Done([call EXCEPT !.snap = payments[p]], "ok")
                          ELSE Done(call, "conflict"))
    BY <1>1 DEF InitiateStart
  <2> DEFINE first == [NewCall("initiate", req.key) EXCEPT !.given = NewRow(req, now)]
             next == IF ~Exists(req.key) THEN At(first, "check_booking")
                     ELSE IF SamePayload(payments[req.key], req)
                          THEN Done([first EXCEPT !.snap = payments[req.key]], "ok")
                          ELSE Done(first, "conflict")
  <2>2. GoTo(c, next)
    BY <2>1
  <2>3. At(first, "check_booking").at = "check_booking"
    BY DEF At, NewCall, IdleCall
  <2>4. next.at \in {"check_booking", "done"}
    BY <2>3, DoneAt
  <2> HIDE DEF next
  <2> QED
    BY <2>2, <2>4, SilentCalls DEF GoesOn, SnapLabels
<1>2. CASE CheckBooking(c)
  <2>1. At(calls[c], "insert").at = "insert"
    BY <1>0, WhereCallsGo
  <2>2. GoTo(c, Done(calls[c], "conflict")) \/ GoTo(c, At(calls[c], "insert"))
    BY <1>2 DEF CheckBooking
  <2> QED
    BY <2>1, <2>2, DoneAt, SilentCalls DEF GoesOn, SnapLabels
<1>3. CASE ReadWinner(c)
  BY <1>3, DoneAt, SilentCalls DEF GoesOn, SnapLabels, ReadWinner
<1>4. CASE RailInitiate(c)
  <2> DEFINE row == AwaitingConfirmation(calls[c].snap)
             next == [calls[c] EXCEPT !.at = "save", !.snap = row]
  <2>1. row.status = "AWAITING_CONFIRMATION" /\ row.reason = calls[c].snap.reason
    BY <1>0 DEF AwaitingConfirmation, Row
  <2>2. /\ next.at = "save" /\ next.snap = row
        /\ next.pay = calls[c].pay /\ next.op = calls[c].op
    BY <1>0 DEF Call
  <2>3. Backed(calls[c].snap, calls[c].pay \in Charged, calls[c].pay \in Declined)
    BY <1>4 DEF VerdictInv, CallsHonest, Honest, RailInitiate, Suspended, SnapLabels
  <2>4. Backed(row, next.pay \in Charged, next.pay \in Declined)
    BY <2>1, <2>2, <2>3 DEF Backed, PaidStatuses
  <2>5. GoTo(c, next) \/ GoTo(c, Done(calls[c], "error"))
    BY <1>4 DEF RailInitiate
  <2> HIDE DEF next, row
  <2>6. Honest(next, Charged, Declined, charge)
    BY <2>1, <2>2, <2>4 DEF Honest, Reported
  <2> QED
    BY <1>0, <2>2, <2>5, <2>6, HelpersAreSilent DEF GoesOn
<1>5. CASE InsertPayment(c) /\ UNCHANGED payments
  <2>1. CASE GoTo(c, [calls[c] EXCEPT !.at = "rail_initiate",
                                      !.snap = NewRow(calls[c].given.req, now)])
             /\ ~KeyTaken(calls[c].pay)
             /\ payments' = [payments EXCEPT ![calls[c].pay] =
                               NewRow(calls[c].given.req, now)]
    <3>1. calls[c].pay \in Payments
      BY <1>5, CallType DEF InsertPayment, Suspended, Working, Labels
    <3>2. payments'[calls[c].pay].status = "INITIATED"
      BY <2>1, <3>1 DEF NewRow, TypeInv, TypeOK
    <3> QED
      BY <1>5, <2>1, <3>1, <3>2 DEF KeyTaken, Exists
  <2>2. CASE \/ GoTo(c, At(calls[c], "read_winner"))
             \/ GoTo(c, Done(calls[c], "conflict"))
    <3>1. At(calls[c], "read_winner").at = "read_winner"
      BY <1>0, WhereCallsGo
    <3> QED
      BY <2>2, <3>1, DoneAt, SilentCalls DEF GoesOn, SnapLabels
  <2> QED
    BY <1>5, <2>1, <2>2 DEF InsertPayment
<1> QED
  BY <1>1, <1>2, <1>3, <1>4, <1>5

\* A step of a webhook, of a poll's answer or of apply(): what the provider
\* answers is its verdict, and apply() makes the entity of that.
LEMMA ConfirmGoesOn ==
  ASSUME TypeInv, VerdictInv, NEW c \in Calls, Confirm(c)
  PROVE  GoesOn(c)
<1> DEFINE call == calls[c]
<1>0. call \in Call
  BY CallType
<1>1. CASE WebhookReceive(c)
  <2>1. PICK p \in Payments : \E outcome \in Answers(p) :
          GoTo(c, [NewCall("webhook", p) EXCEPT !.at = "apply", !.arg = outcome])
    BY <1>1 DEF WebhookReceive
  <2>2. PICK outcome \in Answers(p) :
          GoTo(c, [NewCall("webhook", p) EXCEPT !.at = "apply", !.arg = outcome])
    BY <2>1
  <2> DEFINE next == [NewCall("webhook", p) EXCEPT !.at = "apply", !.arg = outcome]
  <2>3. next.at = "apply" /\ next.arg = outcome /\ next.pay = p
    BY DEF NewCall, IdleCall
  <2>4. outcome = "pending" \/ (outcome \in Verdicts /\ charge[p] = outcome)
    BY <2>2 DEF Answers, Verdicts
  <2> HIDE DEF next
  <2>5. Honest(next, Charged, Declined, charge)
    BY <2>3, <2>4 DEF Honest, SnapLabels, Reported
  <2> QED
    BY <2>2, <2>3, <2>5 DEF GoesOn, next
<1>2. CASE RejectWebhook(c)
  <2>1. GoTo(c, call)
    BY <1>2 DEF RejectWebhook, GoTo, TypeInv, TypeOK
  <2>2. call.at = "idle"
    BY <1>2 DEF RejectWebhook, Start, Suspended
  <2> QED
    BY <2>1, <2>2, SilentCalls DEF GoesOn, SnapLabels
<1>3. CASE VerifyReturnStart(c)
  <2>1. PICK p \in Payments :
          LET first == [NewCall("verify_return", p) EXCEPT !.given = payments[p]]
          IN GoTo(c, IF \/ payments[p].status \in TerminalStatuses
                        \/ ~payments[p].ref
                     THEN Done(first, "ok") ELSE At(first, "verify"))
    BY <1>3 DEF VerifyReturnStart
  <2> DEFINE first == [NewCall("verify_return", p) EXCEPT !.given = payments[p]]
  <2>2. At(first, "verify").at = "verify" /\ Done(first, "ok").at = "done"
    BY DoneAt DEF At, NewCall, IdleCall
  <2>3. GoTo(c, At(first, "verify")) \/ GoTo(c, Done(first, "ok"))
    BY <2>1
  <2> HIDE DEF first
  <2> QED
    BY <2>2, <2>3, SilentCalls DEF GoesOn, SnapLabels
<1>4. CASE VerifyAnswer(c)
  <2> DEFINE asked(answer) == [call EXCEPT !.at = "apply", !.arg = answer]
             counted(answer) == [call EXCEPT !.at = "record", !.arg = answer]
  <2>1. PICK answer \in Answers(call.pay) \cup {"error"} :
          GoTo(c, IF IsVerdict(answer) THEN asked(answer)
                  ELSE IF call.op = "verify_return" THEN Done(call, answer)
                  ELSE counted(answer))
    BY <1>4 DEF VerifyAnswer
  <2>2. /\ asked(answer).at = "apply" /\ asked(answer).arg = answer
        /\ asked(answer).pay = call.pay
        /\ counted(answer).at = "record"
    BY <1>0 DEF Call
  <2>3. \/ answer \in {"pending", "error"}
        \/ answer \in Verdicts /\ charge[call.pay] = answer
    BY DEF Answers, Verdicts
  <2>4. \/ IsVerdict(answer) /\ GoTo(c, asked(answer))
        \/ GoTo(c, Done(call, answer)) \/ GoTo(c, counted(answer))
    BY <2>1
  <2> HIDE DEF asked, counted
  <2>5. /\ IsVerdict(answer) => Honest(asked(answer), Charged, Declined, charge)
        /\ Honest(counted(answer), Charged, Declined, charge)
    BY <2>2, <2>3 DEF Honest, SnapLabels, Reported, IsVerdict, Verdicts
  <2> QED
    BY <2>2, <2>4, <2>5, DoneAt, SilentCalls DEF GoesOn, SnapLabels
<1>5. CASE Apply(c)
  <2> DEFINE row == payments[call.pay]
             next == Implied(call.arg)
             entity == [row EXCEPT !.status = next]
             lost == [call EXCEPT !.at = "log", !.snap = NoRow]
             noop == [call EXCEPT !.at = "log", !.snap = row]
             moves == [call EXCEPT !.at = "save", !.snap = entity]
  <2>1. call.pay \in Payments /\ row \in Row /\ call.arg \in Args
    BY <1>5, CallType, PaymentType DEF Apply, Suspended, Working, Labels
  <2>2. Backed(row, call.pay \in Charged, call.pay \in Declined)
    BY <2>1 DEF VerdictInv, RowsBacked
  <2>3. \/ GoTo(c, lost) \/ GoTo(c, noop) \/ GoTo(c, Thrown(call))
        \/ /\ GoTo(c, moves)
           /\ ~ChangesNothing(row, call.arg)
           /\ CanTransition(row.status, next)
    BY <1>5 DEF Apply
  <2>4. /\ lost.at = "log" /\ lost.snap = NoRow
        /\ noop.at = "log" /\ noop.snap = row /\ noop.pay = call.pay
        /\ moves.at = "save" /\ moves.snap = entity /\ moves.pay = call.pay
    BY <1>0 DEF Call
  <2>5. entity.status = next /\ entity.reason = row.reason
    BY <2>1 DEF Row
  <2>6. NoRow.status = "ABSENT" /\ NoRow.reason = "none"
    BY DEF NoRow, NewRow
  <2>7. \/ call.arg = "pending"
        \/ call.arg \in Verdicts /\ charge[call.pay] = call.arg
    BY <1>5 DEF VerdictInv, CallsHonest, Honest, Apply, Suspended
  <2>8. ASSUME ~ChangesNothing(row, call.arg), CanTransition(row.status, next)
        PROVE  Honest(moves, Charged, Declined, charge)
    <3> HIDE DEF entity, moves, row, call
    <3>1. next \in {"CONFIRMED", "FAILED"} /\ (next = "CONFIRMED" <=> call.arg = "confirmed")
      BY DEF Implied
    <3>2. call.arg \in Verdicts
      BY <2>7, <2>8 DEF ChangesNothing
    <3>3. charge[call.pay] = VerdictOf(next)
      BY <2>7, <3>1, <3>2 DEF VerdictOf, Verdicts
    <3>4. next = "CONFIRMED" => call.pay \in Charged
      BY <2>1, <3>3 DEF VerdictOf, Charged
    <3>5. next = "FAILED" => call.pay \in Declined
      BY <2>1, <3>3 DEF VerdictOf, Declined
    <3> QED
      BY <2>2, <2>4, <2>5, <3>1, <3>3, <3>4, <3>5 DEF Honest, Backed, PaidStatuses
  <2> HIDE DEF entity, moves, row, next, lost, noop
  <2>9. /\ Honest(lost, Charged, Declined, charge)
        /\ Honest(noop, Charged, Declined, charge)
    BY <2>2, <2>4, <2>6 DEF Honest, Backed, PaidStatuses, Reported
  <2> QED
    BY <1>0, <2>3, <2>4, <2>8, <2>9, HelpersAreSilent DEF GoesOn
<1>6. CASE LogNoOp(c) \/ LogApplied(c)
  <2>1. call.at \in SnapLabels /\ Honest(call, Charged, Declined, charge)
    BY <1>6 DEF LogNoOp, LogApplied, Suspended, SnapLabels, VerdictInv, CallsHonest
  <2>2. GoTo(c, Applied(call))
    BY <1>6 DEF LogNoOp, LogApplied
  <2>3. CASE Applied(call) = Done(call, call.arg)
    BY <1>0, <2>2, <2>3, HelpersAreSilent DEF GoesOn
  <2>4. CASE Applied(call) = At(call, "after_apply")
    <3>1. /\ At(call, "after_apply").at = "after_apply"
          /\ At(call, "after_apply").snap = call.snap
          /\ At(call, "after_apply").pay = call.pay
      BY <1>0 DEF At, Call
    <3>2. Honest(At(call, "after_apply"), Charged, Declined, charge)
      BY <2>1, <3>1, SameEntity DEF Reported
    <3> QED
      BY <2>2, <2>4, <3>1, <3>2 DEF GoesOn
  <2> QED
    BY <2>3, <2>4 DEF Applied
<1> QED
  BY <1>1, <1>2, <1>3, <1>4, <1>5, <1>6 DEF Confirm

\* A step of a scheduled pass: a sweep only ever expires.
LEMMA PassGoesOn ==
  ASSUME TypeInv, NEW c \in Calls, ReconciliationPass(c)
  PROVE  GoesOn(c)
<1> DEFINE call == calls[c]
<1>0. call \in Call /\ call.batch \in SUBSET (Payments \X Row)
  BY CallType
<1>1. CASE CronStart(c)
  <2> DEFINE next == [NewCall("cron", None) EXCEPT
                !.at = "sweep", !.time = now,
                !.batch = Snapshots({p \in Payments : IsExpired(payments[p])})]
  <2>1. next.at = "sweep" /\ GoTo(c, next)
    BY <1>1 DEF NewCall, IdleCall, CronStart
  <2> HIDE DEF next
  <2> QED
    BY <2>1, SilentCalls DEF GoesOn, SnapLabels
<1>2. CASE SweepOne(c)
  <2>1. PICK item \in call.batch :
          GoTo(c, [call EXCEPT !.at = "save", !.pay = item[1],
                               !.snap = Expired(item[2]), !.batch = @ \ {item}])
    BY <1>2 DEF SweepOne
  <2> DEFINE row == Expired(item[2])
             next == [call EXCEPT !.at = "save", !.pay = item[1],
                                  !.snap = row, !.batch = @ \ {item}]
  <2>2. item[2] \in Row
    BY <1>0, <2>1
  <2>3. row.status = "EXPIRED" /\ row.reason # "DECLINED"
    BY <2>2 DEF Expired, Row
  <2>4. next.at = "save" /\ next.snap = row
    BY <1>0 DEF Call
  <2> HIDE DEF next, row
  <2>5. Honest(next, Charged, Declined, charge)
    BY <2>3, <2>4 DEF Honest, Backed, PaidStatuses, Reported
  <2> QED
    BY <2>1, <2>4, <2>5 DEF GoesOn, next, row
<1>3. CASE FindAwaiting(c)
  <2> DEFINE next(found) == [call EXCEPT !.at = "poll",
                !.batch = {item \in Snapshots(found) : IsDueForPoll(item[2], call.time)}]
  <2>1. PICK found : GoTo(c, next(found))
    BY <1>3 DEF FindAwaiting
  <2>2. next(found).at = "poll"
    BY <1>0 DEF Call
  <2> HIDE DEF next
  <2> QED
    BY <2>1, <2>2, SilentCalls DEF GoesOn, SnapLabels
<1>4. CASE PollOne(c)
  <2> DEFINE next(item) == [call EXCEPT !.at = "verify", !.pay = item[1],
                                  !.given = item[2], !.batch = @ \ {item}]
  <2>1. PICK item \in call.batch : GoTo(c, next(item))
    BY <1>4 DEF PollOne
  <2>2. next(item).at = "verify"
    BY <1>0 DEF Call
  <2> HIDE DEF next
  <2> QED
    BY <2>1, <2>2, SilentCalls DEF GoesOn, SnapLabels
<1>5. CASE PassEnd(c)
  <2>1. GoTo(c, IdleCall) /\ IdleCall.at = "idle"
    BY <1>5 DEF PassEnd, IdleCall
  <2> QED
    BY <2>1, SilentCalls DEF GoesOn, SnapLabels
<1> QED
  BY <1>1, <1>2, <1>3, <1>4, <1>5 DEF ReconciliationPass

\* A step of reconcileOne after the answer, and of forceReconcileNow and void:
\* an escalated or voided payment keeps the reason of its row.
LEMMA ReconcileGoesOn ==
  ASSUME TypeInv, VerdictInv, NEW c \in Calls,
         Reconcile(c) \/ ForceReconcile(c) \/ VoidPayment(c)
  PROVE  GoesOn(c)
<1> DEFINE call == calls[c]
<1>0. call \in Call
  BY CallType
<1>1. CASE AfterApply(c) \/ RecordAttempt(c)
  <2>1. At(call, "escalate").at = "escalate"
    BY <1>0, WhereCallsGo
  <2>2. GoTo(c, AfterItem(call)) \/ GoTo(c, At(call, "escalate"))
    BY <1>1 DEF AfterApply, RecordAttempt
  <2> QED
    BY <1>0, <2>1, <2>2, HelpersAreSilent, SilentCalls DEF GoesOn, SnapLabels
<1>2. CASE Escalate(c)
  <2> DEFINE fresh == payments[call.pay]
             row == [fresh EXCEPT !.status = "MANUAL_REVIEW"]
             next == [call EXCEPT !.at = "save", !.snap = row]
  <2>1. call.pay \in Payments /\ fresh \in Row
    BY <1>2, CallType, PaymentType DEF Escalate, Suspended, Working, Labels
  <2>2. Backed(fresh, call.pay \in Charged, call.pay \in Declined)
    BY <2>1 DEF VerdictInv, RowsBacked
  <2>3. row.status = "MANUAL_REVIEW" /\ row.reason = fresh.reason
    BY <2>1 DEF Row
  <2>4. next.at = "save" /\ next.snap = row /\ next.pay = call.pay
    BY <1>0 DEF Call
  <2>5. GoTo(c, next) \/ GoTo(c, Thrown(call))
    BY <1>2 DEF Escalate
  <2> HIDE DEF next, row, fresh
  <2>6. Honest(next, Charged, Declined, charge)
    BY <2>2, <2>3, <2>4 DEF Honest, Backed, PaidStatuses, Reported
  <2> QED
    BY <1>0, <2>4, <2>5, <2>6, HelpersAreSilent DEF GoesOn
<1>3. CASE ForceReconcile(c)
  <2> DEFINE next(p) == [NewCall("force", p) EXCEPT
                     !.at = "verify", !.given = payments[p], !.time = now]
  <2>1. PICK p \in Payments : GoTo(c, next(p))
    BY <1>3 DEF ForceReconcile
  <2>2. next(p).at = "verify"
    BY DEF NewCall, IdleCall
  <2> HIDE DEF next
  <2> QED
    BY <2>1, <2>2, SilentCalls DEF GoesOn, SnapLabels
<1>4. CASE VoidPayment(c)
  <2>1. PICK p \in Payments :
          GoTo(c, [NewCall("void", p) EXCEPT
                     !.at = "save", !.snap = [payments[p] EXCEPT !.status = "VOIDED"]])
    BY <1>4 DEF VoidPayment
  <2> DEFINE row == [payments[p] EXCEPT !.status = "VOIDED"]
             next == [NewCall("void", p) EXCEPT !.at = "save", !.snap = row]
  <2>2. row.status = "VOIDED" /\ row.reason = payments[p].reason
    BY PaymentType DEF Row
  <2>3. Backed(payments[p], p \in Charged, p \in Declined)
    BY DEF VerdictInv, RowsBacked
  <2>4. next.at = "save" /\ next.snap = row /\ next.pay = p /\ next.op = "void"
    BY DEF NewCall, IdleCall
  <2> HIDE DEF next, row
  <2>5. Honest(next, Charged, Declined, charge)
    BY <2>2, <2>3, <2>4 DEF Honest, Backed, PaidStatuses, Reported
  <2> QED
    BY <2>1, <2>4, <2>5 DEF GoesOn, next, row
<1> QED
  BY <1>1, <1>2, <1>3, <1>4 DEF Reconcile

\* resolveManually decides itself what it is going to save.
LEMMA ResolveGoesOn ==
  ASSUME TypeInv, VerdictInv, NEW c \in Calls, ResolveManually(c)
  PROVE  \E call : /\ GoTo(c, call)
                   /\ call.at # "rail_initiate"
                   /\ Honest(call, Charged', Declined', charge')
<1>1. PICK p \in Payments, resolution \in {"CONFIRMED", "FAILED"} :
        /\ GoTo(c, [NewCall("resolve", p) EXCEPT
                      !.at = "save", !.snap = Resolved(payments[p], resolution)])
        /\ decisions' = decisions \cup {<<p, resolution>>}
  BY DEF ResolveManually
<1> DEFINE row == Resolved(payments[p], resolution)
           next == [NewCall("resolve", p) EXCEPT !.at = "save", !.snap = row]
<1>2. /\ row.status = resolution
      /\ row.reason = IF resolution = "FAILED" THEN "DECLINED" ELSE payments[p].reason
  BY PaymentType DEF Resolved, Row
<1>3. Backed(payments[p], p \in Charged, p \in Declined)
  BY DEF VerdictInv, RowsBacked
<1>4. /\ resolution = "CONFIRMED" => p \in Charged'
      /\ resolution = "FAILED" => p \in Declined'
      /\ p \in Declined => p \in Declined'
  BY <1>1 DEF Charged, Declined, ResolveManually
<1>5. next.at = "save" /\ next.snap = row /\ next.pay = p /\ next.op = "resolve"
  BY DEF NewCall, IdleCall
<1> HIDE DEF next, row
<1>6. Backed(row, p \in Charged', p \in Declined')
  BY <1>2, <1>3, <1>4 DEF Backed, PaidStatuses
<1>7. Honest(next, Charged', Declined', charge')
  BY <1>5, <1>6 DEF Honest, Reported
<1> QED
  BY <1>1, <1>5, <1>7 DEF next, row

\* A step of a refund: its entity is the row it has locked.
LEMMA RefundGoesOn ==
  ASSUME TypeInv, VerdictInv, NEW c \in Calls, Refund(c)
  PROVE  GoesOn(c)
<1> DEFINE call == calls[c]
<1>0. call \in Call
  BY CallType
<1>1. CASE RefundLock(c)
  <2> DEFINE next(p, amount) == [NewCall("refund", p) EXCEPT
                  !.at = "refund_sum", !.snap = payments[p], !.amount = amount]
  <2>1. PICK p \in Payments, amount \in RefundAmounts : GoTo(c, next(p, amount))
    BY <1>1 DEF RefundLock
  <2>2. /\ next(p, amount).at = "refund_sum"
        /\ next(p, amount).snap = payments[p] /\ next(p, amount).pay = p
    BY DEF NewCall, IdleCall
  <2> HIDE DEF next
  <2>3. Honest(next(p, amount), Charged, Declined, charge)
    BY <2>2 DEF Honest, Reported, VerdictInv, RowsBacked
  <2> QED
    BY <2>1, <2>2, <2>3 DEF GoesOn
<1>2. CASE RefundSum(c)
  <2> DEFINE next == [call EXCEPT !.at = "refund_commit", !.sum = refunded[call.pay]]
  <2>1. GoTo(c, next) \/ GoTo(c, Done(call, "conflict"))
    BY <1>2 DEF RefundSum
  <2>2. next.at = "refund_commit" /\ next.snap = call.snap /\ next.pay = call.pay
    BY <1>0 DEF Call
  <2>3. call.at \in SnapLabels /\ Honest(call, Charged, Declined, charge)
    BY <1>2 DEF RefundSum, Suspended, SnapLabels, VerdictInv, CallsHonest
  <2> HIDE DEF next
  <2>4. Honest(next, Charged, Declined, charge)
    BY <2>2, <2>3, SameEntity DEF Reported
  <2> QED
    BY <1>0, <2>1, <2>2, <2>4, HelpersAreSilent DEF GoesOn
<1>3. CASE RefundCommit(c)
  <2> DEFINE next == [call EXCEPT !.at = "refund_provider", !.sum = 0]
  <2>1. GoTo(c, next) /\ next.at = "refund_provider"
    BY <1>0, <1>3 DEF RefundCommit, Call
  <2> HIDE DEF next
  <2> QED
    BY <2>1, SilentCalls DEF GoesOn, SnapLabels
<1>4. CASE RefundProvider(c)
  <2> DEFINE next == [call EXCEPT !.sum = @ + 1]
  <2>1. GoTo(c, next) \/ GoTo(c, Done(call, "ok"))
    BY <1>4 DEF RefundProvider
  <2>2. next.at = "refund_provider"
    BY <1>0, <1>4 DEF RefundProvider, Suspended, Call
  <2> HIDE DEF next
  <2> QED
    BY <1>0, <2>1, <2>2, HelpersAreSilent, SilentCalls DEF GoesOn, SnapLabels
<1> QED
  BY <1>1, <1>2, <1>3, <1>4 DEF Refund

\* A step of save(), and the answer to the client.
LEMMA SaveGoesOn ==
  ASSUME TypeInv, VerdictInv, NEW c \in Calls, Save(c) \/ Reply(c)
  PROVE  GoesOn(c)
<1> DEFINE call == calls[c]
<1>0. call \in Call
  BY CallType
<1>1. CASE Save(c)
  <2>1. /\ call.at \in {"save", "flush"}
        /\ Honest(call, Charged, Declined, charge)
    BY <1>1 DEF Save, SaveSelect, SaveUpdate, Suspended, VerdictInv, CallsHonest
  <2> DEFINE flush == [call EXCEPT !.at = "flush",
                                   !.dirty = Changed(payments[call.pay], call.snap)]
             logs == [call EXCEPT !.at = "log_applied", !.dirty = {}]
  <2>2. /\ flush.at = "flush" /\ flush.snap = call.snap /\ flush.pay = call.pay
        /\ flush.op = call.op
        /\ logs.at = "log_applied" /\ logs.snap = call.snap /\ logs.pay = call.pay
    BY <1>0 DEF Call
  <2>3. \/ GoTo(c, AfterSave(call)) \/ GoTo(c, Done(call, "conflict"))
        \/ GoTo(c, flush)
    BY <1>1 DEF Save, SaveSelect, SaveUpdate
  <2>4. \/ AfterSave(call).at \in {"done", "sweep", "poll"}
        \/ /\ AfterSave(call) = logs
           /\ call.op \notin {"initiate", "resolve", "void"}
           /\ call.snap.status \in {"CONFIRMED", "FAILED"}
    <3> HIDE DEF call, logs
    <3> QED
      BY <1>0, DoneAt, WhereCallsGo DEF AfterSave, logs
  <2> HIDE DEF flush, logs
  <2>5. Honest(flush, Charged, Declined, charge)
    BY <2>1, <2>2 DEF Honest, Reported, SnapLabels
  <2>6. Honest(AfterSave(call), Charged, Declined, charge)
    <3>1. CASE AfterSave(call).at \in {"done", "sweep", "poll"}
      BY <3>1, SilentCalls DEF SnapLabels
    <3>2. CASE /\ AfterSave(call) = logs
               /\ call.op \notin {"initiate", "resolve", "void"}
               /\ call.snap.status \in {"CONFIRMED", "FAILED"}
      BY <2>1, <2>2, <3>2 DEF Honest, Reported, SnapLabels
    <3> QED
      BY <2>4, <3>1, <3>2
  <2>7. AfterSave(call).at # "rail_initiate"
    BY <2>2, <2>4
  <2> QED
    BY <1>0, <2>2, <2>3, <2>5, <2>6, <2>7, HelpersAreSilent DEF GoesOn
<1>2. CASE Reply(c)
  <2>1. GoTo(c, IdleCall) /\ IdleCall.at = "idle"
    BY <1>2 DEF Reply, IdleCall
  <2> QED
    BY <2>1, SilentCalls DEF GoesOn, SnapLabels
<1> QED
  BY <1>1, <1>2

(***************************************************************************)
(* Orders, verdicts and decisions.                                         *)
(***************************************************************************)

\* Only the provider and a call at the rail touch a charge.
LEMMA ChargeWriters ==
  ASSUME Next, charge' # charge
  PROVE  ProviderSettle \/ \E c \in Calls : RailInitiate(c)
<1>1. ~Tick /\ ~Restart
  BY DEF Tick, Restart
<1>2. ASSUME NEW c \in Calls, Initiate(c)
      PROVE  RailInitiate(c)
  BY <1>2 DEF Initiate, InitiateStart, CheckBooking, InsertPayment, ReadWinner
<1>3. ASSUME NEW c \in Calls
      PROVE  ~Confirm(c) /\ ~Save(c) /\ ~Reply(c) /\ ~Refund(c)
  BY DEF Confirm, WebhookReceive, RejectWebhook, VerifyReturnStart, VerifyAnswer,
         Apply, LogNoOp, LogApplied, Save, SaveSelect, SaveUpdate, Reply,
         Refund, RefundLock, RefundSum, RefundCommit, RefundProvider
<1>4. ASSUME NEW c \in Calls
      PROVE  ~ReconciliationPass(c) /\ ~Reconcile(c) /\ ~Administer(c)
  BY DEF ReconciliationPass, CronStart, SweepOne, FindAwaiting, PollOne, PassEnd,
         Reconcile, AfterApply, RecordAttempt, Escalate, Administer,
         ForceReconcile, ResolveManually, VoidPayment
<1> QED
  BY <1>1, <1>2, <1>3, <1>4 DEF Next, HttpStep, CronStep, Confirm, Calls

\* Only resolveManually adds to what administrators have decided.
LEMMA DecisionWriters ==
  ASSUME Next, decisions' # decisions
  PROVE  \E c \in Calls : ResolveManually(c)
<1>1. ~ProviderSettle /\ ~Tick /\ ~Restart
  BY DEF ProviderSettle, Tick, Restart
<1>2. ASSUME NEW c \in Calls
      PROVE  ~Initiate(c) /\ ~Confirm(c) /\ ~Save(c) /\ ~Reply(c) /\ ~Refund(c)
  BY DEF Initiate, InitiateStart, CheckBooking, InsertPayment, ReadWinner,
         RailInitiate, Confirm, WebhookReceive, RejectWebhook, VerifyReturnStart,
         VerifyAnswer, Apply, LogNoOp, LogApplied, Save, SaveSelect, SaveUpdate,
         Reply, Refund, RefundLock, RefundSum, RefundCommit, RefundProvider
<1>3. ASSUME NEW c \in Calls
      PROVE  ~ReconciliationPass(c) /\ ~Reconcile(c)
  BY DEF ReconciliationPass, CronStart, SweepOne, FindAwaiting, PollOne, PassEnd,
         Reconcile, AfterApply, RecordAttempt, Escalate
<1>4. ASSUME NEW c \in Calls, Administer(c)
      PROVE  ResolveManually(c)
  BY <1>4 DEF Administer, ForceReconcile, VoidPayment
<1> QED
  BY <1>1, <1>2, <1>3, <1>4 DEF Next, HttpStep, CronStep, Confirm, Calls

\* What the provider or an administrator has said stays said.
LEMMA VerdictsStand ==
  ASSUME TypeInv, OrderInv, [Next]_vars
  PROVE  /\ \A p \in Payments : charge[p] \in Verdicts => charge'[p] = charge[p]
         /\ Charged \subseteq Charged'
         /\ Declined \subseteq Declined'
<1>1. \A p \in Payments : charge[p] \in Verdicts => charge'[p] = charge[p]
  <2>1. CASE ProviderSettle
    BY <2>1 DEF ProviderSettle, Verdicts, TypeInv, TypeOK
  <2>2. ASSUME NEW c \in Calls, RailInitiate(c)
        PROVE  \A p \in Payments : charge[p] \in Verdicts => charge'[p] = charge[p]
    <3>1. charge[calls[c].pay] = "none"
      BY <2>2 DEF OrderInv, RailInitiate, Suspended
    <3> QED
      BY <2>2, <3>1 DEF RailInitiate, Verdicts, TypeInv, TypeOK
  <2> QED
    BY <2>1, <2>2, ChargeWriters DEF vars
<1>2. decisions \subseteq decisions'
  BY DecisionWriters DEF ResolveManually, vars
<1> QED
  BY <1>1, <1>2 DEF Charged, Declined, Verdicts

\* Where the calls of a step go, but for the INSERT.
LEMMA CallsGoOn ==
  ASSUME TypeInv, VerdictInv, Next,
         ~\E c \in Calls : InsertPayment(c) /\ payments' # payments
  PROVE  \/ \E c \in Calls : GoesOn(c) \/ ResolveManually(c)
         \/ ProviderSettle \/ Tick \/ Restart
<1>1. CASE \E c \in HttpCalls : HttpStep(c)
  <2>1. PICK c \in Calls : HttpStep(c)
    BY <1>1 DEF Calls
  <2>2. CASE Initiate(c)
    BY <2>2, InitiateGoesOn DEF Initiate
  <2>3. CASE Confirm(c) \/ Refund(c) \/ Save(c) \/ Reply(c)
    BY <2>3, ConfirmGoesOn, RefundGoesOn, SaveGoesOn
  <2>4. CASE Reconcile(c) \/ Administer(c)
    BY <2>4, ReconcileGoesOn DEF Administer
  <2> QED
    BY <2>1, <2>2, <2>3, <2>4 DEF HttpStep
<1>2. CASE \E c \in CronCalls : CronStep(c)
  <2>1. PICK c \in Calls : CronStep(c)
    BY <1>2 DEF Calls
  <2>2. CASE ReconciliationPass(c)
    BY <2>2, PassGoesOn
  <2>3. CASE Confirm(c) \/ Reconcile(c) \/ Save(c)
    BY <2>3, ConfirmGoesOn, ReconcileGoesOn, SaveGoesOn
  <2> QED
    BY <2>1, <2>2, <2>3 DEF CronStep, Confirm
<1> QED
  BY <1>1, <1>2 DEF Next

\* The INSERT that succeeds takes its call to the rail.
LEMMA InsertGoesToTheRail ==
  ASSUME TypeInv, NEW c \in Calls, InsertPayment(c), payments' # payments
  PROVE  /\ calls[c].pay \in Payments
         /\ ~Exists(calls[c].pay) /\ Exists(calls[c].pay)'
         /\ calls'[c].at = "rail_initiate" /\ calls'[c].pay = calls[c].pay
         /\ calls'[c].snap.status = "INITIATED" /\ calls'[c].snap.reason = "none"
         /\ payments'[calls[c].pay] = calls'[c].snap
         /\ \A d \in Calls : d # c => calls'[d] = calls[d]
         /\ \A p \in Payments : p # calls[c].pay => payments'[p] = payments[p]
         /\ UNCHANGED <<charge, decisions, events>>
<1> DEFINE row == NewRow(calls[c].given.req, now)
           next == [calls[c] EXCEPT !.at = "rail_initiate", !.snap = row]
<1>1. calls[c] \in Call /\ calls[c].pay \in Payments
  BY CallType DEF InsertPayment, Suspended, Working, Labels
<1>2. /\ ~Exists(calls[c].pay)
      /\ payments' = [payments EXCEPT ![calls[c].pay] = row]
      /\ GoTo(c, next)
      /\ UNCHANGED <<charge, decisions, events>>
  BY DEF InsertPayment, KeyTaken
<1>3. next.at = "rail_initiate" /\ next.pay = calls[c].pay /\ next.snap = row
  BY <1>1 DEF Call
<1>4. row.status = "INITIATED" /\ row.reason = "none"
  BY DEF NewRow
<1> HIDE DEF next, row
<1> QED
  BY <1>1, <1>2, <1>3, <1>4 DEF GoTo, Exists, TypeInv, TypeOK

\* Every step keeps the orders apart.
LEMMA OrderStep ==
  TypeInv /\ RefundInv /\ VerdictInv /\ OrderInv /\ [Next]_vars => OrderInv'
<1> SUFFICES ASSUME TypeInv, RefundInv, VerdictInv, OrderInv, [Next]_vars
             PROVE  OrderInv'
  OBVIOUS
<1>0. \A p \in Payments : Exists(p) => Exists(p)'
  BY RowsStay
<1>1. CASE UNCHANGED vars
  BY <1>1 DEF OrderInv, Exists, vars
<1>2. ASSUME NEW c \in Calls, InsertPayment(c), payments' # payments
      PROVE  OrderInv'
  <2>1. \A d \in Calls : calls[d].at = "rail_initiate" => calls[d].pay \in Payments
    BY CallType DEF Working, Labels
  <2> QED
    BY <1>0, <1>2, <2>1, InsertGoesToTheRail DEF OrderInv
<1>3. CASE Next /\ ~\E c \in Calls : InsertPayment(c) /\ payments' # payments
  <2>1. \A d \in Calls : calls'[d].at = "rail_initiate" => calls'[d] = calls[d]
    <3>1. CASE \E c \in Calls : GoesOn(c) \/ ResolveManually(c)
      BY <3>1, ResolveGoesOn DEF GoesOn, GoTo, TypeInv, TypeOK
    <3>2. CASE ProviderSettle \/ Tick
      BY <3>2 DEF ProviderSettle, Tick
    <3>3. CASE Restart
      BY <3>3 DEF Restart, IdleCall
    <3> QED
      BY <1>3, <3>1, <3>2, <3>3, CallsGoOn
  <2>2. \A d \in Calls : calls'[d].at = "rail_initiate" => calls[d].pay \in Payments
    BY <2>1, CallType DEF Working, Labels
  <2>3. CASE UNCHANGED charge
    BY <1>0, <2>1, <2>2, <2>3 DEF OrderInv
  <2>4. CASE ProviderSettle
    BY <1>0, <2>1, <2>2, <2>4 DEF OrderInv, ProviderSettle, TypeInv, TypeOK
  <2>5. ASSUME NEW c \in Calls, RailInitiate(c)
        PROVE  OrderInv'
    <3>1. calls'[c].at # "rail_initiate"
      <4>1. PICK call : GoTo(c, call) /\ call.at # "rail_initiate"
        BY <2>5, InitiateGoesOn DEF GoesOn
      <4> QED
        BY <4>1 DEF GoTo, TypeInv, TypeOK
    <3>2. /\ calls[c].at = "rail_initiate" /\ Exists(calls[c].pay)
          /\ \A p \in Payments : p # calls[c].pay => charge'[p] = charge[p]
      BY <2>5 DEF RailInitiate, Suspended, OrderInv, TypeInv, TypeOK
    <3> QED
      BY <1>0, <2>1, <2>2, <3>1, <3>2 DEF OrderInv
  <2> QED
    BY <1>3, <2>3, <2>4, <2>5, ChargeWriters
<1> QED
  BY <1>1, <1>2, <1>3 DEF vars

(***************************************************************************)
(* Rows, calls and events.                                                 *)
(***************************************************************************)

\* A row that mixes two backed ones is backed.
LEMMA MixedRow ==
  ASSUME NEW row, NEW entity, NEW mixed, NEW said, NEW denied,
         Backed(row, said, denied), Backed(entity, said, denied),
         mixed.status \in {row.status, entity.status},
         mixed.reason \in {row.reason, entity.reason}
  PROVE  Backed(mixed, said, denied)
BY DEF Backed

\* The reason that a save() writes is the entity's or the row's.
LEMMA WrittenReason ==
  ASSUME NEW row \in Row, NEW entity \in Row, NEW cols \in SUBSET Columns
  PROVE  Written(row, entity, cols).reason \in {row.reason, entity.reason}
<1> DEFINE status == IF "status" \in cols THEN entity.status ELSE row.status
           ref == IF "ref" \in cols THEN entity.ref ELSE row.ref
           reason == IF "reason" \in cols THEN entity.reason ELSE row.reason
           attempts == IF "attempts" \in cols THEN entity.attempts ELSE row.attempts
           last == IF "last" \in cols THEN entity.last ELSE row.last
<1>1. Written(row, entity, cols) =
        [row EXCEPT !.status = status, !.ref = ref, !.reason = reason,
                    !.attempts = attempts, !.last = last]
  BY DEF Written
<1> HIDE DEF status, ref, reason, attempts, last
<1>2. Written(row, entity, cols).reason = reason
  BY <1>1 DEF Row
<1> QED
  BY <1>2 DEF reason

\* Whatever writes a row writes what has been said of its payment.
LEMMA RowsStep ==
  TypeInv /\ RefundInv /\ VerdictInv /\ OrderInv /\ [Next]_vars => RowsBacked'
<1> SUFFICES ASSUME TypeInv, RefundInv, VerdictInv, OrderInv, [Next]_vars
             PROVE  RowsBacked'
  OBVIOUS
<1> DEFINE Says(row, p) == Backed(row, p \in Charged, p \in Declined)
<1>0. /\ \A p \in Payments : Says(payments[p], p)
      /\ Charged \subseteq Charged' /\ Declined \subseteq Declined'
  BY VerdictsStand DEF VerdictInv, RowsBacked
<1> SUFFICES \A p \in Payments : Says(payments'[p], p)
  BY <1>0 DEF RowsBacked, Backed
<1>1. CASE UNCHANGED payments
  BY <1>0, <1>1
<1>2. CASE payments' # payments
  <2>1. PICK c \in Calls : \/ InsertPayment(c) \/ SaveUpdate(c) \/ AfterApply(c)
                          \/ RecordAttempt(c) \/ RefundCommit(c)
    BY <1>2, PaymentWriters DEF vars
  <2> DEFINE q == calls[c].pay
  <2>2. /\ q \in Payments /\ payments[q] \in Row
        /\ calls[c] \in Call /\ calls[c].snap \in Row
        /\ calls[c].dirty \in SUBSET Columns
    BY <2>1, CallType, PaymentType
       DEF InsertPayment, SaveUpdate, AfterApply, RecordAttempt, RefundCommit,
           Suspended, Working, Labels
  <2>3. \A p \in Payments : p # q => payments'[p] = payments[p]
    BY <2>1 DEF InsertPayment, SaveUpdate, AfterApply, RecordAttempt, RefundCommit,
                TypeInv, TypeOK
  <2>4. Honest(calls[c], Charged, Declined, charge)
    BY DEF VerdictInv, CallsHonest
  <2>5. CASE InsertPayment(c)
    <3>1. payments'[q].status = "INITIATED" /\ payments'[q].reason = "none"
      BY <1>2, <2>5, InsertGoesToTheRail
    <3> QED
      BY <1>0, <2>2, <2>3, <3>1 DEF Backed, PaidStatuses
  <2>6. CASE SaveUpdate(c)
    <3>1. Says(calls[c].snap, q)
      BY <2>4, <2>6 DEF Honest, SaveUpdate, Suspended, SnapLabels
    <3>2. payments'[q] = Written(payments[q], calls[c].snap, calls[c].dirty)
      BY <1>2, <2>2, <2>6 DEF SaveUpdate, TypeInv, TypeOK
    <3>3. /\ payments'[q].status \in {payments[q].status, calls[c].snap.status}
          /\ payments'[q].reason \in {payments[q].reason, calls[c].snap.reason}
      <4> HIDE DEF q
      <4> QED
        BY <2>2, <3>2, WrittenType, WrittenReason
    <3>4. Says(payments'[q], q)
      BY <1>0, <2>2, <3>1, <3>3, MixedRow
    <3> QED
      BY <1>0, <2>3, <3>4
  <2>7. CASE AfterApply(c)
    <3>1. Says(calls[c].snap, q)
      BY <2>4, <2>7 DEF Honest, AfterApply, Suspended, SnapLabels
    <3> DEFINE reason == IF DeclinedBy(calls[c]) THEN "DECLINED" ELSE payments[q].reason
               row == [payments[q] EXCEPT !.attempts = NextAttempts(calls[c].given),
                                          !.last = calls[c].time, !.reason = reason]
    <3>2. payments' = [payments EXCEPT ![q] = row]
      BY <2>2, <2>7 DEF AfterApply, TypeInv, TypeOK
    <3>3. row.status = payments[q].status /\ row.reason = reason
      BY <2>2 DEF Row
    <3> HIDE DEF row
    <3>4. Says(row, q)
      BY <1>0, <2>2, <3>1, <3>3 DEF Backed, DeclinedBy
    <3> QED
      BY <1>0, <2>2, <2>3, <3>2, <3>4 DEF TypeInv, TypeOK
  <2>8. CASE RecordAttempt(c)
    <3> DEFINE row == [payments[q] EXCEPT !.attempts = NextAttempts(calls[c].given),
                                          !.last = calls[c].time]
    <3>1. payments' = [payments EXCEPT ![q] = row]
      BY <2>2, <2>8 DEF RecordAttempt, TypeInv, TypeOK
    <3>2. row.status = payments[q].status /\ row.reason = payments[q].reason
      BY <2>2 DEF Row
    <3> HIDE DEF row
    <3>3. Says(row, q)
      BY <1>0, <2>2, <3>2 DEF Backed
    <3> QED
      BY <1>0, <2>2, <2>3, <3>1, <3>3 DEF TypeInv, TypeOK
  <2>9. CASE RefundCommit(c)
    <3> DEFINE row == [payments[q] EXCEPT !.status = RefundedStatus(calls[c])]
    <3>1. payments' = [payments EXCEPT ![q] = row]
      BY <2>9 DEF RefundCommit
    <3>2. /\ row.status \in {"REFUNDED", "PARTIALLY_REFUNDED"}
          /\ row.reason = payments[q].reason
      BY <2>2 DEF Row, RefundedStatus
    <3>3. payments[q].status \in PaidStatuses
      BY <2>9 DEF RefundInv, LockedRowIsCurrent, InTransaction, RefundCommit,
                  Suspended, RefundableStatuses, PaidStatuses
    <3> HIDE DEF row
    <3>4. Says(row, q)
      BY <1>0, <2>2, <3>2, <3>3 DEF Backed
    <3> QED
      BY <1>0, <2>2, <2>3, <3>1, <3>4 DEF TypeInv, TypeOK
  <2> QED
    BY <2>1, <2>5, <2>6, <2>7, <2>8, <2>9
<1> QED
  BY <1>1, <1>2

\* A call that is honest before a step is honest after it, if it did not move.
LEMMA HonestyStands ==
  ASSUME TypeInv, OrderInv, [Next]_vars, NEW call \in WellFormed,
         Honest(call, Charged, Declined, charge)
  PROVE  Honest(call, Charged', Declined', charge')
<1>1. call.at \in SnapLabels \cup {"apply"} => call.pay \in Payments
  BY DEF WellFormed, Working, Labels, SnapLabels, Call
<1>2. /\ \A p \in Payments : charge[p] \in Verdicts => charge'[p] = charge[p]
      /\ call.pay \in Charged => call.pay \in Charged'
      /\ call.pay \in Declined => call.pay \in Declined'
  BY VerdictsStand
<1>3. call.at \in SnapLabels =>
        Backed(call.snap, call.pay \in Charged', call.pay \in Declined')
  BY <1>2 DEF Honest, Backed
<1>4. Reported(call) => charge'[call.pay] = VerdictOf(call.snap.status)
  BY <1>1, <1>2 DEF Honest, Reported, SnapLabels, VerdictOf, Verdicts
<1>5. call.at = "apply" => \/ call.arg = "pending"
                           \/ call.arg \in Verdicts /\ charge'[call.pay] = call.arg
  BY <1>1, <1>2 DEF Honest
<1> QED
  BY <1>3, <1>4, <1>5 DEF Honest

\* Every step leaves every call honest.
LEMMA CallsStep ==
  TypeInv /\ VerdictInv /\ OrderInv /\ [Next]_vars => CallsHonest'
<1> SUFFICES ASSUME TypeInv, VerdictInv, OrderInv, [Next]_vars
             PROVE  CallsHonest'
  OBVIOUS
<1> DEFINE HonestNow(call) == Honest(call, Charged', Declined', charge')
<1>0. TypeInv'
  BY TypeStep
<1>1. \A d \in Calls : HonestNow(calls[d])
  BY CallType, HonestyStands DEF VerdictInv, CallsHonest
<1> SUFFICES \A d \in Calls : HonestNow(calls'[d])
  BY DEF CallsHonest
<1>2. CASE UNCHANGED calls
  BY <1>1, <1>2
<1>3. ASSUME NEW c \in Calls, InsertPayment(c), payments' # payments
      PROVE  \A d \in Calls : HonestNow(calls'[d])
  <2>1. HonestNow(calls'[c])
    BY <1>3, InsertGoesToTheRail DEF Honest, Backed, PaidStatuses, Reported
  <2> QED
    BY <1>1, <1>3, <2>1, InsertGoesToTheRail
<1>4. ASSUME NEW c \in Calls, GoesOn(c)
      PROVE  \A d \in Calls : HonestNow(calls'[d])
  <2>1. PICK call : GoTo(c, call) /\ Honest(call, Charged, Declined, charge)
    BY <1>4 DEF GoesOn
  <2>2. /\ calls'[c] = call
        /\ \A d \in Calls : d # c => calls'[d] = calls[d]
    BY <2>1 DEF GoTo, TypeInv, TypeOK
  <2>3. call \in WellFormed
    BY <1>0, <2>2 DEF TypeInv, WellFormed, Call
  <2>4. HonestNow(call)
    BY <2>1, <2>3, HonestyStands
  <2> QED
    BY <1>1, <2>2, <2>4
<1>5. ASSUME NEW c \in Calls, ResolveManually(c)
      PROVE  \A d \in Calls : HonestNow(calls'[d])
  <2>1. PICK call : GoTo(c, call) /\ HonestNow(call)
    BY <1>5, ResolveGoesOn
  <2> QED
    BY <1>1, <2>1 DEF GoTo, TypeInv, TypeOK
<1>6. CASE Restart
  <2>1. \A d \in Calls : calls'[d].at = "idle"
    BY <1>6 DEF Restart, IdleCall
  <2> QED
    BY <2>1, SilentCalls DEF SnapLabels
<1>7. CASE ProviderSettle \/ Tick
  BY <1>2, <1>7 DEF ProviderSettle, Tick
<1> QED
  BY <1>2, <1>3, <1>4, <1>5, <1>6, <1>7, CallsGoOn DEF vars

\* Only apply() and a rejected webhook write events.
LEMMA EventWriters ==
  ASSUME Next, events' # events
  PROVE  \E c \in Calls : RejectWebhook(c) \/ LogNoOp(c) \/ LogApplied(c)
<1>1. ~ProviderSettle /\ ~Tick /\ ~Restart
  BY DEF ProviderSettle, Tick, Restart
<1>2. ASSUME NEW c \in Calls
      PROVE  ~Initiate(c) /\ ~Save(c) /\ ~Reply(c) /\ ~Refund(c)
  BY DEF Initiate, InitiateStart, CheckBooking, InsertPayment, ReadWinner,
         RailInitiate, Save, SaveSelect, SaveUpdate, Reply,
         Refund, RefundLock, RefundSum, RefundCommit, RefundProvider
<1>3. ASSUME NEW c \in Calls
      PROVE  ~ReconciliationPass(c) /\ ~Reconcile(c) /\ ~Administer(c)
  BY DEF ReconciliationPass, CronStart, SweepOne, FindAwaiting, PollOne, PassEnd,
         Reconcile, AfterApply, RecordAttempt, Escalate, Administer,
         ForceReconcile, ResolveManually, VoidPayment
<1>4. ASSUME NEW c \in Calls, Confirm(c)
      PROVE  RejectWebhook(c) \/ LogNoOp(c) \/ LogApplied(c)
  BY <1>4 DEF Confirm, WebhookReceive, VerifyReturnStart, VerifyAnswer, Apply
<1> QED
  BY <1>1, <1>2, <1>3, <1>4 DEF Next, HttpStep, CronStep, Confirm, Calls

\* An event that is written, or was, repeats the provider's verdict.
LEMMA EventsStep ==
  TypeInv /\ VerdictInv /\ OrderInv /\ [Next]_vars => EventsTrue'
<1> SUFFICES ASSUME TypeInv, VerdictInv, OrderInv, [Next]_vars
             PROVE  EventsTrue'
  OBVIOUS
<1> DEFINE True(e) == e.pay \in Payments /\ charge'[e.pay] = VerdictOf(e.status)
<1>0. \A p \in Payments : charge[p] \in Verdicts => charge'[p] = charge[p]
  BY VerdictsStand
<1>1. \A e \in events : e.applied => True(e)
  BY <1>0 DEF VerdictInv, EventsTrue, VerdictOf, Verdicts
<1>2. CASE UNCHANGED events
  BY <1>1, <1>2 DEF EventsTrue
<1>3. ASSUME NEW c \in Calls, RejectWebhook(c)
      PROVE  EventsTrue'
  BY <1>1, <1>3 DEF RejectWebhook, EventsTrue
<1>4. ASSUME NEW c \in Calls, LogNoOp(c)
      PROVE  EventsTrue'
  <2> DEFINE e == [pay |-> IF calls[c].snap = NoRow THEN None ELSE calls[c].pay,
                   source |-> Source(calls[c]), status |-> calls[c].snap.status,
                   applied |-> FALSE, anomaly |-> Anomaly(calls[c])]
  <2>1. events' = events \cup {e} /\ e.applied = FALSE
    BY <1>4 DEF LogNoOp
  <2> HIDE DEF e
  <2> QED
    BY <1>1, <2>1 DEF EventsTrue
<1>5. ASSUME NEW c \in Calls, LogApplied(c)
      PROVE  EventsTrue'
  <2>1. /\ calls[c].pay \in Payments
        /\ charge[calls[c].pay] = VerdictOf(calls[c].snap.status)
    BY <1>5, CallType DEF LogApplied, Suspended, Working, Labels, VerdictInv,
                          CallsHonest, Honest, Reported
  <2> DEFINE e == [pay |-> calls[c].pay, source |-> Source(calls[c]),
                   status |-> calls[c].snap.status, applied |-> TRUE,
                   anomaly |-> "none"]
  <2>2. /\ events' = events \cup {e}
        /\ e.pay = calls[c].pay /\ e.status = calls[c].snap.status
    BY <1>5 DEF LogApplied
  <2> HIDE DEF e
  <2>3. True(e)
    BY <1>0, <2>1, <2>2 DEF VerdictOf, Verdicts
  <2> QED
    BY <1>1, <2>2, <2>3 DEF EventsTrue
<1> QED
  BY <1>2, <1>3, <1>4, <1>5, EventWriters DEF vars

(***************************************************************************)
(* The theorems.                                                           *)
(***************************************************************************)

\* At first nothing has been said.
LEMMA VerdictInit == Init => VerdictInv /\ OrderInv
<1>1. NoRow.status = "ABSENT" /\ NoRow.reason = "none"
  BY DEF NoRow, NewRow
<1> QED
  BY <1>1 DEF Init, VerdictInv, OrderInv, RowsBacked, CallsHonest, EventsTrue, Honest,
              Backed, PaidStatuses, IdleCall, SnapLabels, Reported, Exists

\* Nobody acts on what has not been said, in any reachable state.
THEOREM VerdictInvAlways == Spec => [](VerdictInv /\ OrderInv)
<1>1. TypeInv /\ RefundInv /\ VerdictInv /\ OrderInv /\ [Next]_vars
        => VerdictInv' /\ OrderInv'
  BY RowsStep, CallsStep, EventsStep, OrderStep DEF VerdictInv
<1> QED
  BY <1>1, VerdictInit, TypeInvAlways, RefundInvAlways, PTL DEF Spec

\* A payment counts as paid only if the provider or an administrator confirmed
\* it, whatever entities are saved on top of each other.
THEOREM PaidOnlyIfSaidSo == Spec => []PaidOnlyIfCharged
<1>1. VerdictInv => PaidOnlyIfCharged
  BY DEF VerdictInv, RowsBacked, Backed, Charged, PaidOnlyIfCharged
<1> QED
  BY <1>1, VerdictInvAlways, PTL

\* A payment is FAILED, or tagged DECLINED, only on the provider's or an
\* administrator's word, whatever errors and timeouts there are.
THEOREM FailedOnlyIfSaidSo == Spec => []FailedOnlyIfDeclined
<1>1. VerdictInv => FailedOnlyIfDeclined
  BY DEF VerdictInv, RowsBacked, Backed, Declined, FailedOnlyIfDeclined
<1> QED
  BY <1>1, VerdictInvAlways, PTL

\* An audit event that claims to have moved a payment reports the provider's
\* verdict on it.
THEOREM AuditIsTrue == Spec => []AuditReportsVerdict
<1>1. VerdictInv => AuditReportsVerdict
  BY DEF VerdictInv, EventsTrue, VerdictOf, AuditReportsVerdict
<1> QED
  BY <1>1, VerdictInvAlways, PTL

\* A payment gets one order at the provider, however many calls bring its key.
THEOREM OneOrder == Spec => []OneOrderPerPayment
<1>1. OrderInv => OneOrderPerPayment
  BY DEF OrderInv, OneOrderPerPayment, Calls
<1> QED
  BY <1>1, VerdictInvAlways, PTL
=============================================================================
