---------------------------- MODULE GatewayProofs ----------------------------
(***************************************************************************)
(* What a client of the gateway may rely on, proved for any number of      *)
(* clients, payments and overlapping calls.                                *)
(*                                                                         *)
(* The gateway only watches: each of its steps is a step of the payments   *)
(* module or leaves it alone, so all that is proved of the payments module *)
(* holds here.  A client that listens is behind only while some call has   *)
(* moved the payment and is at the await before its push (UpdatesReach);   *)
(* and nothing is pushed that is not the payment's status, while webhooks  *)
(* and verify-on-return calls are all that works on it (ToldIsSo).         *)
(***************************************************************************)
EXTENDS GatewayProperties, ReferenceProofs

(***************************************************************************)
(* What calls save is a status, and what apply() logs is a verdict.        *)
(***************************************************************************)

SavesStatus(call) ==
  /\ call.at \in {"save", "flush"} => call.snap.status \in Statuses
  /\ call.at = "log_applied" => call.snap.status \in Moved

StatusesSaved == \A c \in Calls : SavesStatus(calls[c])

\* The call goes on, with a status if it has one to save.
SavesOn(c) == \E call : GoTo(c, call) /\ SavesStatus(call)

Elsewhere == Labels \ {"save", "flush", "log_applied"}

\* A call that has nothing to save.
LEMMA ElsewhereSaves ==
  ASSUME NEW c, NEW call, GoTo(c, call), call.at \in Elsewhere
  PROVE  SavesOn(c)
BY DEF SavesOn, SavesStatus, Elsewhere

\* The helpers that end a call, or a part of it, leave nothing to save.
LEMMA EndsElsewhere ==
  ASSUME NEW call \in Call
  PROVE  /\ \A result : Done(call, result).at \in Elsewhere
         /\ \A label \in Elsewhere : At(call, label).at \in Elsewhere
         /\ \A label \in {"sweep", "poll"} : NextItem(call, label).at \in Elsewhere
         /\ Thrown(call).at \in Elsewhere
         /\ AfterItem(call).at \in Elsewhere
         /\ Applied(call).at \in Elsewhere
         /\ IdleCall.at \in Elsewhere
<1>1. \A label \in Labels : At(call, label).at = label
  BY DEF At, Call
<1>2. \A label : NextItem(call, label).at = label
  BY DEF NextItem, Call
<1>3. IdleCall.at = "idle" /\ \A result : Done(call, result).at = "done"
  BY DoneFields DEF IdleCall
<1>4. {"idle", "done", "sweep", "poll", "after_apply"} \subseteq Elsewhere
  BY DEF Elsewhere, Labels
<1> QED
  BY <1>1, <1>2, <1>3, <1>4 DEF Thrown, AfterItem, Applied, Elsewhere

\* Steps of initiate() and of refunds.
LEMMA InitiateSaves ==
  ASSUME TypeInv, NEW c \in Calls, Initiate(c) \/ Refund(c)
  PROVE  SavesOn(c)
<1>0. calls[c] \in Call /\ calls[c].snap \in Row
  BY CallType
<1>1. CASE InitiateStart(c)
  <2>1. PICK req \in Requests :
          LET p == req.key
              call == [NewCall("initiate", p) EXCEPT !.given = NewRow(req, now)]
          IN GoTo(c, IF ~Exists(p) THEN At(call, "check_booking")
                     ELSE IF SamePayload(payments[p], req)
                          THEN Done([call EXCEPT !.snap = payments[p]], "ok")
                          ELSE Done(call, "conflict"))
    BY <1>1 DEF InitiateStart
  <2> DEFINE first == [NewCall("initiate", req.key) EXCEPT !.given = NewRow(req, now)]
             found == [first EXCEPT !.snap = payments[req.key]]
             next == At(first, "check_booking")
  <2>2. \/ GoTo(c, next) \/ GoTo(c, Done(found, "ok"))
        \/ GoTo(c, Done(first, "conflict"))
    BY <2>1
  <2>3. next.at = "check_booking"
    BY DEF At, NewCall, IdleCall
  <2>4. {"check_booking", "done"} \subseteq Elsewhere
    BY DEF Elsewhere, Labels
  <2>5. Done(found, "ok").at = "done" /\ Done(first, "conflict").at = "done"
    BY DoneFields
  <2> HIDE DEF first, found, next
  <2> QED
    BY <2>2, <2>3, <2>4, <2>5, ElsewhereSaves
<1>2. CASE CheckBooking(c)
  <2>1. GoTo(c, Done(calls[c], "conflict")) \/ GoTo(c, At(calls[c], "insert"))
    BY <1>2 DEF CheckBooking
  <2>2. "insert" \in Elsewhere
    BY DEF Elsewhere, Labels
  <2> QED
    BY <1>0, <2>1, <2>2, EndsElsewhere, ElsewhereSaves
<1>3. CASE ReadWinner(c)
  <2> DEFINE found == [calls[c] EXCEPT !.snap = payments[calls[c].pay]]
  <2>1. GoTo(c, Done(found, "ok"))
    BY <1>3 DEF ReadWinner
  <2>2. Done(found, "ok").at = "done" /\ "done" \in Elsewhere
    BY DoneFields DEF Elsewhere, Labels
  <2> HIDE DEF found
  <2> QED
    BY <2>1, <2>2, ElsewhereSaves
<1>4. CASE RailInitiate(c)
  <2> DEFINE row == AwaitingConfirmation(calls[c].snap)
             next == [calls[c] EXCEPT !.at = "save", !.snap = row]
  <2>1. GoTo(c, next) \/ GoTo(c, Done(calls[c], "error"))
    BY <1>4 DEF RailInitiate
  <2>2. row.status \in Statuses
    BY <1>0 DEF AwaitingConfirmation, Row, Statuses
  <2>3. next.at = "save" /\ next.snap = row
    BY <1>0 DEF Call
  <2> HIDE DEF next, row
  <2> QED
    BY <1>0, <2>1, <2>2, <2>3, EndsElsewhere, ElsewhereSaves DEF SavesOn, SavesStatus
<1>5. CASE InsertPayment(c)
  <2> DEFINE row == NewRow(calls[c].given.req, now)
             next == [calls[c] EXCEPT !.at = "rail_initiate", !.snap = row]
  <2>1. \/ GoTo(c, next) \/ GoTo(c, Done(calls[c], "conflict"))
        \/ GoTo(c, At(calls[c], "read_winner"))
    BY <1>5 DEF InsertPayment
  <2>2. next.at = "rail_initiate"
    BY <1>0 DEF Call
  <2>3. {"rail_initiate", "read_winner"} \subseteq Elsewhere
    BY DEF Elsewhere, Labels
  <2> HIDE DEF next
  <2> QED
    BY <1>0, <2>1, <2>2, <2>3, EndsElsewhere, ElsewhereSaves
<1>6. CASE RefundLock(c)
  <2> DEFINE next(p, amount) == [NewCall("refund", p) EXCEPT
                  !.at = "refund_sum", !.snap = payments[p], !.amount = amount]
  <2>1. PICK p \in Payments, amount \in RefundAmounts : GoTo(c, next(p, amount))
    BY <1>6 DEF RefundLock
  <2>2. next(p, amount).at = "refund_sum"
    BY DEF NewCall, IdleCall
  <2>3. "refund_sum" \in Elsewhere
    BY DEF Elsewhere, Labels
  <2> HIDE DEF next
  <2> QED
    BY <2>1, <2>2, <2>3, ElsewhereSaves
<1>7. CASE RefundSum(c) \/ RefundCommit(c) \/ RefundProvider(c)
  <2> DEFINE sums == [calls[c] EXCEPT !.at = "refund_commit", !.sum = refunded[calls[c].pay]]
             pays == [calls[c] EXCEPT !.at = "refund_provider", !.sum = 0]
             tries == [calls[c] EXCEPT !.sum = @ + 1]
  <2>1. \/ GoTo(c, sums) \/ GoTo(c, pays)
        \/ GoTo(c, tries) /\ calls[c].at = "refund_provider"
        \/ GoTo(c, Done(calls[c], "conflict")) \/ GoTo(c, Done(calls[c], "ok"))
    BY <1>7 DEF RefundSum, RefundCommit, RefundProvider, Suspended
  <2>2. /\ sums.at = "refund_commit" /\ pays.at = "refund_provider"
        /\ tries.at = calls[c].at
    BY <1>0 DEF Call
  <2>3. {"refund_commit", "refund_provider"} \subseteq Elsewhere
    BY DEF Elsewhere, Labels
  <2> HIDE DEF sums, pays, tries
  <2> QED
    BY <1>0, <2>1, <2>2, <2>3, EndsElsewhere, ElsewhereSaves
<1> QED
  BY <1>1, <1>2, <1>3, <1>4, <1>5, <1>6, <1>7 DEF Initiate, Refund

\* Steps of webhooks, answers, apply(), save() and replies.
LEMMA ConfirmSaves ==
  ASSUME TypeInv, StatusesSaved, NEW c \in Calls, Confirm(c) \/ Save(c) \/ Reply(c)
  PROVE  SavesOn(c)
<1>0. /\ calls[c] \in Call /\ calls[c].snap \in Row
      /\ calls[c].at \in Working => payments[calls[c].pay] \in Row
      /\ SavesStatus(calls[c])
  BY CallType, PaymentType DEF StatusesSaved
<1>1. CASE WebhookReceive(c)
  <2> DEFINE next(p, outcome) ==
        [NewCall("webhook", p) EXCEPT !.at = "apply", !.arg = outcome]
  <2>1. \E p \in Payments : \E outcome \in Answers(p) : GoTo(c, next(p, outcome))
    BY <1>1 DEF WebhookReceive
  <2>2. PICK p, outcome : GoTo(c, next(p, outcome))
    BY <2>1
  <2>3. next(p, outcome).at = "apply" /\ "apply" \in Elsewhere
    BY DEF NewCall, IdleCall, Elsewhere, Labels
  <2> HIDE DEF next
  <2> QED
    BY <2>2, <2>3, ElsewhereSaves
<1>2. CASE RejectWebhook(c)
  <2>1. GoTo(c, calls[c])
    BY <1>2 DEF RejectWebhook, GoTo, TypeInv, TypeOK
  <2> QED
    BY <1>0, <2>1 DEF SavesOn
<1>3. CASE VerifyReturnStart(c)
  <2> DEFINE first(p) == [NewCall("verify_return", p) EXCEPT !.given = payments[p]]
             next(p) == At(first(p), "verify")
  <2>1. PICK p : GoTo(c, next(p)) \/ GoTo(c, Done(first(p), "ok"))
    BY <1>3 DEF VerifyReturnStart
  <2>2. next(p).at = "verify" /\ Done(first(p), "ok").at = "done"
    BY DoneFields DEF At, NewCall, IdleCall
  <2>3. {"verify", "done"} \subseteq Elsewhere
    BY DEF Elsewhere, Labels
  <2> HIDE DEF first, next
  <2> QED
    BY <2>1, <2>2, <2>3, ElsewhereSaves
<1>4. CASE VerifyAnswer(c)
  <2> DEFINE asked(answer) == [calls[c] EXCEPT !.at = "apply", !.arg = answer]
             counted(answer) == [calls[c] EXCEPT !.at = "record", !.arg = answer]
  <2>1. PICK answer : \/ GoTo(c, asked(answer)) \/ GoTo(c, Done(calls[c], answer))
                      \/ GoTo(c, counted(answer))
    BY <1>4 DEF VerifyAnswer
  <2>2. asked(answer).at = "apply" /\ counted(answer).at = "record"
    BY <1>0 DEF Call
  <2>3. {"apply", "record"} \subseteq Elsewhere
    BY DEF Elsewhere, Labels
  <2> HIDE DEF asked, counted
  <2> QED
    BY <1>0, <2>1, <2>2, <2>3, EndsElsewhere, ElsewhereSaves
<1>5. CASE Apply(c)
  <2> DEFINE row == payments[calls[c].pay]
             entity == [row EXCEPT !.status = Implied(calls[c].arg)]
             lost == [calls[c] EXCEPT !.at = "log", !.snap = NoRow]
             noop == [calls[c] EXCEPT !.at = "log", !.snap = row]
             moves == [calls[c] EXCEPT !.at = "save", !.snap = entity]
  <2>1. \/ GoTo(c, lost) \/ GoTo(c, noop) \/ GoTo(c, Thrown(calls[c])) \/ GoTo(c, moves)
    BY <1>5 DEF Apply
  <2>2. row \in Row
    BY <1>0, <1>5 DEF Apply, Suspended, Working, Labels
  <2>3. entity.status \in Statuses
    BY <2>2, ImpliedType DEF Row, Statuses
  <2>4. /\ lost.at = "log" /\ noop.at = "log" /\ "log" \in Elsewhere
        /\ moves.at = "save" /\ moves.snap = entity
    BY <1>0 DEF Call, Elsewhere, Labels
  <2> HIDE DEF lost, noop, moves, entity, row
  <2> QED
    BY <1>0, <2>1, <2>3, <2>4, EndsElsewhere, ElsewhereSaves DEF SavesOn, SavesStatus
<1>6. CASE LogNoOp(c) \/ LogApplied(c)
  BY <1>0, <1>6, EndsElsewhere, ElsewhereSaves DEF LogNoOp, LogApplied
<1>7. CASE Save(c)
  <2> DEFINE flush == [calls[c] EXCEPT !.at = "flush",
                         !.dirty = Changed(payments[calls[c].pay], calls[c].snap)]
             logs == [calls[c] EXCEPT !.at = "log_applied", !.dirty = {}]
  <2>1. \/ GoTo(c, AfterSave(calls[c])) \/ GoTo(c, Done(calls[c], "conflict"))
        \/ GoTo(c, flush)
    BY <1>7 DEF Save, SaveSelect, SaveUpdate
  <2>2. calls[c].snap.status \in Statuses
    BY <1>0, <1>7 DEF Save, SaveSelect, SaveUpdate, Suspended, SavesStatus
  <2>3. /\ flush.at = "flush" /\ flush.snap = calls[c].snap
        /\ logs.at = "log_applied" /\ logs.snap = calls[c].snap
    BY <1>0 DEF Call
  <2>4. \/ AfterSave(calls[c]) = logs /\ calls[c].snap.status \in Moved
        \/ AfterSave(calls[c]).at \in Elsewhere
    BY <1>0, EndsElsewhere DEF AfterSave, Moved
  <2> HIDE DEF flush, logs
  <2> QED
    BY <1>0, <2>1, <2>2, <2>3, <2>4, EndsElsewhere, ElsewhereSaves
    DEF SavesOn, SavesStatus
<1>8. CASE Reply(c)
  BY <1>0, <1>8, EndsElsewhere, ElsewhereSaves DEF Reply
<1> QED
  BY <1>1, <1>2, <1>3, <1>4, <1>5, <1>6, <1>7, <1>8 DEF Confirm

\* Steps of reconciliation and of administrators.
LEMMA ReconcileSaves ==
  ASSUME TypeInv, NEW c \in Calls,
         ReconciliationPass(c) \/ Reconcile(c) \/ Administer(c)
  PROVE  SavesOn(c)
<1>0. calls[c] \in Call /\ calls[c].batch \in SUBSET (Payments \X Row)
  BY CallType
<1>s. /\ {"sweep", "poll", "verify", "escalate"} \subseteq Elsewhere
      /\ {"EXPIRED", "MANUAL_REVIEW", "CONFIRMED", "FAILED", "VOIDED"} \subseteq Statuses
  BY DEF Elsewhere, Labels, Statuses
<1>r. \A row \in Row : \A status : [row EXCEPT !.status = status].status = status
  BY DEF Row
<1>1. CASE CronStart(c)
  <2> DEFINE next == [NewCall("cron", None) EXCEPT
                !.at = "sweep", !.time = now,
                !.batch = Snapshots({p \in Payments : IsExpired(payments[p])})]
  <2>1. next.at = "sweep" /\ GoTo(c, next)
    BY <1>1 DEF NewCall, IdleCall, CronStart
  <2> HIDE DEF next
  <2> QED
    BY <1>s, <2>1, ElsewhereSaves
<1>2. CASE SweepOne(c)
  <2> DEFINE row(item) == Expired(item[2])
             next(item) == [calls[c] EXCEPT !.at = "save", !.pay = item[1],
                              !.snap = row(item), !.batch = @ \ {item}]
  <2>1. PICK item \in calls[c].batch : GoTo(c, next(item))
    BY <1>2 DEF SweepOne
  <2>2. item[2] \in Row
    BY <1>0
  <2>3. row(item).status = "EXPIRED"
    BY <2>2 DEF Expired, Row
  <2>4. next(item).at = "save" /\ next(item).snap = row(item)
    BY <1>0 DEF Call
  <2> HIDE DEF next, row
  <2> QED
    BY <1>s, <2>1, <2>3, <2>4 DEF SavesOn, SavesStatus
<1>3. CASE FindAwaiting(c)
  <2> DEFINE next(found) == [calls[c] EXCEPT !.at = "poll",
                !.batch = {item \in Snapshots(found) : IsDueForPoll(item[2], calls[c].time)}]
  <2>1. PICK found : GoTo(c, next(found))
    BY <1>3 DEF FindAwaiting
  <2>2. next(found).at = "poll"
    BY <1>0 DEF Call
  <2> HIDE DEF next
  <2> QED
    BY <1>s, <2>1, <2>2, ElsewhereSaves
<1>4. CASE PollOne(c)
  <2> DEFINE next(item) == [calls[c] EXCEPT !.at = "verify", !.pay = item[1],
                                  !.given = item[2], !.batch = @ \ {item}]
  <2>1. PICK item : GoTo(c, next(item))
    BY <1>4 DEF PollOne
  <2>2. next(item).at = "verify"
    BY <1>0 DEF Call
  <2> HIDE DEF next
  <2> QED
    BY <1>s, <2>1, <2>2, ElsewhereSaves
<1>5. CASE PassEnd(c)
  BY <1>0, <1>5, EndsElsewhere, ElsewhereSaves DEF PassEnd
<1>6. CASE AfterApply(c) \/ RecordAttempt(c)
  <2>1. GoTo(c, AfterItem(calls[c])) \/ GoTo(c, At(calls[c], "escalate"))
    BY <1>6 DEF AfterApply, RecordAttempt
  <2> QED
    BY <1>0, <1>s, <2>1, EndsElsewhere, ElsewhereSaves
<1>7. CASE Escalate(c)
  <2> DEFINE row == [payments[calls[c].pay] EXCEPT !.status = "MANUAL_REVIEW"]
             next == [calls[c] EXCEPT !.at = "save", !.snap = row]
  <2>1. GoTo(c, next) \/ GoTo(c, Thrown(calls[c]))
    BY <1>7 DEF Escalate
  <2>2. payments[calls[c].pay] \in Row
    BY <1>7, CallType, PaymentType DEF Escalate, Suspended, Working, Labels
  <2>3. row.status = "MANUAL_REVIEW"
    BY <1>r, <2>2
  <2>4. next.at = "save" /\ next.snap = row
    BY <1>0 DEF Call
  <2> HIDE DEF next, row
  <2> QED
    BY <1>0, <1>s, <2>1, <2>3, <2>4, EndsElsewhere, ElsewhereSaves
    DEF SavesOn, SavesStatus
<1>8. CASE ForceReconcile(c)
  <2> DEFINE next(p) == [NewCall("force", p) EXCEPT
                     !.at = "verify", !.given = payments[p], !.time = now]
  <2>1. PICK p : GoTo(c, next(p))
    BY <1>8 DEF ForceReconcile
  <2>2. next(p).at = "verify"
    BY DEF NewCall, IdleCall
  <2> HIDE DEF next
  <2> QED
    BY <1>s, <2>1, <2>2, ElsewhereSaves
<1>9. CASE ResolveManually(c)
  <2> DEFINE row(p, resolution) == Resolved(payments[p], resolution)
             next(p, resolution) == [NewCall("resolve", p) EXCEPT
                     !.at = "save", !.snap = row(p, resolution)]
  <2>1. PICK p \in Payments, resolution \in {"CONFIRMED", "FAILED"} :
          GoTo(c, next(p, resolution))
    BY <1>9 DEF ResolveManually
  <2>2. row(p, resolution).status = resolution
    BY PaymentType DEF Resolved, Row
  <2>3. next(p, resolution).at = "save" /\ next(p, resolution).snap = row(p, resolution)
    BY DEF NewCall, IdleCall
  <2> HIDE DEF next, row
  <2> QED
    BY <1>s, <2>1, <2>2, <2>3 DEF SavesOn, SavesStatus
<1>10. CASE VoidPayment(c)
  <2> DEFINE row(p) == [payments[p] EXCEPT !.status = "VOIDED"]
             next(p) == [NewCall("void", p) EXCEPT !.at = "save", !.snap = row(p)]
  <2>1. PICK p \in Payments : GoTo(c, next(p))
    BY <1>10 DEF VoidPayment
  <2>2. row(p).status = "VOIDED"
    BY <1>r, PaymentType
  <2>3. next(p).at = "save" /\ next(p).snap = row(p)
    BY DEF NewCall, IdleCall
  <2> HIDE DEF next, row
  <2> QED
    BY <1>s, <2>1, <2>2, <2>3 DEF SavesOn, SavesStatus
<1> QED
  BY <1>1, <1>2, <1>3, <1>4, <1>5, <1>6, <1>7, <1>8, <1>9, <1>10
     DEF ReconciliationPass, Reconcile, Administer

\* A step of a call changes that call alone.
LEMMA CallMoves ==
  ASSUME TypeInv, StatusesSaved, NEW c \in Calls,
         \/ Initiate(c) \/ Confirm(c) \/ ReconciliationPass(c) \/ Reconcile(c)
         \/ Administer(c) \/ Refund(c) \/ Save(c) \/ Reply(c)
  PROVE  /\ SavesStatus(calls'[c])
         /\ \A d \in Calls : d # c => calls'[d] = calls[d]
<1>1. SavesOn(c)
  BY InitiateSaves, ConfirmSaves, ReconcileSaves
<1> QED
  BY <1>1 DEF SavesOn, GoTo, TypeInv, TypeOK

\* A step of the payments module is a step of one call, or of the world.
LEMMA StepOfCall ==
  ASSUME NEW c, HttpStep(c) \/ CronStep(c)
  PROVE  \/ Initiate(c) \/ Confirm(c) \/ ReconciliationPass(c) \/ Reconcile(c)
         \/ Administer(c) \/ Refund(c) \/ Save(c) \/ Reply(c)
BY DEF HttpStep, CronStep, Confirm

LEMMA StatusesSavedStep ==
  ASSUME TypeInv, StatusesSaved, [Next]_vars
  PROVE  StatusesSaved'
<1>1. ASSUME NEW c \in Calls, HttpStep(c) \/ CronStep(c)
      PROVE  StatusesSaved'
  <2>1. /\ SavesStatus(calls'[c])
        /\ \A d \in Calls : d # c => calls'[d] = calls[d]
    BY <1>1, StepOfCall, CallMoves
  <2> QED
    BY <2>1 DEF StatusesSaved
<1>2. CASE Restart
  <2>1. SavesStatus(IdleCall)
    BY DEF IdleCall, SavesStatus
  <2> QED
    BY <1>2, <2>1 DEF Restart, StatusesSaved
<1>3. CASE ProviderSettle \/ Tick \/ UNCHANGED vars
  BY <1>3 DEF ProviderSettle, Tick, StatusesSaved, vars
<1> QED
  BY <1>1, <1>2, <1>3 DEF Next, Calls

(***************************************************************************)
(* Who pushes, and who changes a status.                                   *)
(***************************************************************************)

\* Of a call that is about to push, the next step is known.
LEMMA StepAt ==
  ASSUME NEW c \in Calls, HttpStep(c) \/ CronStep(c)
  PROVE  /\ calls[c].at = "log_applied" => LogApplied(c)
         /\ calls[c].at = "refund_commit" => RefundCommit(c)
         /\ calls[c].at = "save" => SaveSelect(c)
         /\ calls[c].at = "flush" => SaveUpdate(c)
<1> DEFINE label == calls[c].at
           awaited == {"log_applied", "refund_commit", "save", "flush"}
<1>1. Initiate(c) \/ Reply(c) => label \notin awaited
  BY DEF Initiate, InitiateStart, CheckBooking, InsertPayment, ReadWinner,
         RailInitiate, Reply, Start, Suspended
<1>2. Confirm(c) => LogApplied(c) \/ label \notin awaited
  BY DEF Confirm, WebhookReceive, RejectWebhook, VerifyReturnStart, VerifyAnswer,
         Apply, LogNoOp, Start, Suspended
<1>3. Refund(c) => RefundCommit(c) \/ label \notin awaited
  BY DEF Refund, RefundLock, RefundSum, RefundProvider, Start, Suspended
<1>4. ReconciliationPass(c) \/ Reconcile(c) \/ Administer(c) => label \notin awaited
  BY DEF ReconciliationPass, CronStart, SweepOne, FindAwaiting, PollOne, PassEnd,
         Reconcile, AfterApply, RecordAttempt, Escalate, Administer,
         ForceReconcile, ResolveManually, VoidPayment, Start, Suspended
<1>5. /\ LogApplied(c) => label = "log_applied"
      /\ RefundCommit(c) => label = "refund_commit"
      /\ SaveSelect(c) => label = "save"
      /\ SaveUpdate(c) => label = "flush"
  BY DEF LogApplied, RefundCommit, SaveSelect, SaveUpdate, Suspended
<1> QED
  BY <1>1, <1>2, <1>3, <1>4, <1>5, StepOfCall DEF Save

\* Whoever changes the status of a payment works on it.
LEMMA StepWrites ==
  ASSUME NEW c \in Calls, HttpStep(c) \/ CronStep(c), payments' # payments
  PROVE  \/ InsertPayment(c) \/ SaveUpdate(c) \/ AfterApply(c)
         \/ RecordAttempt(c) \/ RefundCommit(c)
<1>1. Initiate(c) => InsertPayment(c)
  BY DEF Initiate, InitiateStart, CheckBooking, ReadWinner, RailInitiate
<1>2. ~Confirm(c) /\ ~SaveSelect(c) /\ ~Reply(c)
  BY DEF Confirm, WebhookReceive, RejectWebhook, VerifyReturnStart, VerifyAnswer,
         Apply, LogNoOp, LogApplied, SaveSelect, Reply
<1>3. ~ReconciliationPass(c) /\ ~Administer(c)
  BY DEF ReconciliationPass, CronStart, SweepOne, FindAwaiting, PollOne, PassEnd,
         Administer, ForceReconcile, ResolveManually, VoidPayment
<1>4. Reconcile(c) => AfterApply(c) \/ RecordAttempt(c)
  BY DEF Reconcile, Escalate
<1>5. Refund(c) => RefundCommit(c)
  BY DEF Refund, RefundLock, RefundSum, RefundProvider
<1> QED
  BY <1>1, <1>2, <1>3, <1>4, <1>5, StepOfCall DEF Save

\* What a refund writes is what it pushes.
LEMMA RefundPushes ==
  ASSUME TypeInv, NEW c \in Calls, RefundCommit(c)
  PROVE  /\ calls[c].pay \in Payments
         /\ payments'[calls[c].pay].status \in Statuses
         /\ Pushed(c) = {payments'[calls[c].pay].status}
         /\ \A p \in Payments : p # calls[c].pay => payments'[p] = payments[p]
<1> DEFINE p == calls[c].pay
           row == [payments[p] EXCEPT !.status = RefundedStatus(calls[c])]
<1>1. /\ calls[c].at = "refund_commit" /\ p \in Payments /\ payments[p] \in Row
      /\ payments' = [payments EXCEPT ![p] = row]
  BY CallType, PaymentType DEF RefundCommit, Suspended, Working, Labels, TypeInv, TypeOK
<1>2. row.status \in Statuses
  BY <1>1 DEF Row, RefundedStatus, Statuses
<1>3. Pushed(c) = {payments'[p].status}
  BY <1>1 DEF Pushed, SaveReturned
<1> HIDE DEF row
<1>4. payments'[p] = row /\ \A q \in Payments : q # p => payments'[q] = payments[q]
  BY <1>1 DEF TypeInv, TypeOK
<1> QED
  BY <1>1, <1>2, <1>3, <1>4

\* All that is pushed is statuses.
LEMMA PushedStatuses ==
  ASSUME TypeInv, StatusesSaved, NEW c \in Calls, HttpStep(c) \/ CronStep(c)
  PROVE  Pushed(c) \subseteq Statuses
<1>1. SavesStatus(calls[c])
  BY DEF StatusesSaved
<1>2. CASE calls[c].at = "refund_commit"
  BY <1>2, StepAt, RefundPushes
<1>3. CASE calls[c].at # "refund_commit"
  BY <1>1, <1>3 DEF Pushed, SaveReturned, SavesStatus, Moved, Statuses
<1> QED
  BY <1>2, <1>3

\* A changed status is open, or is pushed at once, or is going to be.
LEMMA ChangesArePushed ==
  ASSUME TypeInv, ReferenceInv, NEW c \in Calls, HttpStep(c) \/ CronStep(c),
         NEW p \in Payments, payments'[p].status # payments[p].status
  PROVE  /\ calls[c].pay = p
         /\ \/ payments'[p].status \in OpenStatuses
            \/ payments'[p].status \in Pushed(c)
            \/ /\ calls'[c].at = "log_applied" /\ calls'[c].pay = p
               /\ calls'[c].snap.status = payments'[p].status
<1>0. /\ payments' # payments /\ calls[c] \in Call
      /\ Grounded(calls[c], Referenced, Closed, decisions, events)
  BY CallGround
<1>1. CASE InsertPayment(c)
  <2>1. p = calls[c].pay /\ payments'[p].status = "INITIATED"
    BY <1>0, <1>1, InsertGoesToTheRail
  <2> QED
    BY <2>1 DEF OpenStatuses
<1>2. CASE SaveUpdate(c)
  <2>1. /\ calls[c].pay = p /\ calls[c].at = "flush"
        /\ calls[c].snap.status = payments'[p].status
        /\ calls'[c] = AfterSave(calls[c])
    BY <1>0, <1>2, UpdatedRow DEF SaveUpdate, Suspended
  <2>2. CASE calls[c].op = "initiate"
    BY <1>0, <2>1, <2>2 DEF Grounded, BringsReference, OpenStatuses
  <2>3. CASE calls[c].op # "initiate"
    <3> DEFINE logs == [calls[c] EXCEPT !.at = "log_applied", !.dirty = {}]
    <3>1. /\ logs.at = "log_applied" /\ logs.pay = calls[c].pay
          /\ logs.snap = calls[c].snap
      BY <1>0 DEF Call
    <3>2. \/ calls'[c] = logs
          \/ calls'[c].at \in {"done", "sweep", "poll"}
      BY <1>0, <2>1, EndsElsewhere, WhereCallsGo, DoneAt DEF AfterSave
    <3> HIDE DEF logs
    <3>3. CASE calls'[c].at \in {"done", "sweep", "poll"}
      BY <2>1, <2>3, <3>3 DEF Pushed, SaveReturned
    <3> QED
      BY <2>1, <3>1, <3>2, <3>3
  <2> QED
    BY <2>2, <2>3
<1>3. CASE AfterApply(c) \/ RecordAttempt(c)
  BY <1>3, Bookkeeping DEF TypeInv, TypeOK
<1>4. CASE RefundCommit(c)
  BY <1>4, RefundPushes
<1> QED
  BY <1>0, <1>1, <1>2, <1>3, <1>4, StepWrites

(***************************************************************************)
(* The gateway only watches.                                               *)
(***************************************************************************)

\* Each of its steps is a step of the payments module, or leaves it alone.
LEMMA GatewayWatches ==
  [GatewayNext]_gatewayVars => [Next]_vars
BY DEF GatewayNext, gatewayVars, Next

\* So it implements the payments module.
THEOREM GatewayImplements == GatewaySpec => Spec
<1>1. GatewayInit => Init
  BY DEF GatewayInit
<1> QED
  BY <1>1, GatewayWatches, PTL DEF GatewaySpec, Spec

Listening == {"reading", "joined"}

\* Whoever asked for a payment asked for one that exists.
SocketsInv ==
  /\ GatewayTypeOK
  /\ \A k \in Clients : sockets[k].at \in Listening =>
       sockets[k].pay \in Payments /\ sockets[k].read \in Statuses

\* The socket that Emit leaves.
LEMMA EmitTo ==
  ASSUME SocketsInv, NEW c, Emit(c), NEW k \in Clients
  PROVE  /\ sockets'[k].at = sockets[k].at /\ sockets'[k].pay = sockets[k].pay
         /\ sockets'[k].read = sockets[k].read
         /\ \/ sockets'[k].told = sockets[k].told
            \/ /\ sockets'[k].told = sockets[k].told \cup Pushed(c)
               /\ sockets[k].pay = calls[c].pay
               /\ sockets[k].at = "joined"
         /\ sockets[k].missed => sockets'[k].missed
         /\ sockets'[k].missed \in BOOLEAN
         /\ sockets[k].pay = calls[c].pay /\ sockets[k].at = "joined" =>
              sockets'[k].told = sockets[k].told \cup Pushed(c)
         /\ sockets[k].pay = calls[c].pay /\ sockets[k].at # "joined" =>
              (sockets'[k].missed <=> sockets[k].missed \/ Pushed(c) # {})
<1> DEFINE s == sockets[k]
           pushed == Pushed(c)
           tells == [s EXCEPT !.told = @ \cup pushed]
           misses == [s EXCEPT !.missed = @ \/ pushed # {}]
<1>1. s \in Socket
  BY DEF SocketsInv, GatewayTypeOK
<1>2. sockets'[k] = IF s.pay # calls[c].pay THEN s
                    ELSE IF s.at = "joined" THEN tells ELSE misses
  BY DEF Emit
<1> HIDE DEF pushed, s
<1>3. /\ tells.at = s.at /\ tells.pay = s.pay /\ tells.read = s.read
      /\ tells.told = s.told \cup pushed /\ tells.missed = s.missed
  BY <1>1 DEF Socket
<1>4. /\ misses.at = s.at /\ misses.pay = s.pay /\ misses.read = s.read
      /\ misses.told = s.told
  BY <1>1 DEF Socket
<1>5. misses.missed <=> (s.missed \/ pushed # {})
  BY <1>1 DEF Socket
<1>6. misses.missed \in BOOLEAN /\ s.missed \in BOOLEAN
  BY <1>1 DEF Socket
<1> HIDE DEF tells, misses
<1> QED
  BY <1>2, <1>3, <1>4, <1>5, <1>6 DEF s, pushed

\* It stays a socket, if statuses are pushed.
LEMMA EmitType ==
  ASSUME SocketsInv, NEW c, Emit(c), Pushed(c) \subseteq Statuses
  PROVE  SocketsInv'
<1>1. ASSUME NEW k \in Clients
      PROVE  sockets'[k] \in Socket
  <2> DEFINE s == sockets[k]
             told == s.told \cup Pushed(c)
             missed == s.missed \/ Pushed(c) # {}
             tells == [s EXCEPT !.told = told]
             misses == [s EXCEPT !.missed = missed]
  <2>1. s \in Socket
    BY DEF SocketsInv, GatewayTypeOK
  <2>2. sockets'[k] \in {s, tells, misses}
    BY DEF Emit
  <2>3. told \in SUBSET Statuses /\ missed \in BOOLEAN
    BY <2>1 DEF Socket
  <2> HIDE DEF s, told, missed
  <2>4. tells \in Socket /\ misses \in Socket
    BY <2>1, <2>3 DEF Socket
  <2> QED
    BY <2>1, <2>2, <2>4
<1>2. sockets' = [k \in Clients |-> sockets'[k]]
  BY DEF Emit
<1>3. GatewayTypeOK'
  BY <1>1, <1>2 DEF GatewayTypeOK
<1>4. ASSUME NEW k \in Clients, sockets'[k].at \in Listening
      PROVE  sockets'[k].pay \in Payments /\ sockets'[k].read \in Statuses
  BY <1>4, EmitTo DEF SocketsInv
<1> QED
  BY <1>3, <1>4 DEF SocketsInv

\* The socket that a client's step leaves.
LEMMA ClientGoes ==
  ASSUME TypeInv, SocketsInv, NEW k \in Clients, ClientStep(k)
  PROVE  /\ \A j \in Clients : j # k => sockets'[j] = sockets[j]
         /\ SocketsInv'
         /\ \/ sockets'[k].at \notin Listening /\ sockets'[k].told = {}
            \/ /\ sockets'[k].at = "reading"
               /\ sockets'[k].pay \in Payments
               /\ sockets'[k].read = payments[sockets'[k].pay].status
               /\ sockets'[k].read \in Statuses
               /\ sockets'[k].told = sockets[k].told
               /\ sockets[k].at = "connected"
            \/ /\ sockets[k].at = "reading" /\ sockets'[k].at = "joined"
               /\ sockets'[k].pay = sockets[k].pay
               /\ sockets'[k].told = {sockets[k].read}
               /\ sockets'[k].missed = sockets[k].missed
<1> DEFINE s == sockets[k]
           on == [Off EXCEPT !.at = "connected"]
           asks(p, status) == [s EXCEPT !.at = "reading", !.pay = p, !.read = status]
           joins == [s EXCEPT !.at = "joined", !.told = {s.read}]
<1>1. /\ s \in Socket
      /\ s.at \in Listening => s.pay \in Payments /\ s.read \in Statuses
      /\ sockets \in [Clients -> Socket]
  BY DEF SocketsInv, GatewayTypeOK
<1>2. PICK next : /\ Goes(k, next)
                  /\ \/ next = on \/ next = Off
                     \/ s.at = "reading" /\ next = joins
                     \/ \E p \in Payments : /\ s.at = "connected" /\ Exists(p)
                                            /\ next = asks(p, payments[p].status)
  BY DEF ClientStep, Connect, Subscribe, Join, Disconnect, Viewable
<1>3. /\ sockets' = [sockets EXCEPT ![k] = next] /\ sockets'[k] = next
      /\ \A j \in Clients : j # k => sockets'[j] = sockets[j]
      /\ next \in Socket => sockets' \in [Clients -> Socket]
  BY <1>1, <1>2 DEF Goes
<1> DEFINE Fits == /\ next \in Socket
                   /\ next.at \in Listening => next.pay \in Payments /\ next.read \in Statuses
           Leaves == \/ next.at \notin Listening /\ next.told = {}
                     \/ /\ next.at = "reading" /\ next.pay \in Payments
                        /\ next.read = payments[next.pay].status
                        /\ next.read \in Statuses
                        /\ next.told = s.told /\ s.at = "connected"
                     \/ /\ s.at = "reading" /\ next.at = "joined"
                        /\ next.pay = s.pay /\ next.told = {s.read}
                        /\ next.missed = s.missed
<1>4. ASSUME next = on \/ next = Off
      PROVE  Fits /\ Leaves
  <2>1. /\ Off \in Socket /\ Off.at = "off" /\ Off.told = {}
        /\ on \in Socket /\ on.at = "connected" /\ on.told = {}
    BY DEF Off, Socket
  <2> HIDE DEF on
  <2>2. next \in Socket /\ next.at \in {"off", "connected"} /\ next.told = {}
    BY <1>4, <2>1
  <2> QED
    BY <2>2 DEF Listening
<1>5. ASSUME s.at = "reading", next = joins
      PROVE  Fits /\ Leaves
  <2>1. s.read \in Statuses /\ s.pay \in Payments
    BY <1>1, <1>5 DEF Listening
  <2>2. /\ joins.at = "joined" /\ joins.pay = s.pay /\ joins.told = {s.read}
        /\ joins.missed = s.missed /\ joins.read = s.read
    BY <1>1 DEF Socket
  <2>3. joins \in Socket
    BY <1>1, <2>1 DEF Socket
  <2> HIDE DEF joins, s
  <2> QED
    BY <1>5, <2>1, <2>2, <2>3
<1>6. ASSUME NEW p \in Payments, s.at = "connected", Exists(p),
             next = asks(p, payments[p].status)
      PROVE  Fits /\ Leaves
  <2> DEFINE status == payments[p].status
  <2>1. status \in Statuses
    BY <1>6, PaymentType DEF Exists, Row
  <2> HIDE DEF status
  <2>2. asks(p, status) \in Socket
    BY <1>1, <2>1 DEF Socket
  <2>3. /\ asks(p, status).at = "reading" /\ asks(p, status).pay = p
        /\ asks(p, status).read = status /\ asks(p, status).told = s.told
    BY <1>1 DEF Socket
  <2>4. next = asks(p, status)
    BY <1>6 DEF status
  <2> HIDE DEF asks, s
  <2>5. /\ next.at = "reading" /\ next.pay = p /\ next.read = status
        /\ next.told = s.told /\ next \in Socket
    BY <2>2, <2>3, <2>4
  <2>6. status = payments[p].status
    BY DEF status
  <2> QED
    BY <1>6, <2>1, <2>5, <2>6
<1>7. Fits /\ Leaves
  <2> HIDE DEF Fits, Leaves, asks, joins, on
  <2> QED
    BY <1>2, <1>4, <1>5, <1>6
<1> HIDE DEF on, joins, asks
<1>8. SocketsInv'
  BY <1>1, <1>3, <1>7 DEF SocketsInv, GatewayTypeOK
<1> QED
  BY <1>3, <1>7, <1>8

\* A step of the gateway: a call's, which may push, a client's, or one of which
\* clients notice nothing, or that drops them all.
LEMMA GatewayCases ==
  ASSUME [GatewayNext]_gatewayVars
  PROVE  \/ \E c \in Calls : (HttpStep(c) \/ CronStep(c)) /\ Emit(c)
         \/ \E k \in Clients : ClientStep(k) /\ UNCHANGED vars
         \/ UNCHANGED <<payments, calls, sockets>>
         \/ Restart /\ \A k \in Clients : sockets'[k] = Off
BY DEF GatewayNext, gatewayVars, vars, ProviderSettle, Tick, Calls

LEMMA SocketsStep ==
  ASSUME TypeInv, StatusesSaved, SocketsInv, [GatewayNext]_gatewayVars
  PROVE  SocketsInv'
<1>1. ASSUME NEW c \in Calls, HttpStep(c) \/ CronStep(c), Emit(c)
      PROVE  SocketsInv'
  BY <1>1, PushedStatuses, EmitType
<1>2. ASSUME NEW k \in Clients, ClientStep(k)
      PROVE  SocketsInv'
  BY <1>2, ClientGoes
<1>3. CASE UNCHANGED <<payments, calls, sockets>>
  BY <1>3 DEF SocketsInv, GatewayTypeOK
<1>4. CASE Restart /\ sockets' = [k \in Clients |-> Off]
  <2>1. Off \in Socket /\ Off.at = "off"
    BY DEF Off, Socket
  <2> QED
    BY <1>4, <2>1 DEF SocketsInv, GatewayTypeOK, Listening
<1> QED
  BY <1>1, <1>2, <1>3, <1>4
     DEF GatewayNext, gatewayVars, vars, ProviderSettle, Tick, Calls

LEMMA GatewayInitially ==
  ASSUME GatewayInit
  PROVE  /\ SocketsInv /\ StatusesSaved
         /\ \A k \in Clients : sockets[k] = Off
<1>1. /\ Off \in Socket /\ Off.at = "off" /\ IdleCall.at = "idle"
  BY DEF Off, Socket, IdleCall
<1> QED
  BY <1>1 DEF GatewayInit, Init, SocketsInv, GatewayTypeOK, Listening,
              StatusesSaved, SavesStatus

LEMMA SocketsAlways == GatewaySpec => [](TypeInv /\ StatusesSaved /\ SocketsInv)
<1>1. TypeInv /\ StatusesSaved /\ [Next]_vars => StatusesSaved'
  BY StatusesSavedStep
<1>2. TypeInv /\ StatusesSaved /\ SocketsInv /\ [GatewayNext]_gatewayVars => SocketsInv'
  BY SocketsStep
<1>3. GatewayInit => SocketsInv /\ StatusesSaved
  BY GatewayInitially
<1> QED
  BY <1>1, <1>2, <1>3, GatewayWatches, GatewayImplements, TypeInvAlways, PTL
     DEF GatewaySpec

\* Sockets are sockets, and what clients are told are statuses.
THEOREM GatewayTypeCorrect == GatewaySpec => []GatewayTypeOK
<1>1. SocketsInv => GatewayTypeOK
  BY DEF SocketsInv
<1> QED
  BY <1>1, SocketsAlways, PTL

(***************************************************************************)
(* No update is lost but in the gap.                                       *)
(***************************************************************************)

\* What the client knows, or is going to be told when it has joined.
Known(k) ==
  IF sockets[k].at = "joined" THEN sockets[k].told ELSE {sockets[k].read}

\* Some call has moved the payment to its status and is about to push it.
OnItsWay(p) ==
  \E c \in Calls : /\ calls[c].at = "log_applied"
                   /\ calls[c].pay = p
                   /\ calls[c].snap.status = payments[p].status

\* OnlyTheGapLosesUpdates is not inductive: the update may be on its way, to a
\* client that has not joined yet.
UpdatesReach ==
  \A k \in Clients :
    LET p == sockets[k].pay IN
    /\ sockets[k].at \in Listening
    /\ ~sockets[k].missed
    /\ ~Open(p)
    => payments[p].status \in Known(k) \/ OnItsWay(p)

\* The step of a call tells those who listen, or is going to.
LEMMA CallReaches ==
  ASSUME TypeInv, ReferenceInv, StatusesSaved, SocketsInv, UpdatesReach,
         NEW c \in Calls, HttpStep(c) \/ CronStep(c), Emit(c)
  PROVE  UpdatesReach'
<1> SUFFICES ASSUME NEW k \in Clients, NEW p, p = sockets'[k].pay,
                    sockets'[k].at \in Listening, ~sockets'[k].missed,
                    payments'[p].status \notin OpenStatuses
             PROVE  payments'[p].status \in Known(k)' \/ OnItsWay(p)'
  BY DEF UpdatesReach, Open
<1>1. /\ sockets[k].at \in Listening /\ sockets[k].pay = p /\ p \in Payments
      /\ ~sockets[k].missed
  BY EmitTo DEF SocketsInv
<1>2. calls[c].pay = p =>
        Known(k)' = Known(k) \cup Pushed(c)
  <2>1. CASE sockets[k].at = "joined"
    BY <1>1, <2>1, EmitTo DEF Known
  <2>2. CASE sockets[k].at # "joined"
    BY <1>1, <2>2, EmitTo DEF Known
  <2> QED
    BY <2>1, <2>2
<1>3. Known(k) \subseteq Known(k)'
  BY EmitTo DEF Known
<1>4. \A d \in Calls : d # c => calls'[d] = calls[d]
  BY StepOfCall, CallMoves
<1>5. CASE payments'[p].status # payments[p].status
  BY <1>1, <1>2, <1>5, ChangesArePushed DEF OnItsWay
<1>6. CASE payments'[p].status = payments[p].status
  <2>1. payments[p].status \in Known(k) \/ OnItsWay(p)
    BY <1>1, <1>6 DEF UpdatesReach, Open
  <2>2. CASE OnItsWay(p)
    <3>1. PICK d \in Calls : /\ calls[d].at = "log_applied" /\ calls[d].pay = p
                             /\ calls[d].snap.status = payments[p].status
      BY <2>2 DEF OnItsWay
    <3>2. CASE d = c
      <4>1. Pushed(c) = {payments[p].status}
        BY <3>1, <3>2 DEF Pushed, Pushes
      <4> QED
        BY <1>2, <1>6, <3>1, <3>2, <4>1
    <3>3. CASE d # c
      BY <1>4, <1>6, <3>1, <3>3 DEF OnItsWay
    <3> QED
      BY <3>2, <3>3
  <2> QED
    BY <1>3, <1>6, <2>1, <2>2
<1> QED
  BY <1>5, <1>6

LEMMA UpdatesReachStep ==
  ASSUME TypeInv, ReferenceInv, StatusesSaved, SocketsInv, UpdatesReach,
         [GatewayNext]_gatewayVars
  PROVE  UpdatesReach'
<1>1. ASSUME NEW k \in Clients, ClientStep(k), UNCHANGED vars
      PROVE  UpdatesReach'
  <2> SUFFICES ASSUME NEW j \in Clients, NEW p, p = sockets'[j].pay,
                      sockets'[j].at \in Listening, ~sockets'[j].missed,
                      payments'[p].status \notin OpenStatuses
               PROVE  payments'[p].status \in Known(j)' \/ OnItsWay(p)'
    BY DEF UpdatesReach, Open
  <2>1. payments' = payments /\ calls' = calls
    BY <1>1 DEF vars
  <2>2. OnItsWay(p)' <=> OnItsWay(p)
    BY <2>1 DEF OnItsWay
  <2>3. CASE j # k
    <3>1. sockets'[j] = sockets[j]
      BY <1>1, <2>3, ClientGoes
    <3> QED
      BY <2>1, <2>2, <3>1 DEF UpdatesReach, Open, Known
  <2>4. CASE j = k /\ sockets'[k].at = "reading"
    BY <1>1, <2>1, <2>4, ClientGoes DEF Known
  <2>5. CASE j = k /\ sockets'[k].at # "reading"
    <3>1. /\ sockets[k].at = "reading" /\ sockets'[k].at = "joined"
          /\ p = sockets[k].pay /\ sockets'[k].told = {sockets[k].read}
          /\ ~sockets[k].missed
      BY <1>1, <2>5, ClientGoes
    <3>2. payments[p].status \in {sockets[k].read} \/ OnItsWay(p)
      BY <2>1, <3>1 DEF UpdatesReach, Open, Known, Listening
    <3> QED
      BY <2>1, <2>2, <2>5, <3>1, <3>2 DEF Known
  <2> QED
    BY <2>3, <2>4, <2>5
<1>2. CASE UNCHANGED <<payments, calls, sockets>>
  BY <1>2 DEF UpdatesReach, Open, Known, OnItsWay
<1>3. CASE \A k \in Clients : sockets'[k] = Off
  <2>1. Off.at = "off"
    BY DEF Off
  <2> QED
    BY <1>3, <2>1 DEF UpdatesReach, Listening
<1> QED
  BY <1>1, <1>2, <1>3, CallReaches, GatewayCases

\* Whoever listens to a payment that is closed and idle knows its status, unless
\* a push went by between handleSubscribe's read and its join.
THEOREM UpdatesAreNotLost == GatewaySpec => []OnlyTheGapLosesUpdates
<1>1. GatewayInit => UpdatesReach
  <2>1. Off.at = "off"
    BY DEF Off
  <2> QED
    BY <2>1, GatewayInitially DEF UpdatesReach, Listening
<1>2. /\ TypeInv /\ StatusesSaved /\ SocketsInv /\ ReferenceInv /\ UpdatesReach
      /\ [GatewayNext]_gatewayVars
      => UpdatesReach'
  BY UpdatesReachStep
<1>3. UpdatesReach => OnlyTheGapLosesUpdates
  <2>1. ASSUME UpdatesReach, NEW k \in Clients, NEW p, p = sockets[k].pay,
               sockets[k].at = "joined", ~sockets[k].missed, ~Open(p), ~Busy(p)
        PROVE  payments[p].status \in sockets[k].told
    <3>1. payments[p].status \in Known(k) \/ OnItsWay(p)
      BY <2>1 DEF UpdatesReach, Listening
    <3>2. ~OnItsWay(p)
      BY <2>1 DEF OnItsWay, Busy
    <3> QED
      BY <2>1, <3>1, <3>2 DEF Known
  <2> QED
    BY <2>1 DEF OnlyTheGapLosesUpdates
<1> QED
  BY <1>1, <1>2, <1>3, SocketsAlways, GatewayImplements, ReferenceInvAlways, PTL
     DEF GatewaySpec

(***************************************************************************)
(* While webhooks and verify-on-return calls are all that works on         *)
(* payments, what is pushed is so.                                         *)
(***************************************************************************)

\* The statuses that payments get then.
ClientStatuses ==
  \A p \in Payments :
    payments[p].status \in {"ABSENT"} \cup OpenStatuses \cup TerminalStatuses

\* A payment that was closed has the provider's verdict.
FoundInv == Issued /\ VerdictFound /\ ClientStatuses

LEMMA FoundInvStep ==
  ASSUME TypeInv, RefundInv, ReferenceInv, VerdictInv, OrderInv, FoundInv,
         Operations \subseteq ClientOperations, [Next]_vars
  PROVE  FoundInv'
<1>1. Issued' /\ VerdictFound'
  BY IssuedStep, FoundStep DEF FoundInv
<1>2. ASSUME NEW p \in Payments
      PROVE  payments'[p].status \in {"ABSENT"} \cup OpenStatuses \cup TerminalStatuses
  <2>1. CASE payments'[p].status = payments[p].status
    BY <2>1 DEF FoundInv, ClientStatuses
  <2>2. CASE payments'[p].status # payments[p].status
    BY <2>2, ClientsWrite DEF FoundInv, vars, Moved, TerminalStatuses
  <2> QED
    BY <2>1, <2>2
<1> QED
  BY <1>1, <1>2 DEF FoundInv, ClientStatuses

\* Nobody saves a verdict and is refused: a closed payment does not meet the
\* unique index of open ones.
LEMMA VerdictsAreSaved ==
  ASSUME TypeInv, ReferenceInv, FoundInv, Operations \subseteq ClientOperations,
         NEW c \in Calls, SaveSelect(c) \/ SaveUpdate(c), calls[c].op # "initiate"
  PROVE  ~SaveReturned(calls[c], calls'[c])
<1>1. /\ calls[c] \in Call /\ calls[c].at \in {"save", "flush"}
      /\ calls[c].pay \in Payments /\ payments[calls[c].pay] \in Row
      /\ calls[c].snap \in Row /\ calls[c].dirty \in SUBSET Columns
      /\ Grounded(calls[c], Referenced, Closed, decisions, events)
  BY CallType, CallGround, PaymentType
     DEF SaveSelect, SaveUpdate, Suspended, Working, Labels
<1>2. calls[c].op \in {"webhook", "verify_return"}
  BY <1>1 DEF Grounded, FitsCode, Saving, Applying, Asking, Polling,
              FoundInv, Issued, ClientOperations
<1>3. calls[c].snap.status \in Moved /\ calls[c].snap.ref
  BY <1>1, <1>2 DEF Grounded, HasItsWord, Implied, Moved
<1> DEFINE logs == [calls[c] EXCEPT !.at = "log_applied", !.dirty = {}]
           flush == [calls[c] EXCEPT !.at = "flush",
                       !.dirty = Changed(payments[calls[c].pay], calls[c].snap)]
           row == Written(payments[calls[c].pay], calls[c].snap, calls[c].dirty)
<1>4. AfterSave(calls[c]) = logs
  BY <1>2, <1>3 DEF AfterSave, Moved
<1>5. logs.at = "log_applied" /\ flush.at = "flush"
  BY <1>1 DEF Call
<1>6. row.status = IF "status" \in calls[c].dirty
                   THEN calls[c].snap.status ELSE payments[calls[c].pay].status
  BY <1>1, WrittenType
<1>7. SaveUpdate(c) => ~BookingTaken(calls[c].pay, row)
  <2> SUFFICES ASSUME SaveUpdate(c)
               PROVE  row.status \notin OpenStatuses
    BY DEF BookingTaken
  <2>1. calls[c].at = "flush"
    BY DEF SaveUpdate, Suspended
  <2>2. CASE "status" \in calls[c].dirty
    BY <1>3, <1>6, <2>2 DEF Moved, OpenStatuses
  <2>3. CASE "status" \notin calls[c].dirty
    <3>1. calls[c].pay \in Closed
      BY <1>1, <1>2, <1>3, <2>1, <2>3 DEF Grounded, SavesClosed
    <3> QED
      BY <1>6, <2>3, <3>1 DEF Closed, Open
  <2> QED
    BY <2>2, <2>3
<1>8. GoTo(c, logs) \/ GoTo(c, flush)
  <2>1. SaveUpdate(c) => GoTo(c, AfterSave(calls[c])) \/ BookingTaken(calls[c].pay, row)
    BY DEF SaveUpdate
  <2>2. SaveSelect(c) => GoTo(c, AfterSave(calls[c])) \/ GoTo(c, flush)
    BY DEF SaveSelect
  <2> QED
    BY <1>4, <1>7, <2>1, <2>2
<1>9. calls'[c].at \in {"log_applied", "flush"}
  <2> HIDE DEF logs, flush
  <2> QED
    BY <1>5, <1>8 DEF GoTo, TypeInv, TypeOK
<1> QED
  BY <1>9 DEF SaveReturned

\* Nothing closed is pushed that the payment is not.
LEMMA PushedIsSo ==
  ASSUME TypeInv, ReferenceInv, VerdictInv, StatusesSaved, FoundInv,
         Operations \subseteq ClientOperations, NEW c \in Calls,
         HttpStep(c) \/ CronStep(c), NEW s \in Pushed(c)
  PROVE  LET p == calls[c].pay IN s \in Moved /\ payments'[p].status = s
<1>1. Grounded(calls[c], Referenced, Closed, decisions, events)
  BY CallGround
<1>2. CASE calls[c].at = "log_applied"
  <2>1. s = calls[c].snap.status /\ s \in Moved
    BY <1>2 DEF Pushed, StatusesSaved, SavesStatus
  <2>2. calls[c].pay \in Closed
    BY <1>1, <1>2 DEF Grounded, HasSeen
  <2>3. payments[calls[c].pay].status \in TerminalStatuses
    BY <2>2 DEF Closed, Settled, Exists, Open, FoundInv, ClientStatuses
  <2>4. /\ payments[calls[c].pay].status \in Moved
        /\ charge[calls[c].pay] = VerdictOf(payments[calls[c].pay].status)
    BY <2>2, <2>3 DEF FoundInv, VerdictFound, Closed
  <2>5. charge[calls[c].pay] = VerdictOf(s)
    BY <1>2, <2>1 DEF VerdictInv, CallsHonest, Honest, Reported
  <2>6. payments' = payments
    BY <1>2, StepAt DEF LogApplied
  <2> QED
    BY <2>1, <2>4, <2>5, <2>6 DEF VerdictOf, Moved
<1>3. CASE calls[c].at = "refund_commit"
  BY <1>1, <1>3 DEF Grounded, FitsCode, FoundInv, Issued, ClientOperations
<1>4. CASE calls[c].at \notin {"log_applied", "refund_commit"}
  <2>1. SaveReturned(calls[c], calls'[c])
    BY <1>4 DEF Pushed
  <2>2. calls[c].at \in {"save", "flush"} /\ calls[c].op # "initiate"
    BY <2>1 DEF SaveReturned
  <2> QED
    BY <2>1, <2>2, StepAt, VerdictsAreSaved
<1> QED
  BY <1>2, <1>3, <1>4

\* Whoever knows a payment to be closed knows what it is.  Nobody is told
\* before having joined.
ToldTruly ==
  \A k \in Clients :
    /\ sockets[k].at # "joined" => sockets[k].told = {}
    /\ sockets[k].at \in Listening =>
         \A s \in Known(k) \ OpenStatuses :
           s \in Moved /\ payments[sockets[k].pay].status = s

LEMMA ToldTrulyStep ==
  ASSUME TypeInv, RefundInv, ReferenceInv, VerdictInv, OrderInv, StatusesSaved,
         SocketsInv, FoundInv, ToldTruly, Operations \subseteq ClientOperations,
         [GatewayNext]_gatewayVars
  PROVE  ToldTruly'
<1>0. \A p \in Payments : payments[p].status \in Moved =>
        payments'[p].status = payments[p].status
  BY FoundStep, GatewayWatches DEF FoundInv, Moved, TerminalStatuses
<1>1. ASSUME NEW c \in Calls, HttpStep(c) \/ CronStep(c), Emit(c)
      PROVE  ToldTruly'
  <2>1. ASSUME NEW k \in Clients
        PROVE  sockets'[k].at # "joined" => sockets'[k].told = {}
    BY <1>1, EmitTo DEF ToldTruly
  <2>2. ASSUME NEW k \in Clients, NEW p, p = sockets'[k].pay,
               sockets'[k].at \in Listening, NEW s \in Known(k)' \ OpenStatuses
        PROVE  s \in Moved /\ payments'[p].status = s
    <3>1. /\ p = sockets[k].pay /\ p \in Payments
          /\ sockets[k].at \in Listening
      BY <1>1, <2>2, EmitTo DEF SocketsInv
    <3>2. \/ s \in Known(k)
          \/ s \in Pushed(c) /\ calls[c].pay = p
      BY <1>1, <2>2, <3>1, EmitTo DEF Known
    <3>3. CASE s \in Known(k)
      BY <1>0, <2>2, <3>1, <3>3 DEF ToldTruly
    <3>4. CASE s \in Pushed(c) /\ calls[c].pay = p
      BY <1>1, <3>4, PushedIsSo
    <3> QED
      BY <3>2, <3>3, <3>4
  <2> QED
    BY <2>1, <2>2 DEF ToldTruly
<1>2. ASSUME NEW k \in Clients, ClientStep(k), UNCHANGED vars
      PROVE  ToldTruly'
  <2>0. payments' = payments
    BY <1>2 DEF vars
  <2>1. ASSUME NEW j \in Clients
        PROVE  sockets'[j].at # "joined" => sockets'[j].told = {}
    <3>1. CASE j = k
      BY <1>2, <3>1, ClientGoes DEF ToldTruly
    <3>2. CASE j # k
      BY <1>2, <3>2, ClientGoes DEF ToldTruly
    <3> QED
      BY <3>1, <3>2
  <2>2. ASSUME NEW j \in Clients, NEW p, p = sockets'[j].pay,
               sockets'[j].at \in Listening, NEW s \in Known(j)' \ OpenStatuses
        PROVE  s \in Moved /\ payments'[p].status = s
    <3>1. CASE j # k
      <4>1. sockets'[j] = sockets[j]
        BY <1>2, <3>1, ClientGoes
      <4> QED
        BY <2>0, <2>2, <4>1 DEF ToldTruly, Known
    <3>2. CASE j = k /\ sockets'[k].at = "reading"
      <4>1. /\ p \in Payments /\ s = payments[p].status /\ s \in Statuses
        BY <1>2, <2>2, <3>2, ClientGoes DEF Known
      <4>2. s \in TerminalStatuses
        BY <2>2, <4>1 DEF FoundInv, ClientStatuses, Statuses
      <4> QED
        BY <2>0, <4>1, <4>2 DEF FoundInv, VerdictFound
    <3>3. CASE j = k /\ sockets'[k].at # "reading"
      <4>1. /\ sockets[k].at = "reading" /\ sockets'[k].at = "joined"
            /\ p = sockets[k].pay /\ sockets'[k].told = {sockets[k].read}
        BY <1>2, <2>2, <3>3, ClientGoes
      <4>2. s = sockets[k].read /\ s \in Known(k)
        BY <2>2, <3>3, <4>1 DEF Known
      <4> QED
        BY <2>0, <2>2, <4>1, <4>2 DEF ToldTruly, Listening
    <3> QED
      BY <3>1, <3>2, <3>3
  <2> QED
    BY <2>1, <2>2 DEF ToldTruly
<1>3. CASE UNCHANGED <<payments, calls, sockets>>
  BY <1>3 DEF ToldTruly, Known
<1>4. CASE \A k \in Clients : sockets'[k] = Off
  <2>1. Off.at = "off" /\ Off.told = {}
    BY DEF Off
  <2> QED
    BY <1>4, <2>1 DEF ToldTruly, Listening
<1> QED
  BY <1>1, <1>2, <1>3, <1>4, GatewayCases

\* While webhooks and verify-on-return calls are all that works on payments, a
\* client that was told of a verdict was not told too early or the wrong one.
THEOREM ToldIsSo ==
  ASSUME Operations \subseteq ClientOperations
  PROVE  GatewaySpec => []ToldVerdictStands
<1>1. GatewayInit => FoundInv /\ ToldTruly
  <2>1. NoRow.status = "ABSENT" /\ Off.at = "off" /\ Off.told = {}
    BY DEF NoRow, NewRow, Off
  <2>2. Init => FoundInv
    BY <2>1 DEF Init, FoundInv, Issued, IdleCall, VerdictFound, ClientStatuses,
                TerminalStatuses
  <2>3. GatewayInit => ToldTruly
    BY <2>1, GatewayInitially DEF ToldTruly, Listening
  <2> QED
    BY <2>2, <2>3 DEF GatewayInit
<1>2. /\ TypeInv /\ RefundInv /\ ReferenceInv /\ VerdictInv /\ OrderInv
      /\ FoundInv /\ [Next]_vars
      => FoundInv'
  BY FoundInvStep
<1>3. /\ TypeInv /\ RefundInv /\ ReferenceInv /\ VerdictInv /\ OrderInv
      /\ StatusesSaved /\ SocketsInv /\ FoundInv /\ ToldTruly
      /\ [GatewayNext]_gatewayVars
      => ToldTruly'
  BY ToldTrulyStep
<1>4. ToldTruly => ToldVerdictStands
  BY DEF ToldTruly, ToldVerdictStands, Known, Listening
<1> QED
  BY <1>1, <1>2, <1>3, <1>4, SocketsAlways, GatewayWatches, GatewayImplements,
     RefundInvAlways, ReferenceInvAlways, VerdictInvAlways, PTL
     DEF GatewaySpec
==============================================================================
