--------------------------- MODULE ReferenceProofs ---------------------------
(***************************************************************************)
(* A payment that awaits confirmation has its provider reference, a payment*)
(* that reconciliation counts as resolved is closed, a moved payment is    *)
(* audited, an acknowledged webhook is logged, an escalation has its       *)
(* answer, and without passes and administrators the first verdict stands: *)
(* proved for every instance.                                              *)
(*                                                                         *)
(* The argument is about what lasts.  Once no initiate() works on a payment*)
(* any more, nothing opens it again; once such a payment had a reference,  *)
(* it keeps it or is closed, although stale saves may erase the reference. *)
(* So whoever has seen a reference, in a row, an entity or a batch, may    *)
(* rely on that for as long as it runs.                                    *)
(***************************************************************************)
EXTENDS VerdictProofs

(***************************************************************************)
(* The invariant.                                                          *)
(***************************************************************************)

\* initiate() has inserted its row and is not through with it.
Initiating(call) ==
  call.op = "initiate" /\ call.at \in {"rail_initiate", "save", "flush"}

Settled(p) ==
  Exists(p) /\ \A c \in Calls : Initiating(calls[c]) => calls[c].pay # p

\* Payments that no initiate() works on and that had a reference: they keep it
\* or are closed.
Referenced == {p \in Payments : Settled(p) /\ (payments[p].ref \/ ~Open(p))}

Closed == {p \in Payments : Settled(p) /\ ~Open(p)}

Moved == {"CONFIRMED", "FAILED"}

Polling == {"cron", "force"}
Asking == {"verify_return"} \cup Polling
Applying == {"webhook"} \cup Asking
Saving == Applying \cup {"initiate", "resolve", "void"}

\* Which operations get where.
FitsCode(call) ==
  /\ call.at \in {"check_booking", "insert", "read_winner", "rail_initiate"}
       => call.op = "initiate"
  /\ call.at = "verify" => call.op \in Asking
  /\ call.at \in {"apply", "log", "log_applied"} => call.op \in Applying
  /\ call.at \in {"after_apply", "record", "escalate"} => call.op \in Polling
  /\ call.at \in {"save", "flush"} => call.op \in Saving
  /\ call.at \in {"sweep", "poll"} => call.op = "cron"
  /\ call.at \in {"refund_sum", "refund_commit", "refund_provider"}
       => call.op = "refund"

\* The entity that initiate() saves brings the reference.
BringsReference(call) ==
  /\ call.op = "initiate"
  /\ call.at \in {"save", "flush"}
  => /\ call.snap.status = "AWAITING_CONFIRMATION"
     /\ call.snap.ref
     /\ call.at = "flush" => "ref" \in call.dirty

\* Everybody else saves a closed entity; if the UPDATE leaves the status alone
\* and there was a reference to see, the payment is closed already.
SavesClosed(call, referenced, closed) ==
  /\ call.op # "initiate"
  /\ call.at \in {"save", "flush"}
  => /\ call.snap.status \notin OpenStatuses
     /\ call.snap.ref => call.pay \in referenced
     /\ /\ call.at = "flush"
        /\ "status" \notin call.dirty
        /\ call.snap.ref \/ "ref" \in call.dirty
        => call.pay \in closed

\* Whose word an entity that is going to be saved repeats.
HasItsWord(call, decided) ==
  /\ call.op # "initiate"
  /\ call.at \in {"save", "flush"}
  => /\ call.op \in {"resolve", "void"} =>
          (call.snap.status \in Moved => <<call.pay, call.snap.status>> \in decided)
     /\ call.op \notin {"resolve", "void"} =>
          (call.snap.status \in Moved => call.snap.ref)
     /\ call.op \in {"webhook", "verify_return"} =>
          call.arg \in Verdicts /\ call.snap.status = Implied(call.arg)

\* Who has seen the reference of its payment, or has seen the payment closed.
HasSeen(call, referenced, closed) ==
  /\ \A item \in call.batch : item[2].ref => item[1] \in referenced
  /\ call.at = "verify" /\ call.given.ref => call.pay \in referenced
  /\ call.at = "apply" => call.arg \in Outcomes
  /\ call.at = "apply" /\ call.op # "webhook" =>
       call.arg \in Verdicts /\ call.pay \in referenced
  /\ call.at = "log" /\ call.op # "webhook" => call.pay \in closed
  /\ call.at \in {"log_applied", "after_apply"} => call.pay \in closed

\* The audit entry of an acknowledged webhook.
Logged(call, e) ==
  /\ e.source = "WEBHOOK"
  /\ \/ e.anomaly = "payment_not_found"
     \/ /\ e.pay = call.pay
        /\ \/ call.arg = "pending"
           \/ e.status = Implied(call.arg)
           \/ e.anomaly = "conflicting_event"

\* What a webhook is going to log, and has logged.
GetsLogged(call, logged) ==
  call.op = "webhook" =>
    /\ call.at = "log" => \/ call.snap = NoRow
                          \/ call.arg = "pending"
                          \/ IsTerminal(call.snap)
    /\ call.at = "log_applied" => call.snap.status = Implied(call.arg)
    /\ call.at = "done" /\ call.arg \in Outcomes =>
         \E e \in logged : Logged(call, e)

Grounded(call, referenced, closed, decided, logged) ==
  /\ FitsCode(call)
  /\ BringsReference(call)
  /\ SavesClosed(call, referenced, closed)
  /\ HasItsWord(call, decided)
  /\ HasSeen(call, referenced, closed)
  /\ GetsLogged(call, logged)

CallsGrounded ==
  \A c \in Calls : Grounded(calls[c], Referenced, Closed, decisions, events)

\* One initiate() works on a payment, and on one that exists.
OneInitiates ==
  /\ \A c \in Calls : Initiating(calls[c]) => Exists(calls[c].pay)
  /\ \A c, d \in Calls :
       /\ Initiating(calls[c])
       /\ Initiating(calls[d])
       /\ calls[c].pay = calls[d].pay
       => c = d

ReferenceSettles == \A p \in Payments : payments[p].ref => Settled(p)

ReferenceInv ==
  /\ OneInitiates
  /\ ReferenceSettles
  /\ AwaitingHasReference
  /\ CallsGrounded

\* A payment that was moved has its audit event, or a call that writes it.
MoveIsAudited ==
  \A p \in Payments :
    /\ payments[p].status \in Moved
    /\ \A s \in Statuses : <<p, s>> \notin decisions
    /\ restarts = 0
    => \/ \E e \in events : e.pay = p /\ e.applied /\ e.status = payments[p].status
       \/ \E c \in Calls : /\ calls[c].at = "log_applied"
                           /\ calls[c].pay = p
                           /\ calls[c].snap.status = payments[p].status

(***************************************************************************)
(* Where calls go on to.                                                   *)
(***************************************************************************)

SeenInBatch(call, referenced) ==
  \A item \in call.batch : item[2].ref => item[1] \in referenced

\* A call that neither saves nor applies nor answers claims little.
LEMMA QuietIsGrounded ==
  ASSUME NEW call, NEW referenced, NEW closed, NEW decided, NEW logged,
         call.at \notin {"save", "flush", "verify", "apply", "log",
                         "log_applied", "after_apply", "done"},
         FitsCode(call), SeenInBatch(call, referenced)
  PROVE  Grounded(call, referenced, closed, decided, logged)
BY DEF Grounded, BringsReference, SavesClosed, HasItsWord, HasSeen, GetsLogged,
       SeenInBatch

\* What is left of a call that answers.
LEMMA DoneFields ==
  ASSUME NEW call, NEW result
  PROVE  /\ Done(call, result).at = "done" /\ Done(call, result).op = call.op
         /\ Done(call, result).pay = call.pay /\ Done(call, result).arg = result
         /\ Done(call, result).batch = {}
<1> DEFINE answer == [NewCall(call.op, call.pay) EXCEPT !.at = "done", !.arg = result]
           full == [answer EXCEPT !.given = call.given, !.snap = call.snap]
<1>1. /\ answer.at = "done" /\ answer.op = call.op /\ answer.pay = call.pay
      /\ answer.arg = result /\ answer.batch = {}
  BY DEF NewCall, IdleCall
<1>2. /\ full.at = "done" /\ full.op = call.op /\ full.pay = call.pay
      /\ full.arg = result /\ full.batch = {}
  BY DEF NewCall, IdleCall
<1>3. Done(call, result) \in {answer, full}
  BY DEF Done
<1> HIDE DEF answer, full
<1> QED
  BY <1>1, <1>2, <1>3

\* An answered webhook must have been logged; any other answer is free.
LEMMA DoneIsGrounded ==
  ASSUME NEW call, NEW result, NEW referenced, NEW closed, NEW decided, NEW logged,
         call.op = "webhook" /\ result \in Outcomes =>
           \E e \in logged : Logged(Done(call, result), e)
  PROVE  /\ Grounded(Done(call, result), referenced, closed, decided, logged)
         /\ ~Initiating(Done(call, result))
<1> DEFINE next == Done(call, result)
<1>1. /\ next.at = "done" /\ next.op = call.op /\ next.pay = call.pay
      /\ next.arg = result /\ next.batch = {}
  BY DoneFields
<1> HIDE DEF next
<1>2. GetsLogged(next, logged)
  BY <1>1 DEF GetsLogged, next
<1> QED
  BY <1>1, <1>2 DEF Grounded, FitsCode, BringsReference, SavesClosed, HasItsWord,
                    HasSeen, Initiating, next

\* An idle call claims nothing.
LEMMA IdleIsGrounded ==
  ASSUME NEW referenced, NEW closed, NEW decided, NEW logged
  PROVE  /\ Grounded(IdleCall, referenced, closed, decided, logged)
         /\ ~Initiating(IdleCall)
<1>1. IdleCall.at = "idle" /\ IdleCall.batch = {} /\ IdleCall.op = "none"
  BY DEF IdleCall
<1> QED
  BY <1>1, QuietIsGrounded DEF FitsCode, SeenInBatch, Initiating

\* The helpers that end or continue a call leave it grounded.
LEMMA EndsAreGrounded ==
  ASSUME NEW call \in Call, NEW referenced, NEW closed, NEW decided, NEW logged,
         SeenInBatch(call, referenced)
  PROVE  /\ \A result \in {"ok", "error", "conflict"} :
              /\ Grounded(Done(call, result), referenced, closed, decided, logged)
              /\ ~Initiating(Done(call, result))
         /\ Grounded(Thrown(call), referenced, closed, decided, logged)
         /\ ~Initiating(Thrown(call))
         /\ call.op = "cron" => \A label \in {"sweep", "poll"} :
              /\ Grounded(NextItem(call, label), referenced, closed, decided, logged)
              /\ ~Initiating(NextItem(call, label))
         /\ call.op \in Polling =>
              /\ Grounded(AfterItem(call), referenced, closed, decided, logged)
              /\ ~Initiating(AfterItem(call))
<1>1. ASSUME NEW result \in {"ok", "error", "conflict"}
      PROVE  /\ Grounded(Done(call, result), referenced, closed, decided, logged)
             /\ ~Initiating(Done(call, result))
  <2>1. result \notin Outcomes
    BY DEF Outcomes, Verdicts
  <2> QED
    BY <2>1, DoneIsGrounded
<1>2. /\ Grounded(Thrown(call), referenced, closed, decided, logged)
      /\ ~Initiating(Thrown(call))
  BY <1>1, IdleIsGrounded DEF Thrown
<1>3. ASSUME NEW label \in {"sweep", "poll"}, call.op = "cron"
      PROVE  /\ Grounded(NextItem(call, label), referenced, closed, decided, logged)
             /\ ~Initiating(NextItem(call, label))
  <2> DEFINE next == NextItem(call, label)
  <2>1. next.at = label /\ next.batch = call.batch /\ next.op = call.op
    BY DEF NextItem, Call
  <2> HIDE DEF next
  <2>2. Grounded(next, referenced, closed, decided, logged)
    BY <1>3, <2>1, QuietIsGrounded DEF FitsCode, SeenInBatch
  <2> QED
    BY <2>1, <2>2 DEF Initiating, next
<1>4. ASSUME call.op \in Polling
      PROVE  /\ Grounded(AfterItem(call), referenced, closed, decided, logged)
             /\ ~Initiating(AfterItem(call))
  BY <1>1, <1>3, <1>4 DEF AfterItem, Polling
<1> QED
  BY <1>1, <1>2, <1>3, <1>4

\* What somebody other than initiate() takes to its save().
LEMMA SavingIsGrounded ==
  ASSUME NEW call, NEW referenced, NEW closed, NEW decided, NEW logged,
         call.at = "save", call.op \in Saving \ {"initiate"},
         call.snap.status \notin OpenStatuses,
         call.snap.ref => call.pay \in referenced,
         HasItsWord(call, decided), SeenInBatch(call, referenced)
  PROVE  /\ Grounded(call, referenced, closed, decided, logged)
         /\ ~Initiating(call)
BY DEF Grounded, FitsCode, BringsReference, SavesClosed, HasSeen, GetsLogged,
       SeenInBatch, Initiating

\* A call stays grounded when more payments have settled and more is written.
LEMMA GroundedStands ==
  ASSUME NEW call, NEW referenced, NEW closed, NEW decided, NEW logged,
         NEW referenced2, NEW closed2, NEW decided2, NEW logged2,
         referenced \subseteq referenced2, closed \subseteq closed2,
         decided \subseteq decided2, logged \subseteq logged2,
         Grounded(call, referenced, closed, decided, logged)
  PROVE  Grounded(call, referenced2, closed2, decided2, logged2)
<1>1. SavesClosed(call, referenced2, closed2)
  BY DEF Grounded, SavesClosed
<1>2. HasItsWord(call, decided2)
  BY DEF Grounded, HasItsWord
<1>3. HasSeen(call, referenced2, closed2)
  BY DEF Grounded, HasSeen
<1>4. GetsLogged(call, logged2)
  BY DEF Grounded, GetsLogged
<1> QED
  BY <1>1, <1>2, <1>3, <1>4 DEF Grounded

\* The call goes on grounded, and no initiate() appears from nowhere.
Continues(c) ==
  \E call : /\ GoTo(c, call)
            /\ Grounded(call, Referenced, Closed, decisions', events')
            /\ Initiating(call) =>
                 Initiating(calls[c]) /\ call.pay = calls[c].pay

\* What ReferenceInv says of one call.
LEMMA CallGround ==
  ASSUME TypeInv, ReferenceInv, NEW c \in Calls
  PROVE  /\ calls[c] \in Call
         /\ Grounded(calls[c], Referenced, Closed, decisions, events)
         /\ SeenInBatch(calls[c], Referenced)
         /\ Initiating(calls[c]) => calls[c].pay \in Payments
BY CallType DEF ReferenceInv, CallsGrounded, Grounded, HasSeen, SeenInBatch,
                Initiating, Working, Labels

\* What it says of the reference of one row.
LEMMA RowGround ==
  ASSUME ReferenceInv, NEW p \in Payments
  PROVE  /\ payments[p].ref => p \in Referenced
         /\ p \in Referenced /\ ~Open(p) => p \in Closed
         /\ p \in Closed <=> p \in Referenced /\ ~Open(p)
         /\ p \in Referenced /\ ~payments[p].ref => p \in Closed
BY DEF ReferenceInv, ReferenceSettles, Referenced, Closed

\* A call that ends here continues.
LEMMA EndsContinue ==
  ASSUME TypeInv, ReferenceInv, NEW c \in Calls,
         \/ GoTo(c, IdleCall) \/ GoTo(c, Thrown(calls[c]))
         \/ calls[c].op \in Polling /\ GoTo(c, AfterItem(calls[c]))
         \/ \E result \in {"ok", "error", "conflict"} : GoTo(c, Done(calls[c], result))
         \/ /\ calls[c].op = "cron"
            /\ \E label \in {"sweep", "poll"} : GoTo(c, NextItem(calls[c], label))
  PROVE  Continues(c)
BY CallGround, EndsAreGrounded, IdleIsGrounded DEF Continues

\* A call that only moves on to a label at which it claims nothing continues.
LEMMA QuietContinues ==
  ASSUME TypeInv, ReferenceInv, NEW c \in Calls, NEW call, GoTo(c, call),
         call.at \notin {"save", "flush", "verify", "apply", "log", "log_applied",
                         "after_apply", "done", "rail_initiate"},
         FitsCode(call), SeenInBatch(call, Referenced)
  PROVE  Continues(c)
BY QuietIsGrounded DEF Continues, Initiating

\* A step of initiate() other than a successful INSERT.
LEMMA InitiateContinues ==
  ASSUME TypeInv, ReferenceInv, NEW c \in Calls,
         \/ InitiateStart(c) \/ CheckBooking(c) \/ ReadWinner(c) \/ RailInitiate(c)
         \/ InsertPayment(c) /\ UNCHANGED payments
  PROVE  Continues(c)
<1>0. /\ calls[c] \in Call /\ calls[c].snap \in Row
      /\ Grounded(calls[c], Referenced, Closed, decisions, events)
      /\ SeenInBatch(calls[c], Referenced)
  BY CallType, CallGround
<1>1. CASE InitiateStart(c)
  <2>1. PICK req \in Requests :
          LET p == req.key
              call == [NewCall("initiate", p) EXCEPT !.given = NewRow(req, now)]
          IN GoTo(c, IF ~Exists(p) THEN At(call, "check_booking")
                     ELSE IF SamePayload(payments[p], req)
                          THEN Done([call EXCEPT !.snap = payments[p]], "ok")
                          ELSE Done(call, "conflict"))
    BY <1>1 DEF InitiateStart
  <2> DEFINE first == [NewCall("initiate", req.key) EXCEPT !.given = NewRow(req, now)]
             found == [first EXCEPT !.snap = payments[req.key]]
             next == At(first, "check_booking")
  <2>2. \/ GoTo(c, next) \/ GoTo(c, Done(found, "ok"))
        \/ GoTo(c, Done(first, "conflict"))
    BY <2>1
  <2>3. /\ next.at = "check_booking" /\ next.op = "initiate" /\ next.batch = {}
        /\ found.op = "initiate" /\ first.op = "initiate"
    BY DEF At, NewCall, IdleCall
  <2> HIDE DEF first, found, next
  <2>4. FitsCode(next) /\ SeenInBatch(next, Referenced)
    BY <2>3 DEF FitsCode, SeenInBatch
  <2>5. GoTo(c, next) => Continues(c)
    BY <2>3, <2>4, QuietContinues
  <2> QED
    BY <2>2, <2>3, <2>5, DoneIsGrounded DEF Continues
<1>2. CASE CheckBooking(c)
  <2> DEFINE next == At(calls[c], "insert")
  <2>1. GoTo(c, Done(calls[c], "conflict")) \/ GoTo(c, next)
    BY <1>2 DEF CheckBooking
  <2>2. next.at = "insert" /\ next.op = calls[c].op /\ next.batch = calls[c].batch
    BY <1>0 DEF At, Call
  <2> HIDE DEF next
  <2>3. calls[c].op = "initiate"
    BY <1>0, <1>2 DEF Grounded, FitsCode, CheckBooking, Suspended
  <2>4. FitsCode(next) /\ SeenInBatch(next, Referenced)
    BY <1>0, <2>2, <2>3 DEF FitsCode, SeenInBatch
  <2>5. GoTo(c, next) => Continues(c)
    BY <2>2, <2>4, QuietContinues
  <2> QED
    BY <2>1, <2>5, EndsContinue
<1>3. CASE ReadWinner(c)
  <2> DEFINE found == [calls[c] EXCEPT !.snap = payments[calls[c].pay]]
  <2>1. GoTo(c, Done(found, "ok"))
    BY <1>3 DEF ReadWinner
  <2> HIDE DEF found
  <2>2. "ok" \notin Outcomes
    BY DEF Outcomes, Verdicts
  <2> QED
    BY <2>1, <2>2, DoneIsGrounded DEF Continues
<1>4. CASE RailInitiate(c)
  <2> DEFINE row == AwaitingConfirmation(calls[c].snap)
             next == [calls[c] EXCEPT !.at = "save", !.snap = row]
  <2>1. row.status = "AWAITING_CONFIRMATION" /\ row.ref
    BY <1>0 DEF AwaitingConfirmation, Row
  <2>2. /\ next.at = "save" /\ next.snap = row /\ next.batch = calls[c].batch
        /\ next.pay = calls[c].pay /\ next.op = calls[c].op
    BY <1>0 DEF Call
  <2>3. calls[c].op = "initiate" /\ Initiating(calls[c])
    BY <1>0, <1>4 DEF Grounded, FitsCode, RailInitiate, Suspended, Initiating
  <2>4. GoTo(c, next) \/ GoTo(c, Done(calls[c], "error"))
    BY <1>4 DEF RailInitiate
  <2> HIDE DEF next, row
  <2>5. Grounded(next, Referenced, Closed, decisions', events')
    BY <1>0, <2>1, <2>2, <2>3 DEF Grounded, FitsCode, Saving, BringsReference,
       SavesClosed, HasItsWord, HasSeen, GetsLogged, SeenInBatch
  <2> QED
    BY <2>2, <2>3, <2>4, <2>5, EndsContinue DEF Continues
<1>5. CASE InsertPayment(c) /\ UNCHANGED payments
  <2> DEFINE next == At(calls[c], "read_winner")
  <2>1. GoTo(c, next) \/ GoTo(c, Done(calls[c], "conflict"))
    <3>1. CASE /\ ~KeyTaken(calls[c].pay)
               /\ payments' = [payments EXCEPT ![calls[c].pay] =
                                 NewRow(calls[c].given.req, now)]
      <4>1. calls[c].pay \in Payments
        BY <1>5, CallType DEF InsertPayment, Suspended, Working, Labels
      <4>2. payments'[calls[c].pay].status = "INITIATED"
        BY <3>1, <4>1 DEF NewRow, TypeInv, TypeOK
      <4> QED
        BY <1>5, <3>1, <4>1, <4>2 DEF KeyTaken, Exists
    <3> QED
      BY <1>5, <3>1 DEF InsertPayment
  <2>2. next.at = "read_winner" /\ next.op = calls[c].op /\ next.batch = calls[c].batch
    BY <1>0 DEF At, Call
  <2> HIDE DEF next
  <2>3. calls[c].op = "initiate"
    BY <1>0, <1>5 DEF Grounded, FitsCode, InsertPayment, Suspended
  <2>4. FitsCode(next) /\ SeenInBatch(next, Referenced)
    BY <1>0, <2>2, <2>3 DEF FitsCode, SeenInBatch
  <2>5. GoTo(c, next) => Continues(c)
    BY <2>2, <2>4, QuietContinues
  <2> QED
    BY <2>1, <2>5, EndsContinue
<1> QED
  BY <1>1, <1>2, <1>3, <1>4, <1>5

\* A step of a webhook, of a poll's answer or of apply().
LEMMA ConfirmContinues ==
  ASSUME TypeInv, ReferenceInv, NEW c \in Calls, Confirm(c)
  PROVE  Continues(c)
<1> DEFINE call == calls[c]
<1>0. /\ call \in Call
      /\ Grounded(call, Referenced, Closed, decisions, events)
      /\ SeenInBatch(call, Referenced)
  BY CallType, CallGround
<1>1. CASE WebhookReceive(c)
  <2>1. PICK p \in Payments : \E outcome \in Answers(p) :
          GoTo(c, [NewCall("webhook", p) EXCEPT !.at = "apply", !.arg = outcome])
    BY <1>1 DEF WebhookReceive
  <2>2. PICK outcome \in Answers(p) :
          GoTo(c, [NewCall("webhook", p) EXCEPT !.at = "apply", !.arg = outcome])
    BY <2>1
  <2> DEFINE next == [NewCall("webhook", p) EXCEPT !.at = "apply", !.arg = outcome]
  <2>3. /\ next.at = "apply" /\ next.arg = outcome /\ next.op = "webhook"
        /\ next.batch = {}
    BY DEF NewCall, IdleCall
  <2>4. outcome \in Outcomes
    BY <2>2, AnswersType
  <2>5. GoTo(c, next)
    BY <2>2
  <2> HIDE DEF next
  <2>6. Grounded(next, Referenced, Closed, decisions', events')
    BY <2>3, <2>4 DEF Grounded, FitsCode, Applying, BringsReference, SavesClosed,
       HasItsWord, HasSeen, GetsLogged
  <2> QED
    BY <2>3, <2>5, <2>6 DEF Continues, Initiating
<1>2. CASE RejectWebhook(c)
  <2>1. GoTo(c, call)
    BY <1>2 DEF RejectWebhook, GoTo, TypeInv, TypeOK
  <2>2. call.at = "idle"
    BY <1>2 DEF RejectWebhook, Start, Suspended
  <2> QED
    BY <1>0, <2>1, <2>2, QuietContinues DEF FitsCode
<1>3. CASE VerifyReturnStart(c)
  <2>1. PICK p \in Payments :
          LET first == [NewCall("verify_return", p) EXCEPT !.given = payments[p]]
          IN GoTo(c, IF \/ payments[p].status \in TerminalStatuses
                        \/ ~payments[p].ref
                     THEN Done(first, "ok") ELSE At(first, "verify"))
    BY <1>3 DEF VerifyReturnStart
  <2> DEFINE first == [NewCall("verify_return", p) EXCEPT !.given = payments[p]]
             next == At(first, "verify")
  <2>2. /\ next.at = "verify" /\ next.op = "verify_return" /\ next.batch = {}
        /\ next.given = payments[p] /\ next.pay = p
        /\ first.op = "verify_return"
    BY DEF At, NewCall, IdleCall
  <2>3. GoTo(c, next) \/ GoTo(c, Done(first, "ok"))
    BY <2>1
  <2> HIDE DEF first, next
  <2>4. Grounded(next, Referenced, Closed, decisions', events')
    BY <2>2, RowGround DEF Grounded, FitsCode, Asking, BringsReference,
       SavesClosed, HasItsWord, HasSeen, GetsLogged
  <2> QED
    BY <2>2, <2>3, <2>4, DoneIsGrounded DEF Continues, Initiating
<1>4. CASE VerifyAnswer(c)
  <2> DEFINE asked(answer) == [call EXCEPT !.at = "apply", !.arg = answer]
             counted(answer) == [call EXCEPT !.at = "record", !.arg = answer]
             answers == IF call.given.ref THEN Answers(call.pay) ELSE {}
  <2>1. PICK answer \in answers \cup {"error"} :
          GoTo(c, IF IsVerdict(answer) THEN asked(answer)
                  ELSE IF call.op = "verify_return" THEN Done(call, answer)
                  ELSE counted(answer))
    BY <1>4 DEF VerifyAnswer
  <2>2. /\ asked(answer).at = "apply" /\ asked(answer).arg = answer
        /\ asked(answer).pay = call.pay /\ asked(answer).op = call.op
        /\ asked(answer).batch = call.batch
        /\ counted(answer).at = "record" /\ counted(answer).op = call.op
        /\ counted(answer).batch = call.batch
    BY <1>0 DEF Call
  <2>3. \/ IsVerdict(answer) /\ GoTo(c, asked(answer))
        \/ call.op = "verify_return" /\ GoTo(c, Done(call, answer))
        \/ call.op # "verify_return" /\ GoTo(c, counted(answer))
    BY <2>1
  <2>4. call.at = "verify" /\ call.op \in Asking
    BY <1>0, <1>4 DEF VerifyAnswer, Suspended, Grounded, FitsCode
  <2>5. IsVerdict(answer) => answer \in Verdicts /\ call.pay \in Referenced
    BY <1>0, <2>1, <2>4 DEF IsVerdict, Verdicts, Grounded, HasSeen
  <2> HIDE DEF asked, counted, answers, call
  <2>6. IsVerdict(answer) =>
          Grounded(asked(answer), Referenced, Closed, decisions', events')
    BY <1>0, <2>2, <2>4, <2>5
       DEF Grounded, FitsCode, Asking, Applying, Polling, BringsReference,
           SavesClosed, HasItsWord, HasSeen, GetsLogged, SeenInBatch, Outcomes
  <2>7. call.op # "verify_return" => FitsCode(counted(answer))
    BY <2>2, <2>4 DEF FitsCode, Asking
  <2>8. SeenInBatch(counted(answer), Referenced)
    BY <1>0, <2>2 DEF SeenInBatch
  <2> QED
    BY <2>2, <2>3, <2>4, <2>6, <2>7, <2>8, QuietContinues, DoneIsGrounded
       DEF Continues, Initiating, Asking
<1>5. CASE Apply(c)
  <2> DEFINE row == payments[call.pay]
             next == Implied(call.arg)
             entity == [row EXCEPT !.status = next]
             lost == [call EXCEPT !.at = "log", !.snap = NoRow]
             noop == [call EXCEPT !.at = "log", !.snap = row]
             moves == [call EXCEPT !.at = "save", !.snap = entity]
  <2>1. call.pay \in Payments /\ row \in Row /\ call.arg \in Args
    BY <1>5, CallType, PaymentType DEF Apply, Suspended, Working, Labels
  <2>2. /\ call.at = "apply" /\ call.op \in Applying /\ call.arg \in Outcomes
        /\ call.op # "webhook" => call.arg \in Verdicts /\ call.pay \in Referenced
    BY <1>0, <1>5 DEF Apply, Suspended, Grounded, FitsCode, HasSeen
  <2>3. \/ GoTo(c, lost) /\ ~row.ref
        \/ GoTo(c, noop) /\ row.ref /\ ChangesNothing(row, call.arg)
        \/ GoTo(c, Thrown(call))
        \/ GoTo(c, moves) /\ row.ref /\ ~ChangesNothing(row, call.arg)
    BY <1>5 DEF Apply
  <2>4. /\ lost.at = "log" /\ lost.snap = NoRow /\ lost.op = call.op
        /\ lost.pay = call.pay /\ lost.arg = call.arg /\ lost.batch = call.batch
    BY <1>0 DEF Call
  <2>5. /\ noop.at = "log" /\ noop.snap = row /\ noop.op = call.op
        /\ noop.pay = call.pay /\ noop.arg = call.arg /\ noop.batch = call.batch
    BY <1>0 DEF Call
  <2>6. /\ moves.at = "save" /\ moves.snap = entity /\ moves.op = call.op
        /\ moves.pay = call.pay /\ moves.arg = call.arg /\ moves.batch = call.batch
    BY <1>0 DEF Call
  <2>7. entity.status = next /\ entity.ref = row.ref
    BY <2>1 DEF Row
  <2>8. row.ref => call.pay \in Referenced
    BY <2>1, RowGround
  <2>9. ~row.ref /\ call.pay \in Referenced => call.pay \in Closed
    BY <2>1, RowGround
  <2>10. IsTerminal(row) /\ call.pay \in Referenced => call.pay \in Closed
    BY <2>1, RowGround DEF IsTerminal, TerminalStatuses, OpenStatuses, Open
  <2>11. next \in Moved
    BY DEF Implied, Moved
  <2> HIDE DEF entity, moves, row, call, lost, noop
  <2>12. ~row.ref => Grounded(lost, Referenced, Closed, decisions', events')
    BY <1>0, <2>2, <2>4, <2>9
       DEF Grounded, FitsCode, BringsReference, SavesClosed, HasItsWord, HasSeen,
           GetsLogged, SeenInBatch
  <2>13. row.ref /\ ChangesNothing(row, call.arg) =>
           Grounded(noop, Referenced, Closed, decisions', events')
    BY <1>0, <2>2, <2>5, <2>8, <2>10
       DEF Grounded, FitsCode, BringsReference, SavesClosed, HasItsWord, HasSeen,
           GetsLogged, SeenInBatch, ChangesNothing, Verdicts
  <2>14. ASSUME row.ref, ~ChangesNothing(row, call.arg)
         PROVE  Grounded(moves, Referenced, Closed, decisions', events')
    <3>1. call.arg \in Verdicts /\ moves.op \in Saving \ {"initiate"}
      BY <2>2, <2>6, <2>14 DEF ChangesNothing, Outcomes, Saving, Applying, Asking, Polling
    <3>2. HasItsWord(moves, decisions')
      BY <2>2, <2>6, <2>7, <2>14, <3>1 DEF HasItsWord, Applying, Asking, Polling
    <3>3. moves.snap.status \notin OpenStatuses
      BY <2>6, <2>7, <2>11 DEF Moved, OpenStatuses
    <3>4. SeenInBatch(moves, Referenced)
      BY <1>0, <2>6 DEF SeenInBatch
    <3> QED
      BY <2>6, <2>8, <2>14, <3>1, <3>2, <3>3, <3>4, SavingIsGrounded
  <2>15. GoTo(c, Thrown(call)) => Continues(c)
    BY EndsContinue DEF call
  <2> QED
    BY <2>2, <2>3, <2>4, <2>5, <2>6, <2>12, <2>13, <2>14, <2>15
       DEF Continues, Initiating, Applying, Asking, Polling
<1>6. CASE LogNoOp(c)
  <2> DEFINE entry == [pay |-> IF call.snap = NoRow THEN None ELSE call.pay,
                       source |-> Source(call), status |-> call.snap.status,
                       applied |-> FALSE, anomaly |-> Anomaly(call)]
  <2>1. GoTo(c, Applied(call)) /\ entry \in events' /\ call.at = "log"
    BY <1>6 DEF LogNoOp, Suspended
  <2>2. /\ entry.pay = IF call.snap = NoRow THEN None ELSE call.pay
        /\ entry.source = Source(call) /\ entry.status = call.snap.status
        /\ entry.anomaly = Anomaly(call)
    OBVIOUS
  <2> HIDE DEF entry
  <2>3. CASE Applied(call) = Done(call, call.arg)
    <3>1. ASSUME call.op = "webhook", call.arg \in Outcomes
          PROVE  Logged(Done(call, call.arg), entry)
      <4>1. \/ call.snap = NoRow \/ call.arg = "pending" \/ IsTerminal(call.snap)
        BY <1>0, <2>1, <3>1 DEF Grounded, GetsLogged
      <4>2. /\ Done(call, call.arg).pay = call.pay
            /\ Done(call, call.arg).arg = call.arg
        BY DoneFields
      <4>3. entry.source = "WEBHOOK"
        BY <2>2, <3>1 DEF Source
      <4> HIDE DEF call
      <4> QED
        BY <2>2, <3>1, <4>1, <4>2, <4>3 DEF Logged, Anomaly, Outcomes
    <3> QED
      BY <2>1, <2>3, <3>1, DoneIsGrounded DEF Continues
  <2>4. CASE /\ Applied(call) = At(call, "after_apply")
             /\ call.op \notin {"webhook", "verify_return"}
    <3> DEFINE next == At(call, "after_apply")
    <3>1. /\ next.at = "after_apply" /\ next.op = call.op /\ next.pay = call.pay
          /\ next.batch = call.batch
      BY <1>0 DEF At, Call
    <3>2. call.op \in Polling /\ call.pay \in Closed
      BY <1>0, <2>1, <2>4 DEF Grounded, FitsCode, Applying, Asking, HasSeen
    <3>3. GoTo(c, next)
      BY <2>1, <2>4
    <3> HIDE DEF next
    <3>4. Grounded(next, Referenced, Closed, decisions', events')
      BY <1>0, <3>1, <3>2 DEF Grounded, FitsCode, BringsReference, SavesClosed,
         HasItsWord, HasSeen, GetsLogged, SeenInBatch
    <3> QED
      BY <3>1, <3>3, <3>4 DEF Continues, Initiating
  <2> QED
    BY <2>3, <2>4 DEF Applied
<1>7. CASE LogApplied(c)
  <2> DEFINE entry == [pay |-> call.pay, source |-> Source(call),
                       status |-> call.snap.status, applied |-> TRUE,
                       anomaly |-> "none"]
  <2>1. GoTo(c, Applied(call)) /\ entry \in events' /\ call.at = "log_applied"
    BY <1>7 DEF LogApplied, Suspended
  <2>2. /\ entry.pay = call.pay /\ entry.source = Source(call)
        /\ entry.status = call.snap.status
    OBVIOUS
  <2> HIDE DEF entry
  <2>3. CASE Applied(call) = Done(call, call.arg)
    <3>1. ASSUME call.op = "webhook", call.arg \in Outcomes
          PROVE  Logged(Done(call, call.arg), entry)
      <4>1. call.snap.status = Implied(call.arg)
        BY <1>0, <2>1, <3>1 DEF Grounded, GetsLogged
      <4>2. /\ Done(call, call.arg).pay = call.pay
            /\ Done(call, call.arg).arg = call.arg
        BY DoneFields
      <4>3. entry.source = "WEBHOOK"
        BY <2>2, <3>1 DEF Source
      <4> HIDE DEF call
      <4> QED
        BY <2>2, <4>1, <4>2, <4>3 DEF Logged
    <3> QED
      BY <2>1, <2>3, <3>1, DoneIsGrounded DEF Continues
  <2>4. CASE /\ Applied(call) = At(call, "after_apply")
             /\ call.op \notin {"webhook", "verify_return"}
    <3> DEFINE next == At(call, "after_apply")
    <3>1. /\ next.at = "after_apply" /\ next.op = call.op /\ next.pay = call.pay
          /\ next.batch = call.batch
      BY <1>0 DEF At, Call
    <3>2. call.op \in Polling /\ call.pay \in Closed
      BY <1>0, <2>1, <2>4 DEF Grounded, FitsCode, Applying, Asking, HasSeen
    <3>3. GoTo(c, next)
      BY <2>1, <2>4
    <3> HIDE DEF next
    <3>4. Grounded(next, Referenced, Closed, decisions', events')
      BY <1>0, <3>1, <3>2 DEF Grounded, FitsCode, BringsReference, SavesClosed,
         HasItsWord, HasSeen, GetsLogged, SeenInBatch
    <3> QED
      BY <3>1, <3>3, <3>4 DEF Continues, Initiating
  <2> QED
    BY <2>3, <2>4 DEF Applied
<1> QED
  BY <1>1, <1>2, <1>3, <1>4, <1>5, <1>6, <1>7 DEF Confirm

\* The entities that a pass finds have the references of their rows.
LEMMA SnapshotsSeen ==
  ASSUME ReferenceInv, NEW found \in SUBSET Payments
  PROVE  \A item \in Snapshots(found) : item[2].ref => item[1] \in Referenced
BY RowGround DEF Snapshots

\* A step of a scheduled pass.
LEMMA PassContinues ==
  ASSUME TypeInv, ReferenceInv, NEW c \in Calls, ReconciliationPass(c)
  PROVE  Continues(c)
<1> DEFINE call == calls[c]
<1>0. /\ call \in Call /\ call.batch \in SUBSET (Payments \X Row)
      /\ Grounded(call, Referenced, Closed, decisions, events)
      /\ SeenInBatch(call, Referenced)
  BY CallType, CallGround
<1>1. CASE CronStart(c)
  <2> DEFINE found == Snapshots({p \in Payments : IsExpired(payments[p])})
             next == [NewCall("cron", None) EXCEPT !.at = "sweep", !.time = now,
                                                   !.batch = found]
  <2>1. /\ next.at = "sweep" /\ next.batch = found /\ next.op = "cron"
        /\ GoTo(c, next)
    BY <1>1 DEF NewCall, IdleCall, CronStart
  <2>2. \A item \in found : item[2].ref => item[1] \in Referenced
    BY SnapshotsSeen
  <2> HIDE DEF next, found
  <2> QED
    BY <2>1, <2>2, QuietContinues DEF FitsCode, SeenInBatch
<1>2. CASE SweepOne(c)
  <2>1. PICK item \in call.batch :
          GoTo(c, [call EXCEPT !.at = "save", !.pay = item[1],
                               !.snap = Expired(item[2]), !.batch = @ \ {item}])
    BY <1>2 DEF SweepOne
  <2> DEFINE row == Expired(item[2])
             next == [call EXCEPT !.at = "save", !.pay = item[1],
                                  !.snap = row, !.batch = @ \ {item}]
  <2>2. item[2] \in Row
    BY <1>0, <2>1
  <2>3. row.status = "EXPIRED" /\ row.ref = item[2].ref
    BY <2>2 DEF Expired, Row
  <2>4. /\ next.at = "save" /\ next.snap = row /\ next.pay = item[1]
        /\ next.op = call.op /\ next.arg = call.arg
        /\ next.batch = call.batch \ {item}
    BY <1>0 DEF Call
  <2>5. call.op = "cron"
    BY <1>2, <1>0 DEF SweepOne, Suspended, Grounded, FitsCode
  <2>6. GoTo(c, next)
    BY <2>1
  <2> HIDE DEF next, row
  <2>7. HasItsWord(next, decisions')
    BY <2>3, <2>4, <2>5 DEF HasItsWord, Moved
  <2>8. next.snap.ref => next.pay \in Referenced
    BY <1>0, <2>1, <2>3, <2>4 DEF SeenInBatch
  <2>9. SeenInBatch(next, Referenced)
    BY <1>0, <2>4 DEF SeenInBatch
  <2> QED
    BY <2>3, <2>4, <2>5, <2>6, <2>7, <2>8, <2>9, SavingIsGrounded
       DEF Continues, OpenStatuses, Saving, Applying, Asking, Polling
<1>3. CASE FindAwaiting(c)
  <2> DEFINE due(found) == {item \in Snapshots(found) : IsDueForPoll(item[2], call.time)}
             next(found) == [call EXCEPT !.at = "poll", !.batch = due(found)]
  <2>1. PICK found \in SUBSET Payments : GoTo(c, next(found))
    BY <1>3 DEF FindAwaiting
  <2>2. /\ next(found).at = "poll" /\ next(found).batch = due(found)
        /\ next(found).op = call.op
    BY <1>0 DEF Call
  <2>3. \A item \in due(found) : item[2].ref => item[1] \in Referenced
    BY SnapshotsSeen
  <2>4. call.op = "cron"
    BY <1>3, <1>0 DEF FindAwaiting, Suspended, Grounded, FitsCode
  <2> HIDE DEF next, due
  <2> QED
    BY <2>1, <2>2, <2>3, <2>4, QuietContinues DEF FitsCode, SeenInBatch
<1>4. CASE PollOne(c)
  <2> DEFINE next(item) == [call EXCEPT !.at = "verify", !.pay = item[1],
                                  !.given = item[2], !.batch = @ \ {item}]
  <2>1. PICK item \in call.batch : GoTo(c, next(item))
    BY <1>4 DEF PollOne
  <2>2. /\ next(item).at = "verify" /\ next(item).pay = item[1]
        /\ next(item).given = item[2] /\ next(item).op = call.op
        /\ next(item).batch = call.batch \ {item}
    BY <1>0 DEF Call
  <2>3. call.op = "cron"
    BY <1>4, <1>0 DEF PollOne, Suspended, Grounded, FitsCode
  <2> HIDE DEF next
  <2>4. Grounded(next(item), Referenced, Closed, decisions', events')
    BY <1>0, <2>2, <2>3
       DEF Grounded, FitsCode, Asking, Polling, BringsReference, SavesClosed,
           HasItsWord, HasSeen, GetsLogged, SeenInBatch
  <2> QED
    BY <2>1, <2>2, <2>4 DEF Continues, Initiating
<1>5. CASE PassEnd(c)
  BY <1>5, EndsContinue DEF PassEnd
<1> QED
  BY <1>1, <1>2, <1>3, <1>4, <1>5 DEF ReconciliationPass

\* A step of reconcileOne after the answer, and of the administrator's actions.
LEMMA ReconcileContinues ==
  ASSUME TypeInv, ReferenceInv, NEW c \in Calls,
         Reconcile(c) \/ Administer(c)
  PROVE  Continues(c)
<1> DEFINE call == calls[c]
<1>0. /\ call \in Call
      /\ Grounded(call, Referenced, Closed, decisions, events)
      /\ SeenInBatch(call, Referenced)
  BY CallType, CallGround
<1>1. CASE AfterApply(c) \/ RecordAttempt(c)
  <2> DEFINE next == At(call, "escalate")
  <2>1. GoTo(c, AfterItem(call)) \/ GoTo(c, next)
    BY <1>1 DEF AfterApply, RecordAttempt
  <2>2. next.at = "escalate" /\ next.op = call.op /\ next.batch = call.batch
    BY <1>0 DEF At, Call
  <2>3. call.op \in Polling
    BY <1>0, <1>1 DEF Grounded, FitsCode, AfterApply, RecordAttempt, Suspended
  <2>4. FitsCode(next) /\ SeenInBatch(next, Referenced)
    BY <1>0, <2>2, <2>3 DEF FitsCode, SeenInBatch
  <2> HIDE DEF next
  <2>5. GoTo(c, next) => Continues(c)
    BY <2>2, <2>4, QuietContinues
  <2> QED
    BY <2>1, <2>3, <2>5, EndsContinue
<1>2. CASE Escalate(c)
  <2> DEFINE fresh == payments[call.pay]
             row == [fresh EXCEPT !.status = "MANUAL_REVIEW"]
             next == [call EXCEPT !.at = "save", !.snap = row]
  <2>1. call.pay \in Payments /\ fresh \in Row
    BY <1>2, CallType, PaymentType DEF Escalate, Suspended, Working, Labels
  <2>2. row.status = "MANUAL_REVIEW" /\ row.ref = fresh.ref
    BY <2>1 DEF Row
  <2>3. /\ next.at = "save" /\ next.snap = row /\ next.pay = call.pay
        /\ next.op = call.op /\ next.arg = call.arg /\ next.batch = call.batch
    BY <1>0 DEF Call
  <2>4. GoTo(c, next) \/ GoTo(c, Thrown(call))
    BY <1>2 DEF Escalate
  <2>5. call.op \in Polling
    BY <1>0, <1>2 DEF Escalate, Suspended, Grounded, FitsCode
  <2>6. row.ref => call.pay \in Referenced
    BY <2>1, <2>2, RowGround
  <2> HIDE DEF next, row, fresh
  <2>7. HasItsWord(next, decisions')
    BY <2>2, <2>3, <2>5 DEF HasItsWord, Moved, Polling
  <2>8. SeenInBatch(next, Referenced)
    BY <1>0, <2>3 DEF SeenInBatch
  <2>9. GoTo(c, next) => Continues(c)
    BY <2>2, <2>3, <2>5, <2>6, <2>7, <2>8, SavingIsGrounded
       DEF Continues, OpenStatuses, Saving, Applying, Asking, Polling
  <2> QED
    BY <2>4, <2>9, EndsContinue
<1>3. CASE ForceReconcile(c)
  <2> DEFINE next(p) == [NewCall("force", p) EXCEPT
                     !.at = "verify", !.given = payments[p], !.time = now]
  <2>1. PICK p \in Payments : GoTo(c, next(p))
    BY <1>3 DEF ForceReconcile
  <2>2. /\ next(p).at = "verify" /\ next(p).given = payments[p] /\ next(p).pay = p
        /\ next(p).op = "force" /\ next(p).batch = {}
    BY DEF NewCall, IdleCall
  <2> HIDE DEF next
  <2>3. Grounded(next(p), Referenced, Closed, decisions', events')
    BY <2>2, RowGround
       DEF Grounded, FitsCode, Asking, Polling, BringsReference, SavesClosed,
           HasItsWord, HasSeen, GetsLogged
  <2> QED
    BY <2>1, <2>2, <2>3 DEF Continues, Initiating
<1>4. CASE VoidPayment(c)
  <2>1. PICK p \in Payments :
          GoTo(c, [NewCall("void", p) EXCEPT
                     !.at = "save", !.snap = [payments[p] EXCEPT !.status = "VOIDED"]])
    BY <1>4 DEF VoidPayment
  <2> DEFINE row == [payments[p] EXCEPT !.status = "VOIDED"]
             next == [NewCall("void", p) EXCEPT !.at = "save", !.snap = row]
  <2>2. row.status = "VOIDED" /\ row.ref = payments[p].ref
    BY PaymentType DEF Row
  <2>3. /\ next.at = "save" /\ next.snap = row /\ next.pay = p /\ next.op = "void"
        /\ next.batch = {}
    BY DEF NewCall, IdleCall
  <2>4. GoTo(c, next)
    BY <2>1
  <2>5. row.ref => p \in Referenced
    BY <2>2, RowGround
  <2> HIDE DEF next, row
  <2>6. HasItsWord(next, decisions') /\ SeenInBatch(next, Referenced)
    BY <2>2, <2>3 DEF HasItsWord, Moved, SeenInBatch
  <2> QED
    BY <2>2, <2>3, <2>4, <2>5, <2>6, SavingIsGrounded
       DEF Continues, OpenStatuses, Saving
<1>5. CASE ResolveManually(c)
  <2>1. PICK p \in Payments, resolution \in {"CONFIRMED", "FAILED"} :
          /\ GoTo(c, [NewCall("resolve", p) EXCEPT
                        !.at = "save", !.snap = Resolved(payments[p], resolution)])
          /\ decisions' = decisions \cup {<<p, resolution>>}
    BY <1>5 DEF ResolveManually
  <2> DEFINE row == Resolved(payments[p], resolution)
             next == [NewCall("resolve", p) EXCEPT !.at = "save", !.snap = row]
  <2>2. row.status = resolution /\ row.ref = payments[p].ref
    BY PaymentType DEF Resolved, Row
  <2>3. /\ next.at = "save" /\ next.snap = row /\ next.pay = p /\ next.op = "resolve"
        /\ next.batch = {}
    BY DEF NewCall, IdleCall
  <2>4. GoTo(c, next)
    BY <2>1
  <2>5. row.ref => p \in Referenced
    BY <2>2, RowGround
  <2> HIDE DEF next, row
  <2>6. HasItsWord(next, decisions') /\ SeenInBatch(next, Referenced)
    BY <2>1, <2>2, <2>3 DEF HasItsWord, SeenInBatch
  <2> QED
    BY <2>2, <2>3, <2>4, <2>5, <2>6, SavingIsGrounded
       DEF Continues, OpenStatuses, Saving
<1> QED
  BY <1>1, <1>2, <1>3, <1>4, <1>5 DEF Reconcile, Administer

\* A step of a refund.
LEMMA RefundContinues ==
  ASSUME TypeInv, ReferenceInv, NEW c \in Calls, Refund(c)
  PROVE  Continues(c)
<1> DEFINE call == calls[c]
           FromHere(next, label) ==
             next.at = label /\ next.op = call.op /\ next.batch = call.batch
<1>0. /\ call \in Call
      /\ Grounded(call, Referenced, Closed, decisions, events)
      /\ SeenInBatch(call, Referenced)
  BY CallType, CallGround
<1>1. CASE RefundLock(c)
  <2> DEFINE next(p, amount) == [NewCall("refund", p) EXCEPT
                  !.at = "refund_sum", !.snap = payments[p], !.amount = amount]
  <2>1. PICK p \in Payments, amount \in RefundAmounts : GoTo(c, next(p, amount))
    BY <1>1 DEF RefundLock
  <2>2. /\ next(p, amount).at = "refund_sum" /\ next(p, amount).op = "refund"
        /\ next(p, amount).batch = {}
    BY DEF NewCall, IdleCall
  <2> HIDE DEF next
  <2> QED
    BY <2>1, <2>2, QuietContinues DEF FitsCode, SeenInBatch
<1>2. ASSUME NEW next, NEW label \in {"refund_commit", "refund_provider"},
             FromHere(next, label), GoTo(c, next), call.op = "refund"
      PROVE  Continues(c)
  <2>1. FitsCode(next)
    BY <1>2 DEF FitsCode
  <2>2. SeenInBatch(next, Referenced)
    BY <1>0, <1>2 DEF SeenInBatch
  <2> QED
    BY <1>2, <2>1, <2>2, QuietContinues
<1>3. ASSUME call.at \in {"refund_sum", "refund_commit", "refund_provider"}
      PROVE  call.op = "refund"
  BY <1>0, <1>3 DEF Grounded, FitsCode
<1>4. CASE RefundSum(c)
  <2> DEFINE next == [call EXCEPT !.at = "refund_commit", !.sum = refunded[call.pay]]
  <2>1. GoTo(c, next) \/ GoTo(c, Done(call, "conflict"))
    BY <1>4 DEF RefundSum
  <2>2. FromHere(next, "refund_commit")
    BY <1>0 DEF Call
  <2>3. call.op = "refund"
    BY <1>3, <1>4 DEF RefundSum, Suspended
  <2> HIDE DEF next
  <2> QED
    BY <1>2, <2>1, <2>2, <2>3, EndsContinue
<1>5. CASE RefundCommit(c)
  <2> DEFINE next == [call EXCEPT !.at = "refund_provider", !.sum = 0]
  <2>1. GoTo(c, next)
    BY <1>5 DEF RefundCommit
  <2>2. FromHere(next, "refund_provider")
    BY <1>0 DEF Call
  <2>3. call.op = "refund"
    BY <1>3, <1>5 DEF RefundCommit, Suspended
  <2> HIDE DEF next
  <2> QED
    BY <1>2, <2>1, <2>2, <2>3
<1>6. CASE RefundProvider(c)
  <2> DEFINE next == [call EXCEPT !.sum = @ + 1]
  <2>1. GoTo(c, next) \/ GoTo(c, Done(call, "ok"))
    BY <1>6 DEF RefundProvider
  <2>2. FromHere(next, "refund_provider")
    BY <1>0, <1>6 DEF Call, RefundProvider, Suspended
  <2>3. call.op = "refund"
    BY <1>3, <1>6 DEF RefundProvider, Suspended
  <2> HIDE DEF next
  <2> QED
    BY <1>2, <2>1, <2>2, <2>3, EndsContinue
<1> QED
  BY <1>1, <1>4, <1>5, <1>6 DEF Refund

\* The SELECT of a save(): initiate() finds no reference in the row, and who
\* finds nothing to write but had a reference to see finds the payment closed.
LEMMA SelectContinues ==
  ASSUME TypeInv, ReferenceInv, NEW c \in Calls, SaveSelect(c)
  PROVE  Continues(c)
<1> DEFINE call == calls[c]
           row == payments[call.pay]
           cols == Changed(row, call.snap)
           flush == [call EXCEPT !.at = "flush", !.dirty = cols]
           logs == [call EXCEPT !.at = "log_applied", !.dirty = {}]
<1>0. /\ call \in Call /\ call.snap \in Row
      /\ Grounded(call, Referenced, Closed, decisions, events)
      /\ SeenInBatch(call, Referenced)
  BY CallType, CallGround
<1>1. /\ call.at = "save" /\ call.pay \in Payments /\ row \in Row
      /\ decisions' = decisions
  BY CallType, PaymentType DEF SaveSelect, Suspended, Working, Labels
<1>2. \/ GoTo(c, flush)
      \/ GoTo(c, AfterSave(call)) /\ cols = {}
  BY DEF SaveSelect
<1>3. /\ flush.at = "flush" /\ flush.dirty = cols /\ flush.op = call.op
      /\ flush.pay = call.pay /\ flush.snap = call.snap /\ flush.arg = call.arg
      /\ flush.batch = call.batch
  BY <1>0 DEF Call
<1>4. /\ logs.at = "log_applied" /\ logs.op = call.op
      /\ logs.pay = call.pay /\ logs.snap = call.snap /\ logs.arg = call.arg
      /\ logs.batch = call.batch
  BY <1>0 DEF Call
<1>5. /\ "ref" \notin cols => row.ref = call.snap.ref
      /\ "ref" \in cols => row.ref \/ call.snap.ref
      /\ "status" \notin cols => row.status = call.snap.status
  BY <1>0, <1>1 DEF Changed, Columns, Row
<1>6. row.ref => call.pay \in Referenced
  BY <1>1, RowGround
<1>7. row.status \notin OpenStatuses /\ call.pay \in Referenced => call.pay \in Closed
  BY <1>1, RowGround DEF Open
<1>8. call.op = "initiate" => ~row.ref
  <2>1. ASSUME call.op = "initiate", row.ref
        PROVE  FALSE
    <3>1. Settled(call.pay)
      BY <1>1, <2>1 DEF ReferenceInv, ReferenceSettles
    <3> QED
      BY <1>1, <2>1, <3>1 DEF Settled, Initiating
  <2> QED
    BY <2>1
<1>9. /\ call.op = "initiate" => call.snap.ref
      /\ call.op # "initiate" =>
           /\ call.snap.status \notin OpenStatuses
           /\ call.snap.ref => call.pay \in Referenced
           /\ HasItsWord(call, decisions)
      /\ FitsCode(call) /\ BringsReference(call)
  BY <1>0, <1>1 DEF Grounded, BringsReference, SavesClosed
<1>10. \/ AfterSave(call) = Done(call, "ok")
       \/ /\ AfterSave(call) \in {NextItem(call, "sweep"), NextItem(call, "poll")}
          /\ call.op = "cron"
       \/ /\ AfterSave(call) = logs
          /\ call.op \notin {"initiate", "resolve", "void"}
          /\ call.snap.status \in Moved
  <2>1. call.op \in {"webhook", "verify_return"} => call.snap.status \in Moved
    BY <1>1, <1>9 DEF HasItsWord, Implied, Moved
  <2>2. call.op \in Saving
    BY <1>1, <1>9 DEF FitsCode
  <2> HIDE DEF call, logs
  <2> QED
    BY <2>1, <2>2 DEF AfterSave, Moved, Saving, Applying, Asking, Polling, logs
<1> HIDE DEF call, row, cols, flush, logs
<1>11. Grounded(flush, Referenced, Closed, decisions', events')
  <2>1. BringsReference(flush)
    BY <1>1, <1>3, <1>5, <1>8, <1>9 DEF BringsReference
  <2>2. SavesClosed(flush, Referenced, Closed)
    BY <1>3, <1>5, <1>6, <1>7, <1>9 DEF SavesClosed
  <2>3. HasItsWord(flush, decisions')
    BY <1>1, <1>3, <1>9 DEF HasItsWord
  <2> QED
    BY <1>0, <1>1, <1>3, <2>1, <2>2, <2>3
       DEF Grounded, FitsCode, HasSeen, GetsLogged, SeenInBatch
<1>12. Initiating(flush) => Initiating(call)
  BY <1>1, <1>3 DEF Initiating
<1>13. ASSUME cols = {}, call.op \notin {"initiate", "resolve", "void"},
              call.snap.status \in Moved
       PROVE  Grounded(logs, Referenced, Closed, decisions', events')
  <2>1. call.snap.ref
    BY <1>1, <1>9, <1>13 DEF HasItsWord
  <2>2. call.pay \in Closed
    BY <1>5, <1>7, <1>9, <1>13, <2>1
  <2>3. call.op = "webhook" => call.snap.status = Implied(call.arg)
    BY <1>1, <1>9, <1>13 DEF HasItsWord
  <2>4. call.op \in Applying
    BY <1>1, <1>9, <1>13 DEF FitsCode, Saving
  <2> QED
    BY <1>0, <1>4, <2>2, <2>3, <2>4
       DEF Grounded, FitsCode, BringsReference, SavesClosed, HasItsWord, HasSeen,
           GetsLogged, SeenInBatch
<1> QED
  BY <1>2, <1>3, <1>4, <1>10, <1>11, <1>12, <1>13, EndsContinue
     DEF Continues, Initiating, call

\* Where the calls of a step go, but for the INSERT and the UPDATE of a save().
LEMMA CallsContinue ==
  ASSUME TypeInv, ReferenceInv, Next,
         ~\E c \in Calls : InsertPayment(c) /\ payments' # payments,
         ~\E c \in Calls : SaveUpdate(c)
  PROVE  (\E c \in Calls : Continues(c)) \/ ProviderSettle \/ Tick \/ Restart
<1>1. CASE \E c \in HttpCalls : HttpStep(c)
  <2>1. PICK c \in Calls : HttpStep(c)
    BY <1>1 DEF Calls
  <2>2. CASE Initiate(c)
    BY <2>2, InitiateContinues DEF Initiate
  <2>3. CASE Confirm(c) \/ Refund(c) \/ Save(c)
    BY <2>3, ConfirmContinues, RefundContinues, SelectContinues DEF Save
  <2>4. CASE Reconcile(c) \/ Administer(c)
    BY <2>4, ReconcileContinues
  <2>5. CASE Reply(c)
    BY <2>5, EndsContinue DEF Reply
  <2> QED
    BY <2>1, <2>2, <2>3, <2>4, <2>5 DEF HttpStep
<1>2. CASE \E c \in CronCalls : CronStep(c)
  <2>1. PICK c \in Calls : CronStep(c)
    BY <1>2 DEF Calls
  <2>2. CASE ReconciliationPass(c)
    BY <2>2, PassContinues
  <2>3. CASE Confirm(c) \/ Reconcile(c) \/ Save(c)
    BY <2>3, ConfirmContinues, ReconcileContinues, SelectContinues DEF Save
  <2> QED
    BY <2>1, <2>2, <2>3 DEF CronStep, Confirm
<1> QED
  BY <1>1, <1>2 DEF Next

\* An UPDATE ends its call, or has it write its event.
LEMMA UpdateGoesTo ==
  ASSUME TypeInv, NEW c \in Calls, SaveUpdate(c)
  PROVE  /\ calls'[c] \in {AfterSave(calls[c]), Done(calls[c], "conflict")}
         /\ \A d \in Calls : d # c => calls'[d] = calls[d]
         /\ ~Initiating(calls'[c])
<1>1. /\ calls'[c] \in {AfterSave(calls[c]), Done(calls[c], "conflict")}
      /\ \A d \in Calls : d # c => calls'[d] = calls[d]
  BY DEF SaveUpdate, GoTo, TypeInv, TypeOK
<1>2. calls'[c].at \in {"done", "log_applied", "sweep", "poll"}
  BY <1>1, CallType, WhereCallsGo, DoneAt
<1> QED
  BY <1>1, <1>2 DEF Initiating

\* Only the INSERT makes an initiate() that works on its payment.
LEMMA InitiatingStays ==
  ASSUME TypeInv, ReferenceInv, [Next]_vars, NEW d \in Calls,
         Initiating(calls'[d])
  PROVE  /\ calls'[d].pay = calls[d].pay
         /\ \/ Initiating(calls[d])
            \/ InsertPayment(d) /\ payments' # payments
<1> DEFINE Stays == /\ calls'[d].pay = calls[d].pay
                    /\ \/ Initiating(calls[d])
                       \/ InsertPayment(d) /\ payments' # payments
<1>1. CASE UNCHANGED vars
  BY <1>1 DEF vars
<1>2. ASSUME NEW c \in Calls, InsertPayment(c), payments' # payments
      PROVE  Stays
  BY <1>2, InsertGoesToTheRail
<1>3. ASSUME NEW c \in Calls, SaveUpdate(c)
      PROVE  Stays
  BY <1>3, UpdateGoesTo
<1>4. ASSUME NEW c \in Calls, Continues(c)
      PROVE  Stays
  BY <1>4 DEF Continues, GoTo, TypeInv, TypeOK
<1>5. CASE ProviderSettle \/ Tick
  BY <1>5 DEF ProviderSettle, Tick
<1>6. CASE Restart
  BY <1>6 DEF Restart, IdleCall, Initiating
<1> QED
  BY <1>1, <1>2, <1>3, <1>4, <1>5, <1>6, CallsContinue

\* One initiate() works on a payment, since it has inserted it.
LEMMA OneInitiatesStep ==
  ASSUME TypeInv, RefundInv, ReferenceInv, [Next]_vars
  PROVE  OneInitiates'
<1>1. \A p \in Payments : Exists(p) => Exists(p)'
  BY RowsStay
<1>2. \A d \in Calls : Initiating(calls[d]) => calls[d].pay \in Payments
  BY CallGround
<1>3. CASE \E c \in Calls : InsertPayment(c) /\ payments' # payments
  <2>1. PICK c \in Calls : InsertPayment(c) /\ payments' # payments
    BY <1>3
  <2>2. /\ ~Exists(calls[c].pay) /\ Exists(calls[c].pay)'
        /\ \A d \in Calls : d # c => calls'[d] = calls[d]
        /\ calls'[c].pay = calls[c].pay
    BY <2>1, InsertGoesToTheRail
  <2>3. \A d \in Calls : Initiating(calls[d]) => calls[d].pay # calls[c].pay
    BY <2>2 DEF ReferenceInv, OneInitiates
  <2>4. \A d \in Calls : Initiating(calls'[d]) => payments'[calls'[d].pay].status # "ABSENT"
    BY <1>1, <1>2, <2>2 DEF ReferenceInv, OneInitiates, Exists
  <2>5. \A d, e \in Calls :
          /\ Initiating(calls'[d]) /\ Initiating(calls'[e])
          /\ calls'[d].pay = calls'[e].pay
          => d = e
    BY <2>2, <2>3 DEF ReferenceInv, OneInitiates
  <2> QED
    BY <2>4, <2>5 DEF OneInitiates, Exists, Initiating
<1>4. CASE ~\E c \in Calls : InsertPayment(c) /\ payments' # payments
  <2>1. \A d \in Calls : Initiating(calls'[d]) =>
          Initiating(calls[d]) /\ calls'[d].pay = calls[d].pay
    BY <1>4, InitiatingStays
  <2>2. \A d \in Calls : Initiating(calls'[d]) => payments'[calls'[d].pay].status # "ABSENT"
    BY <1>1, <1>2, <2>1 DEF ReferenceInv, OneInitiates, Exists
  <2>3. \A d, e \in Calls :
          /\ Initiating(calls'[d]) /\ Initiating(calls'[e])
          /\ calls'[d].pay = calls'[e].pay
          => d = e
    BY <2>1 DEF ReferenceInv, OneInitiates
  <2> QED
    BY <2>2, <2>3 DEF OneInitiates, Exists, Initiating
<1> QED
  BY <1>3, <1>4

(***************************************************************************)
(* What lasts.                                                             *)
(***************************************************************************)

\* The reference that a save() writes is the entity's or the row's.
LEMMA WrittenReference ==
  ASSUME NEW row \in Row, NEW entity \in Row, NEW cols \in SUBSET Columns
  PROVE  Written(row, entity, cols).ref =
           IF "ref" \in cols THEN entity.ref ELSE row.ref
<1> DEFINE status == IF "status" \in cols THEN entity.status ELSE row.status
           ref == IF "ref" \in cols THEN entity.ref ELSE row.ref
           reason == IF "reason" \in cols THEN entity.reason ELSE row.reason
           attempts == IF "attempts" \in cols THEN entity.attempts ELSE row.attempts
           last == IF "last" \in cols THEN entity.last ELSE row.last
<1>1. Written(row, entity, cols) =
        [row EXCEPT !.status = status, !.ref = ref, !.reason = reason,
                    !.attempts = attempts, !.last = last]
  BY DEF Written
<1> HIDE DEF status, ref, reason, attempts, last
<1>2. Written(row, entity, cols).ref = ref
  BY <1>1 DEF Row
<1> QED
  BY <1>2 DEF ref

\* The row after an UPDATE that is not refused.
LEMMA UpdatedRow ==
  ASSUME TypeInv, NEW c \in Calls, SaveUpdate(c), payments' # payments
  PROVE  /\ calls[c].pay \in Payments
         /\ \A p \in Payments : p # calls[c].pay => payments'[p] = payments[p]
         /\ payments'[calls[c].pay].status =
              IF "status" \in calls[c].dirty
              THEN calls[c].snap.status ELSE payments[calls[c].pay].status
         /\ payments'[calls[c].pay].ref =
              IF "ref" \in calls[c].dirty
              THEN calls[c].snap.ref ELSE payments[calls[c].pay].ref
         /\ calls'[c] = AfterSave(calls[c])
<1> DEFINE p == calls[c].pay
           row == Written(payments[p], calls[c].snap, calls[c].dirty)
<1>1. /\ p \in Payments /\ payments[p] \in Row /\ calls[c].snap \in Row
      /\ calls[c].dirty \in SUBSET Columns
  BY CallType, PaymentType DEF SaveUpdate, Suspended, Working, Labels
<1>2. payments' = [payments EXCEPT ![p] = row] /\ GoTo(c, AfterSave(calls[c]))
  BY DEF SaveUpdate
<1>3. payments'[p] = row /\ \A q \in Payments : q # p => payments'[q] = payments[q]
  BY <1>1, <1>2 DEF TypeInv, TypeOK
<1>4. calls'[c] = AfterSave(calls[c])
  BY <1>2 DEF GoTo, TypeInv, TypeOK
<1> HIDE DEF p
<1>5. /\ row.status = IF "status" \in calls[c].dirty
                      THEN calls[c].snap.status ELSE payments[p].status
      /\ row.ref = IF "ref" \in calls[c].dirty
                   THEN calls[c].snap.ref ELSE payments[p].ref
  BY <1>1, WrittenType, WrittenReference
<1> QED
  BY <1>1, <1>3, <1>4, <1>5 DEF p

\* The other writers keep the reference, and the status or write a closed one.
LEMMA OtherWriters ==
  ASSUME TypeInv, NEW c \in Calls,
         AfterApply(c) \/ RecordAttempt(c) \/ RefundCommit(c)
  PROVE  \A p \in Payments :
           /\ payments'[p].ref = payments[p].ref
           /\ \/ payments'[p].status = payments[p].status
              \/ payments'[p].status \in {"REFUNDED", "PARTIALLY_REFUNDED"}
<1> DEFINE p == calls[c].pay
           row == payments[p]
           reason == IF DeclinedBy(calls[c]) THEN "DECLINED" ELSE row.reason
           tagged == [row EXCEPT !.attempts = NextAttempts(calls[c].given),
                                 !.last = calls[c].time, !.reason = reason]
           counted == [row EXCEPT !.attempts = NextAttempts(calls[c].given),
                                  !.last = calls[c].time]
           refund == [row EXCEPT !.status = RefundedStatus(calls[c])]
<1>1. p \in Payments /\ row \in Row
  BY CallType, PaymentType
     DEF AfterApply, RecordAttempt, RefundCommit, Suspended, Working, Labels
<1>2. /\ tagged.status = row.status /\ tagged.ref = row.ref
      /\ counted.status = row.status /\ counted.ref = row.ref
  BY <1>1 DEF Row
<1>3. /\ refund.status = RefundedStatus(calls[c]) /\ refund.ref = row.ref
      /\ RefundedStatus(calls[c]) \in {"REFUNDED", "PARTIALLY_REFUNDED"}
  BY <1>1 DEF Row, RefundedStatus
<1>4. \/ payments' = [payments EXCEPT ![p] = tagged]
      \/ payments' = [payments EXCEPT ![p] = counted]
      \/ payments' = [payments EXCEPT ![p] = refund]
  BY <1>1 DEF AfterApply, RecordAttempt, RefundCommit, TypeInv, TypeOK
<1> HIDE DEF p, row, tagged, counted, refund
<1> QED
  BY <1>1, <1>2, <1>3, <1>4 DEF TypeInv, TypeOK, row

\* No step takes a payment that had a reference back, or opens one that is
\* closed and settled.
LEMMA ReferencedStands ==
  ASSUME TypeInv, RefundInv, ReferenceInv, [Next]_vars
  PROVE  Referenced \subseteq Referenced' /\ Closed \subseteq Closed'
<1> SUFFICES ASSUME NEW p \in Payments, p \in Referenced
             PROVE  /\ Settled(p)'
                    /\ payments'[p].ref \/ ~Open(p)'
                    /\ ~Open(p) => ~Open(p)'
  BY DEF Referenced, Closed
<1>0. /\ Exists(p)
      /\ \A c \in Calls : Initiating(calls[c]) => calls[c].pay # p
      /\ payments[p].ref \/ ~Open(p)
  BY DEF Referenced, Settled
<1>1. Settled(p)'
  <2>1. Exists(p)'
    BY <1>0, RowsStay
  <2>2. ASSUME NEW d \in Calls, Initiating(calls'[d])
        PROVE  calls'[d].pay # p
    BY <1>0, <2>2, InitiatingStays, InsertGoesToTheRail
  <2> QED
    BY <2>1, <2>2 DEF Settled
<1>2. CASE payments'[p] = payments[p]
  BY <1>0, <1>1, <1>2 DEF Open
<1>3. CASE payments'[p] # payments[p]
  <2>1. PICK c \in Calls : \/ InsertPayment(c) \/ SaveUpdate(c) \/ AfterApply(c)
                          \/ RecordAttempt(c) \/ RefundCommit(c)
    BY <1>3, PaymentWriters DEF vars
  <2>2. CASE InsertPayment(c)
    BY <1>0, <1>3, <2>2, InsertGoesToTheRail
  <2>3. CASE SaveUpdate(c)
    <3>1. calls[c].pay = p /\ calls[c].at = "flush"
      BY <1>3, <2>3, UpdatedRow DEF SaveUpdate, Suspended
    <3>2. calls[c].op # "initiate"
      BY <1>0, <3>1 DEF Initiating
    <3>3. /\ calls[c].snap.status \notin OpenStatuses
          /\ /\ "status" \notin calls[c].dirty
             /\ calls[c].snap.ref \/ "ref" \in calls[c].dirty
             => ~Open(p)
      BY <3>1, <3>2, CallGround DEF Grounded, SavesClosed, Closed
    <3>4. CASE "status" \in calls[c].dirty
      BY <1>1, <1>3, <2>3, <3>1, <3>3, <3>4, UpdatedRow DEF Open
    <3>5. CASE "status" \notin calls[c].dirty
      BY <1>0, <1>1, <1>3, <2>3, <3>1, <3>3, <3>5, UpdatedRow DEF Open
    <3> QED
      BY <3>4, <3>5
  <2>4. CASE AfterApply(c) \/ RecordAttempt(c) \/ RefundCommit(c)
    BY <1>0, <1>1, <2>4, OtherWriters DEF Open, OpenStatuses
  <2> QED
    BY <2>1, <2>2, <2>3, <2>4
<1> QED
  BY <1>2, <1>3

\* What has been decided and logged stays so.
LEMMA RecordsStand ==
  ASSUME [Next]_vars
  PROVE  decisions \subseteq decisions' /\ events \subseteq events'
<1>1. decisions \subseteq decisions'
  BY DecisionWriters DEF ResolveManually, vars
<1>2. events \subseteq events'
  BY EventWriters DEF RejectWebhook, LogNoOp, LogApplied, vars
<1> QED
  BY <1>1, <1>2

(***************************************************************************)
(* The invariant is inductive.                                             *)
(***************************************************************************)

\* After the UPDATE of a save() that apply() made, the payment is closed.
LEMMA UpdateContinues ==
  ASSUME TypeInv, RefundInv, ReferenceInv, Next, NEW c \in Calls, SaveUpdate(c)
  PROVE  Grounded(calls'[c], Referenced', Closed', decisions', events')
<1> DEFINE call == calls[c]
           logs == [call EXCEPT !.at = "log_applied", !.dirty = {}]
<1>0. /\ call \in Call /\ call.at = "flush" /\ call.pay \in Payments
      /\ Grounded(call, Referenced, Closed, decisions, events)
      /\ SeenInBatch(call, Referenced)
      /\ Referenced \subseteq Referenced' /\ Closed \subseteq Closed'
  BY CallType, CallGround, ReferencedStands DEF SaveUpdate, Suspended, Working, Labels
<1>1. SeenInBatch(call, Referenced')
  BY <1>0 DEF SeenInBatch
<1>2. /\ FitsCode(call) /\ HasItsWord(call, decisions)
      /\ SavesClosed(call, Referenced, Closed)
  BY <1>0 DEF Grounded
<1>3. \/ AfterSave(call) = Done(call, "ok")
      \/ /\ AfterSave(call) \in {NextItem(call, "sweep"), NextItem(call, "poll")}
         /\ call.op = "cron"
      \/ /\ AfterSave(call) = logs
         /\ call.op \in Applying
         /\ call.snap.status \in Moved
  <2>1. call.op \in {"webhook", "verify_return"} => call.snap.status \in Moved
    BY <1>0, <1>2 DEF HasItsWord, Implied, Moved
  <2>2. call.op \in Saving
    BY <1>0, <1>2 DEF FitsCode
  <2> HIDE DEF call, logs
  <2> QED
    BY <2>1, <2>2 DEF AfterSave, Moved, Saving, Applying, Asking, Polling, logs
<1>4. \/ calls'[c] = Done(call, "conflict")
      \/ calls'[c] = AfterSave(call) /\ payments' # payments
      \/ calls'[c] = AfterSave(call) /\ payments' = payments
  BY UpdateGoesTo
<1>5. CASE \/ calls'[c] \in {Done(call, "ok"), Done(call, "conflict")}
           \/ /\ calls'[c] \in {NextItem(call, "sweep"), NextItem(call, "poll")}
              /\ call.op = "cron"
  BY <1>0, <1>1, <1>5, EndsAreGrounded
<1>6. ASSUME calls'[c] = logs, call.op \in Applying, call.snap.status \in Moved
      PROVE  Grounded(calls'[c], Referenced', Closed', decisions', events')
  <2>1. /\ logs.at = "log_applied" /\ logs.op = call.op
        /\ logs.pay = call.pay /\ logs.snap = call.snap /\ logs.arg = call.arg
        /\ logs.batch = call.batch
    BY <1>0 DEF Call
  <2>2. call.op \notin {"initiate", "resolve", "void"}
    BY <1>6 DEF Applying, Asking, Polling
  <2>3. call.snap.ref /\ call.pay \in Referenced
    BY <1>0, <1>2, <1>6, <2>2 DEF HasItsWord, SavesClosed
  <2>4. call.pay \in Closed'
    <3>1. payments'[call.pay].status =
            IF "status" \in call.dirty
            THEN call.snap.status ELSE payments[call.pay].status
      <4>1. payments' = [payments EXCEPT ![call.pay] =
                           Written(payments[call.pay], call.snap, call.dirty)]
        <5>1. Done(call, "conflict").at # logs.at
          BY <2>1, DoneFields
        <5> QED
          BY <1>6, <5>1 DEF SaveUpdate, GoTo, TypeInv, TypeOK
      <4>2. /\ payments[call.pay] \in Row /\ call.snap \in Row
            /\ call.dirty \in SUBSET Columns
        BY <1>0, CallType, PaymentType
      <4> HIDE DEF call
      <4>3. Written(payments[call.pay], call.snap, call.dirty).status =
              IF "status" \in call.dirty
              THEN call.snap.status ELSE payments[call.pay].status
        BY <4>2, WrittenType
      <4> QED
        BY <1>0, <4>1, <4>3 DEF TypeInv, TypeOK
    <3>2. CASE "status" \in call.dirty
      <4>1. payments'[call.pay].status \notin OpenStatuses
        BY <1>6, <3>1, <3>2 DEF Moved, OpenStatuses
      <4>2. call.pay \in Referenced'
        BY <1>0, <2>3
      <4> QED
        BY <1>0, <4>1, <4>2 DEF Referenced, Closed, Open
    <3>3. CASE "status" \notin call.dirty
      BY <1>0, <1>2, <2>2, <2>3, <3>3 DEF SavesClosed
    <3> QED
      BY <3>2, <3>3
  <2>5. call.op = "webhook" => call.snap.status = Implied(call.arg)
    BY <1>0, <1>2 DEF HasItsWord
  <2> HIDE DEF logs, call
  <2>6. Grounded(logs, Referenced', Closed', decisions', events')
    BY <1>1, <1>6, <2>1, <2>4, <2>5
       DEF Grounded, FitsCode, BringsReference, SavesClosed, HasItsWord, HasSeen,
           GetsLogged, SeenInBatch
  <2> QED
    BY <1>6, <2>6
<1> QED
  BY <1>3, <1>4, <1>5, <1>6

\* Every step leaves every call grounded.
LEMMA GroundedStep ==
  ASSUME TypeInv, RefundInv, ReferenceInv, [Next]_vars
  PROVE  CallsGrounded'
<1> DEFINE GroundedNow(call) == Grounded(call, Referenced', Closed', decisions', events')
<1>0. /\ Referenced \subseteq Referenced' /\ Closed \subseteq Closed'
      /\ decisions \subseteq decisions' /\ events \subseteq events'
  BY ReferencedStands, RecordsStand
<1>1. \A d \in Calls : GroundedNow(calls[d])
  BY <1>0, CallGround, GroundedStands
<1> SUFFICES \A d \in Calls : GroundedNow(calls'[d])
  BY DEF CallsGrounded
<1>2. CASE UNCHANGED calls
  BY <1>1, <1>2
<1>3. ASSUME NEW c \in Calls, InsertPayment(c), payments' # payments
      PROVE  \A d \in Calls : GroundedNow(calls'[d])
  <2> DEFINE next == [calls[c] EXCEPT !.at = "rail_initiate",
                                      !.snap = NewRow(calls[c].given.req, now)]
  <2>1. GoTo(c, next) /\ calls[c] \in Call
    BY <1>3, CallType DEF InsertPayment
  <2>2. /\ next.at = "rail_initiate" /\ next.op = calls[c].op
        /\ next.batch = calls[c].batch
    BY <2>1 DEF Call
  <2>3. calls[c].op = "initiate" /\ SeenInBatch(calls[c], Referenced)
    BY <1>3, CallGround DEF Grounded, FitsCode, InsertPayment, Suspended
  <2>4. calls'[c] = next /\ \A d \in Calls : d # c => calls'[d] = calls[d]
    BY <2>1 DEF GoTo, TypeInv, TypeOK
  <2> HIDE DEF next
  <2>5. GroundedNow(next)
    BY <1>0, <2>2, <2>3, QuietIsGrounded DEF FitsCode, SeenInBatch
  <2> QED
    BY <1>1, <2>4, <2>5
<1>4. ASSUME NEW c \in Calls, SaveUpdate(c), Next
      PROVE  \A d \in Calls : GroundedNow(calls'[d])
  BY <1>1, <1>4, UpdateContinues, UpdateGoesTo
<1>5. ASSUME NEW c \in Calls, Continues(c)
      PROVE  \A d \in Calls : GroundedNow(calls'[d])
  <2>1. PICK call : /\ GoTo(c, call)
                    /\ Grounded(call, Referenced, Closed, decisions', events')
    BY <1>5 DEF Continues
  <2>2. GroundedNow(call)
    BY <1>0, <2>1, GroundedStands
  <2> QED
    BY <1>1, <2>1, <2>2 DEF GoTo, TypeInv, TypeOK
<1>6. CASE ProviderSettle \/ Tick
  BY <1>2, <1>6 DEF ProviderSettle, Tick
<1>7. CASE Restart
  <2>1. \A d \in Calls : calls'[d] = IdleCall
    BY <1>7 DEF Restart
  <2> QED
    BY <2>1, IdleIsGrounded
<1> QED
  BY <1>2, <1>3, <1>4, <1>5, <1>6, <1>7, CallsContinue DEF vars

\* Only the UPDATE of initiate() gives a payment its reference, and it ends it.
LEMMA SettlesStep ==
  ASSUME TypeInv, RefundInv, ReferenceInv, [Next]_vars
  PROVE  ReferenceSettles'
<1> SUFFICES ASSUME NEW p \in Payments, payments'[p].ref
             PROVE  Settled(p)'
  BY DEF ReferenceSettles
<1>1. CASE p \in Referenced
  BY <1>1, ReferencedStands DEF Referenced
<1>2. CASE p \notin Referenced
  <2>1. ~payments[p].ref
    BY <1>2, RowGround
  <2>2. payments'[p] # payments[p] /\ Next
    BY <2>1 DEF vars
  <2>3. PICK c \in Calls : \/ InsertPayment(c) \/ SaveUpdate(c) \/ AfterApply(c)
                          \/ RecordAttempt(c) \/ RefundCommit(c)
    BY <2>2, PaymentWriters
  <2>4. CASE InsertPayment(c)
    <3>1. payments' = [payments EXCEPT ![calls[c].pay] =
                         NewRow(calls[c].given.req, now)]
      BY <2>2, <2>4 DEF InsertPayment
    <3>2. NewRow(calls[c].given.req, now).ref = FALSE
      BY DEF NewRow
    <3> QED
      BY <2>1, <3>1, <3>2 DEF TypeInv, TypeOK
  <2>5. CASE SaveUpdate(c)
    <3>1. /\ calls[c].pay = p /\ calls[c].at = "flush"
          /\ "ref" \in calls[c].dirty /\ calls[c].snap.ref
      BY <2>1, <2>2, <2>5, UpdatedRow DEF SaveUpdate, Suspended
    <3>2. calls[c].op = "initiate"
      BY <1>2, <3>1, CallGround DEF Grounded, SavesClosed
    <3>3. Initiating(calls[c])
      BY <3>1, <3>2 DEF Initiating
    <3>4. ASSUME NEW d \in Calls, Initiating(calls'[d])
          PROVE  calls'[d].pay # p
      <4>1. d # c /\ calls'[d] = calls[d]
        BY <2>5, <3>4, UpdateGoesTo
      <4> QED
        BY <3>1, <3>3, <3>4, <4>1 DEF ReferenceInv, OneInitiates
    <3>5. Exists(p)'
      BY <3>1, <3>3, RowsStay DEF ReferenceInv, OneInitiates
    <3> QED
      BY <3>4, <3>5 DEF Settled
  <2>6. CASE AfterApply(c) \/ RecordAttempt(c) \/ RefundCommit(c)
    BY <2>1, <2>6, OtherWriters
  <2> QED
    BY <2>3, <2>4, <2>5, <2>6
<1> QED
  BY <1>1, <1>2

\* A payment that awaits confirmation keeps its reference, or gets it with the
\* status.
LEMMA AwaitingStep ==
  ASSUME TypeInv, RefundInv, ReferenceInv, [Next]_vars
  PROVE  AwaitingHasReference'
<1> SUFFICES ASSUME NEW p \in Payments, payments'[p].status = "AWAITING_CONFIRMATION"
             PROVE  payments'[p].ref
  BY DEF AwaitingHasReference
<1>1. CASE payments[p].status = "AWAITING_CONFIRMATION"
  <2>1. p \in Referenced
    BY <1>1, RowGround DEF ReferenceInv, AwaitingHasReference
  <2>2. p \in Referenced'
    BY <2>1, ReferencedStands
  <2> QED
    BY <2>2 DEF Referenced, Open, OpenStatuses
<1>2. CASE payments[p].status # "AWAITING_CONFIRMATION"
  <2>1. payments'[p] # payments[p] /\ Next
    BY <1>2 DEF vars
  <2>2. PICK c \in Calls : \/ InsertPayment(c) \/ SaveUpdate(c) \/ AfterApply(c)
                          \/ RecordAttempt(c) \/ RefundCommit(c)
    BY <2>1, PaymentWriters
  <2>3. CASE InsertPayment(c)
    BY <2>1, <2>3, InsertGoesToTheRail
  <2>4. CASE SaveUpdate(c)
    <3>1. /\ calls[c].pay = p /\ calls[c].at = "flush"
          /\ calls[c].snap.status = "AWAITING_CONFIRMATION"
      BY <1>2, <2>1, <2>4, UpdatedRow DEF SaveUpdate, Suspended
    <3>2. calls[c].op = "initiate"
      BY <3>1, CallGround DEF Grounded, SavesClosed, OpenStatuses
    <3>3. "ref" \in calls[c].dirty /\ calls[c].snap.ref
      BY <3>1, <3>2, CallGround DEF Grounded, BringsReference
    <3> QED
      BY <2>1, <2>4, <3>1, <3>3, UpdatedRow
  <2>5. CASE AfterApply(c) \/ RecordAttempt(c) \/ RefundCommit(c)
    BY <1>2, <2>5, OtherWriters
  <2> QED
    BY <2>2, <2>3, <2>4, <2>5
<1> QED
  BY <1>1, <1>2

\* At first there is nothing to refer to.
LEMMA ReferenceInit == Init => ReferenceInv
<1>1. NoRow.status = "ABSENT" /\ NoRow.ref = FALSE
  BY DEF NoRow, NewRow
<1> SUFFICES ASSUME Init
             PROVE  ReferenceInv
  OBVIOUS
<1>2. CallsGrounded
  BY IdleIsGrounded DEF Init, CallsGrounded
<1>3. OneInitiates
  BY IdleIsGrounded DEF Init, OneInitiates
<1>4. ReferenceSettles /\ AwaitingHasReference
  BY <1>1 DEF Init, ReferenceSettles, AwaitingHasReference
<1> QED
  BY <1>2, <1>3, <1>4 DEF ReferenceInv

\* The invariant holds in every reachable state.
THEOREM ReferenceInvAlways == Spec => []ReferenceInv
<1>1. TypeInv /\ RefundInv /\ ReferenceInv /\ [Next]_vars => ReferenceInv'
  BY OneInitiatesStep, SettlesStep, AwaitingStep, GroundedStep DEF ReferenceInv
<1> QED
  BY <1>1, ReferenceInit, TypeInvAlways, RefundInvAlways, PTL DEF Spec

(***************************************************************************)
(* The theorems.                                                           *)
(***************************************************************************)

\* A payment that awaits confirmation can be found by its provider reference,
\* although stale saves may erase the references of closed payments.
THEOREM AwaitingIsReferenced == Spec => []AwaitingHasReference
<1>1. ReferenceInv => AwaitingHasReference
  BY DEF ReferenceInv
<1> QED
  BY <1>1, ReferenceInvAlways, PTL

\* A payment that reconciliation counts as resolved is closed.
THEOREM ResolvedStaysClosed == Spec => []ResolvedIsClosed
<1>1. ReferenceInv => ResolvedIsClosed
  BY DEF ReferenceInv, CallsGrounded, Grounded, HasSeen, Closed, ResolvedIsClosed
<1> QED
  BY <1>1, ReferenceInvAlways, PTL

\* A webhook that was acknowledged has its audit event.
THEOREM AnswersAreLogged == Spec => []AnsweredWebhookIsLogged
<1>1. ReferenceInv => AnsweredWebhookIsLogged
  BY DEF ReferenceInv, CallsGrounded, Grounded, GetsLogged, Logged,
         AnsweredWebhookIsLogged
<1> QED
  BY <1>1, ReferenceInvAlways, PTL

(***************************************************************************)
(* The audit of a move.                                                    *)
(***************************************************************************)

\* A call that is about to write its event does that next, or dies.
LEMMA LoggersLog ==
  ASSUME TypeInv, ReferenceInv, Next, NEW c \in Calls,
         calls[c].at = "log_applied", calls'[c] # calls[c]
  PROVE  LogApplied(c) \/ Restart
<1>1. ASSUME NEW d \in Calls, NEW call, GoTo(d, call)
      PROVE  d = c
  BY <1>1 DEF GoTo, TypeInv, TypeOK
<1>2. ASSUME NEW d \in Calls, SaveUpdate(d)
      PROVE  FALSE
  <2>1. d # c
    BY <1>2 DEF SaveUpdate, Suspended
  <2> QED
    BY <1>2, <2>1, UpdateGoesTo
<1>3. ASSUME NEW d \in Calls, InsertPayment(d), payments' # payments
      PROVE  FALSE
  <2>1. d # c
    BY <1>3 DEF InsertPayment, Suspended
  <2> QED
    BY <1>3, <2>1, InsertGoesToTheRail
<1>4. ASSUME NEW d \in Calls, Initiate(d) \/ Reply(d) \/ Refund(d) \/ Save(d)
      PROVE  FALSE
  <2>1. d # c
    BY <1>4 DEF Initiate, InitiateStart, CheckBooking, InsertPayment, ReadWinner,
       RailInitiate, Reply, Refund, RefundLock, RefundSum, RefundCommit,
       RefundProvider, Save, SaveSelect, SaveUpdate, Start, Suspended
  <2>2. CASE Initiate(d) /\ ~(InsertPayment(d) /\ payments' # payments)
    <3>1. Continues(d)
      BY <2>2, InitiateContinues DEF Initiate
    <3> QED
      BY <1>1, <2>1, <3>1 DEF Continues
  <2>3. CASE Reply(d)
    BY <1>1, <2>1, <2>3 DEF Reply
  <2>4. CASE Refund(d)
    BY <1>1, <2>1, <2>4, RefundContinues DEF Continues
  <2>5. CASE SaveSelect(d)
    BY <1>1, <2>1, <2>5, SelectContinues DEF Continues
  <2> QED
    BY <1>2, <1>3, <1>4, <2>2, <2>3, <2>4, <2>5 DEF Save
<1>5. ASSUME NEW d \in Calls, ReconciliationPass(d) \/ Reconcile(d) \/ Administer(d)
      PROVE  FALSE
  <2>1. d # c
    BY <1>5 DEF ReconciliationPass, CronStart, SweepOne, FindAwaiting, PollOne,
       PassEnd, Reconcile, AfterApply, RecordAttempt, Escalate, Administer,
       ForceReconcile, ResolveManually, VoidPayment, Start, Suspended
  <2> QED
    BY <1>1, <1>5, <2>1, PassContinues, ReconcileContinues DEF Continues
<1>6. ASSUME NEW d \in Calls, Confirm(d)
      PROVE  LogApplied(c)
  <2>1. d = c
    BY <1>1, <1>6, ConfirmContinues DEF Continues
  <2> QED
    BY <1>6, <2>1 DEF Confirm, WebhookReceive, RejectWebhook, VerifyReturnStart,
       VerifyAnswer, Apply, LogNoOp, Start, Suspended
<1>7. ~ProviderSettle /\ ~Tick
  BY DEF ProviderSettle, Tick
<1> QED
  BY <1>4, <1>5, <1>6, <1>7 DEF Next, HttpStep, CronStep, Confirm, Calls

\* Only a restart counts as one.
LEMMA OnlyRestartCounts ==
  ASSUME Next, restarts' # restarts
  PROVE  Restart
<1>1. ~ProviderSettle /\ ~Tick
  BY DEF ProviderSettle, Tick
<1>2. ASSUME NEW c \in Calls
      PROVE  ~Initiate(c) /\ ~Confirm(c) /\ ~Save(c) /\ ~Reply(c) /\ ~Refund(c)
  BY DEF Initiate, InitiateStart, CheckBooking, InsertPayment, ReadWinner,
         RailInitiate, Confirm, WebhookReceive, RejectWebhook, VerifyReturnStart,
         VerifyAnswer, Apply, LogNoOp, LogApplied, Save, SaveSelect, SaveUpdate,
         Reply, Refund, RefundLock, RefundSum, RefundCommit, RefundProvider
<1>3. ASSUME NEW c \in Calls
      PROVE  ~ReconciliationPass(c) /\ ~Reconcile(c) /\ ~Administer(c)
  BY DEF ReconciliationPass, CronStart, SweepOne, FindAwaiting, PollOne, PassEnd,
         Reconcile, AfterApply, RecordAttempt, Escalate, Administer,
         ForceReconcile, ResolveManually, VoidPayment
<1> QED
  BY <1>1, <1>2, <1>3 DEF Next, HttpStep, CronStep, Confirm, Calls

\* Every step keeps moves audited: the UPDATE hands its event to its call, the
\* call writes it.
LEMMA MoveStep ==
  ASSUME TypeInv, RefundInv, ReferenceInv, MoveIsAudited, [Next]_vars
  PROVE  MoveIsAudited'
<1> SUFFICES ASSUME NEW p \in Payments, payments'[p].status \in Moved,
                    \A s \in Statuses : <<p, s>> \notin decisions',
                    restarts' = 0
             PROVE  \/ \E e \in events' : /\ e.pay = p /\ e.applied
                                          /\ e.status = payments'[p].status
                    \/ \E c \in Calls : /\ calls'[c].at = "log_applied"
                                        /\ calls'[c].pay = p
                                        /\ calls'[c].snap.status = payments'[p].status
  BY DEF MoveIsAudited
<1>1. /\ \A s \in Statuses : <<p, s>> \notin decisions
      /\ events \subseteq events'
  BY RecordsStand
<1>2. restarts = 0 /\ ~Restart
  <2>1. restarts \in Nat
    BY StoreAssumption DEF TypeInv, TypeOK
  <2>2. ~Restart
    BY <2>1 DEF Restart
  <2>3. UNCHANGED restarts
    BY <2>2, OnlyRestartCounts DEF vars
  <2> QED
    BY <2>2, <2>3
<1>3. CASE payments'[p].status = payments[p].status
  <2>1. CASE \E e \in events : e.pay = p /\ e.applied /\ e.status = payments[p].status
    BY <1>1, <1>3, <2>1
  <2>2. CASE \E c \in Calls : /\ calls[c].at = "log_applied"
                              /\ calls[c].pay = p
                              /\ calls[c].snap.status = payments[p].status
    <3>1. PICK c \in Calls : /\ calls[c].at = "log_applied"
                             /\ calls[c].pay = p
                             /\ calls[c].snap.status = payments[p].status
      BY <2>2
    <3>2. CASE calls'[c] = calls[c]
      BY <1>3, <3>1, <3>2
    <3>3. CASE LogApplied(c)
      <4> DEFINE e == [pay |-> calls[c].pay, source |-> Source(calls[c]),
                       status |-> calls[c].snap.status, applied |-> TRUE,
                       anomaly |-> "none"]
      <4>1. /\ e \in events' /\ e.pay = p /\ e.applied
            /\ e.status = payments'[p].status
        BY <1>3, <3>1, <3>3 DEF LogApplied
      <4> HIDE DEF e
      <4> QED
        BY <4>1
    <3> QED
      BY <1>2, <3>1, <3>2, <3>3, LoggersLog DEF vars
  <2> QED
    BY <1>1, <1>2, <1>3, <2>1, <2>2 DEF MoveIsAudited
<1>4. CASE payments'[p].status # payments[p].status
  <2>1. PICK c \in Calls : \/ InsertPayment(c) \/ SaveUpdate(c) \/ AfterApply(c)
                          \/ RecordAttempt(c) \/ RefundCommit(c)
    BY <1>4, PaymentWriters DEF vars
  <2>2. CASE InsertPayment(c)
    BY <1>4, <2>2, InsertGoesToTheRail DEF Moved
  <2>3. CASE SaveUpdate(c)
    <3>1. /\ calls[c].pay = p /\ calls[c].at = "flush"
          /\ calls[c].snap.status = payments'[p].status
          /\ calls'[c] = AfterSave(calls[c])
      BY <1>4, <2>3, UpdatedRow DEF SaveUpdate, Suspended
    <3>2. BringsReference(calls[c]) /\ HasItsWord(calls[c], decisions)
      BY CallGround DEF Grounded
    <3>3. calls[c].op # "initiate"
      BY <3>1, <3>2 DEF BringsReference, Moved
    <3>4. payments'[p].status \in Statuses
      BY DEF Moved, Statuses
    <3>5. calls[c].op \notin {"resolve", "void"}
      BY <1>1, <3>1, <3>2, <3>3, <3>4 DEF HasItsWord
    <3> DEFINE logs == [calls[c] EXCEPT !.at = "log_applied", !.dirty = {}]
    <3>6. calls'[c] = logs
      BY <3>1, <3>3, <3>5 DEF AfterSave, Moved
    <3>7. logs.at = "log_applied" /\ logs.pay = p /\ logs.snap = calls[c].snap
      BY <3>1, CallType DEF Call
    <3> HIDE DEF logs
    <3> QED
      BY <3>1, <3>6, <3>7
  <2>4. CASE AfterApply(c) \/ RecordAttempt(c) \/ RefundCommit(c)
    BY <1>4, <2>4, OtherWriters DEF Moved
  <2> QED
    BY <2>1, <2>2, <2>3, <2>4
<1> QED
  BY <1>3, <1>4

\* If the process never died, a payment that the provider's verdict moved has
\* its audit event as soon as nobody works on it.
THEOREM MovesAreAudited == Spec => []MovedPaymentIsAudited
<1>1. Init => MoveIsAudited
  <2>1. NoRow.status = "ABSENT"
    BY DEF NoRow, NewRow
  <2> QED
    BY <2>1 DEF Init, MoveIsAudited, Moved
<1>2. TypeInv /\ RefundInv /\ ReferenceInv /\ MoveIsAudited /\ [Next]_vars
        => MoveIsAudited'
  BY MoveStep
<1>3. MoveIsAudited => MovedPaymentIsAudited
  BY DEF MoveIsAudited, MovedPaymentIsAudited, Moved, Busy
<1> QED
  BY <1>1, <1>2, <1>3, ReferenceInvAlways, TypeInvAlways, RefundInvAlways, PTL DEF Spec

(***************************************************************************)
(* Without passes, administrators and refunds the first verdict stands.    *)
(***************************************************************************)

\* Only operations that the environment issues are in flight.
Issued == \A c \in Calls : calls[c].op \in Operations \cup {"none"}

\* The helpers keep a call's operation, or go idle.
LEMMA HelpersKeepOp ==
  ASSUME NEW call \in Call
  PROVE  /\ \A result : Done(call, result).op = call.op
         /\ \A label : At(call, label).op = call.op
         /\ \A label : NextItem(call, label).op = call.op
         /\ Thrown(call).op \in {call.op, "none"}
         /\ AfterItem(call).op = call.op
         /\ AfterSave(call).op = call.op
         /\ Applied(call).op = call.op
<1>1. \A label : At(call, label).op = call.op
  BY DEF At, Call
<1>2. \A label : NextItem(call, label).op = call.op
  BY DEF NextItem, Call
<1>3. [call EXCEPT !.at = "log_applied", !.dirty = {}].op = call.op
  BY DEF Call
<1>4. IdleCall.op = "none"
  BY DEF IdleCall
<1>5. \A result : Done(call, result).op = call.op
  BY DoneFields
<1> QED
  BY <1>1, <1>2, <1>3, <1>4, <1>5 DEF Thrown, AfterItem, AfterSave, Applied

\* The call goes on with its operation, or begins one that is issued.
KeepsOp(c) ==
  \E call : /\ GoTo(c, call)
            /\ call.op \in {calls[c].op, "none"} \cup Operations

\* Steps of initiate() and of refunds.
LEMMA InitiateKeepsOp ==
  ASSUME TypeInv, NEW c \in Calls, Initiate(c) \/ Refund(c)
  PROVE  KeepsOp(c)
<1>0. calls[c] \in Call
  BY CallType
<1>1. CASE InitiateStart(c)
  <2>1. PICK req \in Requests :
          LET p == req.key
              call == [NewCall("initiate", p) EXCEPT !.given = NewRow(req, now)]
          IN GoTo(c, IF ~Exists(p) THEN At(call, "check_booking")
                     ELSE IF SamePayload(payments[p], req)
                          THEN Done([call EXCEPT !.snap = payments[p]], "ok")
                          ELSE Done(call, "conflict"))
    BY <1>1 DEF InitiateStart
  <2> DEFINE first == [NewCall("initiate", req.key) EXCEPT !.given = NewRow(req, now)]
             found == [first EXCEPT !.snap = payments[req.key]]
             next == At(first, "check_booking")
  <2>2. \/ GoTo(c, next) \/ GoTo(c, Done(found, "ok"))
        \/ GoTo(c, Done(first, "conflict"))
    BY <2>1
  <2>3. next.op = "initiate" /\ found.op = "initiate" /\ first.op = "initiate"
    BY DEF At, NewCall, IdleCall
  <2>4. "initiate" \in Operations
    BY <1>1 DEF InitiateStart, Start
  <2> HIDE DEF first, found, next
  <2> QED
    BY <2>2, <2>3, <2>4, DoneFields DEF KeepsOp
<1>2. CASE CheckBooking(c)
  <2>1. GoTo(c, Done(calls[c], "conflict")) \/ GoTo(c, At(calls[c], "insert"))
    BY <1>2 DEF CheckBooking
  <2> QED
    BY <1>0, <2>1, HelpersKeepOp DEF KeepsOp
<1>3. CASE ReadWinner(c)
  <2> DEFINE found == [calls[c] EXCEPT !.snap = payments[calls[c].pay]]
  <2>1. GoTo(c, Done(found, "ok")) /\ found.op = calls[c].op
    BY <1>0, <1>3 DEF ReadWinner, Call
  <2> HIDE DEF found
  <2> QED
    BY <2>1, DoneFields DEF KeepsOp
<1>4. CASE RailInitiate(c)
  <2> DEFINE row == AwaitingConfirmation(calls[c].snap)
             next == [calls[c] EXCEPT !.at = "save", !.snap = row]
  <2>1. GoTo(c, next) \/ GoTo(c, Done(calls[c], "error"))
    BY <1>4 DEF RailInitiate
  <2>2. next.op = calls[c].op
    BY <1>0 DEF Call
  <2> HIDE DEF next
  <2> QED
    BY <1>0, <2>1, <2>2, HelpersKeepOp DEF KeepsOp
<1>5. CASE InsertPayment(c)
  <2> DEFINE row == NewRow(calls[c].given.req, now)
             next == [calls[c] EXCEPT !.at = "rail_initiate", !.snap = row]
  <2>1. \/ GoTo(c, next) \/ GoTo(c, Done(calls[c], "conflict"))
        \/ GoTo(c, At(calls[c], "read_winner"))
    BY <1>5 DEF InsertPayment
  <2>2. next.op = calls[c].op
    BY <1>0 DEF Call
  <2> HIDE DEF next
  <2> QED
    BY <1>0, <2>1, <2>2, HelpersKeepOp DEF KeepsOp
<1>6. CASE RefundLock(c)
  <2> DEFINE next(p, amount) == [NewCall("refund", p) EXCEPT
                  !.at = "refund_sum", !.snap = payments[p], !.amount = amount]
  <2>1. PICK p \in Payments, amount \in RefundAmounts : GoTo(c, next(p, amount))
    BY <1>6 DEF RefundLock
  <2>2. next(p, amount).op = "refund" /\ "refund" \in Operations
    BY <1>6 DEF NewCall, IdleCall, RefundLock, Start
  <2> HIDE DEF next
  <2> QED
    BY <2>1, <2>2 DEF KeepsOp
<1>7. CASE RefundSum(c) \/ RefundCommit(c) \/ RefundProvider(c)
  <2> DEFINE sums == [calls[c] EXCEPT !.at = "refund_commit", !.sum = refunded[calls[c].pay]]
             pays == [calls[c] EXCEPT !.at = "refund_provider", !.sum = 0]
             tries == [calls[c] EXCEPT !.sum = @ + 1]
  <2>1. \/ GoTo(c, sums) \/ GoTo(c, pays) \/ GoTo(c, tries)
        \/ GoTo(c, Done(calls[c], "conflict")) \/ GoTo(c, Done(calls[c], "ok"))
    BY <1>7 DEF RefundSum, RefundCommit, RefundProvider
  <2>2. sums.op = calls[c].op /\ pays.op = calls[c].op /\ tries.op = calls[c].op
    BY <1>0 DEF Call
  <2> HIDE DEF sums, pays, tries
  <2> QED
    BY <1>0, <2>1, <2>2, HelpersKeepOp DEF KeepsOp
<1> QED
  BY <1>1, <1>2, <1>3, <1>4, <1>5, <1>6, <1>7 DEF Initiate, Refund

\* Steps of webhooks, answers, apply(), save() and replies.
LEMMA ConfirmKeepsOp ==
  ASSUME TypeInv, NEW c \in Calls, Confirm(c) \/ Save(c) \/ Reply(c)
  PROVE  KeepsOp(c)
<1>0. calls[c] \in Call
  BY CallType
<1>1. CASE WebhookReceive(c)
  <2> DEFINE next(p, outcome) ==
        [NewCall("webhook", p) EXCEPT !.at = "apply", !.arg = outcome]
  <2>1. \E p \in Payments : \E outcome \in Answers(p) : GoTo(c, next(p, outcome))
    BY <1>1 DEF WebhookReceive
  <2>2. PICK p, outcome : GoTo(c, next(p, outcome))
    BY <2>1
  <2>3. next(p, outcome).op = "webhook" /\ "webhook" \in Operations
    BY <1>1 DEF NewCall, IdleCall, WebhookReceive, Start
  <2> HIDE DEF next
  <2> QED
    BY <2>2, <2>3 DEF KeepsOp
<1>2. CASE RejectWebhook(c)
  <2>1. GoTo(c, calls[c])
    BY <1>2 DEF RejectWebhook, GoTo, TypeInv, TypeOK
  <2> QED
    BY <2>1 DEF KeepsOp
<1>3. CASE VerifyReturnStart(c)
  <2> DEFINE first(p) == [NewCall("verify_return", p) EXCEPT !.given = payments[p]]
             next(p) == At(first(p), "verify")
  <2>1. PICK p : GoTo(c, next(p)) \/ GoTo(c, Done(first(p), "ok"))
    BY <1>3 DEF VerifyReturnStart
  <2>2. /\ next(p).op = "verify_return" /\ first(p).op = "verify_return"
        /\ "verify_return" \in Operations
    BY <1>3 DEF At, NewCall, IdleCall, VerifyReturnStart, Start
  <2> HIDE DEF first, next
  <2> QED
    BY <2>1, <2>2, DoneFields DEF KeepsOp
<1>4. CASE VerifyAnswer(c)
  <2> DEFINE asked(answer) == [calls[c] EXCEPT !.at = "apply", !.arg = answer]
             counted(answer) == [calls[c] EXCEPT !.at = "record", !.arg = answer]
  <2>1. PICK answer : \/ GoTo(c, asked(answer)) \/ GoTo(c, Done(calls[c], answer))
                      \/ GoTo(c, counted(answer))
    BY <1>4 DEF VerifyAnswer
  <2>2. asked(answer).op = calls[c].op /\ counted(answer).op = calls[c].op
    BY <1>0 DEF Call
  <2> HIDE DEF asked, counted
  <2> QED
    BY <1>0, <2>1, <2>2, HelpersKeepOp DEF KeepsOp
<1>5. CASE Apply(c)
  <2> DEFINE row == payments[calls[c].pay]
             entity == [row EXCEPT !.status = Implied(calls[c].arg)]
             lost == [calls[c] EXCEPT !.at = "log", !.snap = NoRow]
             noop == [calls[c] EXCEPT !.at = "log", !.snap = row]
             moves == [calls[c] EXCEPT !.at = "save", !.snap = entity]
  <2>1. \/ GoTo(c, lost) \/ GoTo(c, noop) \/ GoTo(c, Thrown(calls[c])) \/ GoTo(c, moves)
    BY <1>5 DEF Apply
  <2>2. lost.op = calls[c].op /\ noop.op = calls[c].op /\ moves.op = calls[c].op
    BY <1>0 DEF Call
  <2> HIDE DEF lost, noop, moves
  <2> QED
    BY <1>0, <2>1, <2>2, HelpersKeepOp DEF KeepsOp
<1>6. CASE LogNoOp(c) \/ LogApplied(c)
  BY <1>0, <1>6, HelpersKeepOp DEF KeepsOp, LogNoOp, LogApplied
<1>7. CASE Save(c)
  <2> DEFINE flush == [calls[c] EXCEPT !.at = "flush",
                         !.dirty = Changed(payments[calls[c].pay], calls[c].snap)]
  <2>1. \/ GoTo(c, AfterSave(calls[c])) \/ GoTo(c, Done(calls[c], "conflict"))
        \/ GoTo(c, flush)
    BY <1>7 DEF Save, SaveSelect, SaveUpdate
  <2>2. flush.op = calls[c].op
    BY <1>0 DEF Call
  <2> HIDE DEF flush
  <2> QED
    BY <1>0, <2>1, <2>2, HelpersKeepOp DEF KeepsOp
<1>8. CASE Reply(c)
  <2>1. GoTo(c, IdleCall) /\ IdleCall.op = "none"
    BY <1>8 DEF Reply, IdleCall
  <2> QED
    BY <2>1 DEF KeepsOp
<1> QED
  BY <1>1, <1>2, <1>3, <1>4, <1>5, <1>6, <1>7, <1>8 DEF Confirm

\* Steps of reconciliation and of administrators.
LEMMA ReconcileKeepsOp ==
  ASSUME TypeInv, NEW c \in Calls,
         ReconciliationPass(c) \/ Reconcile(c) \/ Administer(c)
  PROVE  KeepsOp(c)
<1>0. calls[c] \in Call
  BY CallType
<1>1. CASE CronStart(c)
  <2> DEFINE next == [NewCall("cron", None) EXCEPT
                !.at = "sweep", !.time = now,
                !.batch = Snapshots({p \in Payments : IsExpired(payments[p])})]
  <2>1. next.op = "cron" /\ GoTo(c, next) /\ "cron" \in Operations
    BY <1>1 DEF NewCall, IdleCall, CronStart, Start
  <2> HIDE DEF next
  <2> QED
    BY <2>1 DEF KeepsOp
<1>2. CASE SweepOne(c)
  <2> DEFINE next(item) == [calls[c] EXCEPT !.at = "save", !.pay = item[1],
                              !.snap = Expired(item[2]), !.batch = @ \ {item}]
  <2>1. PICK item : GoTo(c, next(item))
    BY <1>2 DEF SweepOne
  <2>2. next(item).op = calls[c].op
    BY <1>0 DEF Call
  <2> HIDE DEF next
  <2> QED
    BY <2>1, <2>2 DEF KeepsOp
<1>3. CASE FindAwaiting(c)
  <2> DEFINE next(found) == [calls[c] EXCEPT !.at = "poll",
                !.batch = {item \in Snapshots(found) : IsDueForPoll(item[2], calls[c].time)}]
  <2>1. PICK found : GoTo(c, next(found))
    BY <1>3 DEF FindAwaiting
  <2>2. next(found).op = calls[c].op
    BY <1>0 DEF Call
  <2> HIDE DEF next
  <2> QED
    BY <2>1, <2>2 DEF KeepsOp
<1>4. CASE PollOne(c)
  <2> DEFINE next(item) == [calls[c] EXCEPT !.at = "verify", !.pay = item[1],
                                  !.given = item[2], !.batch = @ \ {item}]
  <2>1. PICK item : GoTo(c, next(item))
    BY <1>4 DEF PollOne
  <2>2. next(item).op = calls[c].op
    BY <1>0 DEF Call
  <2> HIDE DEF next
  <2> QED
    BY <2>1, <2>2 DEF KeepsOp
<1>5. CASE PassEnd(c)
  <2>1. GoTo(c, IdleCall) /\ IdleCall.op = "none"
    BY <1>5 DEF PassEnd, IdleCall
  <2> QED
    BY <2>1 DEF KeepsOp
<1>6. CASE AfterApply(c) \/ RecordAttempt(c)
  <2>1. GoTo(c, AfterItem(calls[c])) \/ GoTo(c, At(calls[c], "escalate"))
    BY <1>6 DEF AfterApply, RecordAttempt
  <2> QED
    BY <1>0, <2>1, HelpersKeepOp DEF KeepsOp
<1>7. CASE Escalate(c)
  <2> DEFINE row == [payments[calls[c].pay] EXCEPT !.status = "MANUAL_REVIEW"]
             next == [calls[c] EXCEPT !.at = "save", !.snap = row]
  <2>1. GoTo(c, next) \/ GoTo(c, Thrown(calls[c]))
    BY <1>7 DEF Escalate
  <2>2. next.op = calls[c].op
    BY <1>0 DEF Call
  <2> HIDE DEF next
  <2> QED
    BY <1>0, <2>1, <2>2, HelpersKeepOp DEF KeepsOp
<1>8. CASE ForceReconcile(c)
  <2> DEFINE next(p) == [NewCall("force", p) EXCEPT
                     !.at = "verify", !.given = payments[p], !.time = now]
  <2>1. PICK p : GoTo(c, next(p))
    BY <1>8 DEF ForceReconcile
  <2>2. next(p).op = "force" /\ "force" \in Operations
    BY <1>8 DEF NewCall, IdleCall, ForceReconcile, Start
  <2> HIDE DEF next
  <2> QED
    BY <2>1, <2>2 DEF KeepsOp
<1>9. CASE ResolveManually(c)
  <2> DEFINE next(p, resolution) == [NewCall("resolve", p) EXCEPT
                     !.at = "save", !.snap = Resolved(payments[p], resolution)]
  <2>1. PICK p, resolution : GoTo(c, next(p, resolution))
    BY <1>9 DEF ResolveManually
  <2>2. next(p, resolution).op = "resolve" /\ "resolve" \in Operations
    BY <1>9 DEF NewCall, IdleCall, ResolveManually, Start
  <2> HIDE DEF next
  <2> QED
    BY <2>1, <2>2 DEF KeepsOp
<1>10. CASE VoidPayment(c)
  <2> DEFINE next(p) == [NewCall("void", p) EXCEPT
                     !.at = "save", !.snap = [payments[p] EXCEPT !.status = "VOIDED"]]
  <2>1. PICK p : GoTo(c, next(p))
    BY <1>10 DEF VoidPayment
  <2>2. next(p).op = "void" /\ "void" \in Operations
    BY <1>10 DEF NewCall, IdleCall, VoidPayment, Start
  <2> HIDE DEF next
  <2> QED
    BY <2>1, <2>2 DEF KeepsOp
<1> QED
  BY <1>1, <1>2, <1>3, <1>4, <1>5, <1>6, <1>7, <1>8, <1>9, <1>10
     DEF ReconciliationPass, Reconcile, Administer

\* Nothing runs that the environment did not issue.
LEMMA IssuedStep ==
  ASSUME TypeInv, Issued, [Next]_vars
  PROVE  Issued'
<1>1. ASSUME NEW c \in Calls, KeepsOp(c)
      PROVE  Issued'
  BY <1>1 DEF KeepsOp, GoTo, Issued, TypeInv, TypeOK
<1>2. CASE Restart
  BY <1>2 DEF Restart, IdleCall, Issued
<1>3. CASE ProviderSettle \/ Tick \/ UNCHANGED vars
  BY <1>3 DEF ProviderSettle, Tick, Issued, vars
<1>4. ASSUME NEW c \in Calls, HttpStep(c) \/ CronStep(c)
      PROVE  KeepsOp(c)
  BY <1>4, InitiateKeepsOp, ConfirmKeepsOp, ReconcileKeepsOp
     DEF HttpStep, CronStep, Confirm
<1> QED
  BY <1>1, <1>2, <1>3, <1>4 DEF Next, Calls

\* A terminal status is the provider's verdict, and nobody will open it again.
VerdictFound ==
  \A p \in Payments : payments[p].status \in TerminalStatuses =>
    /\ p \in Closed
    /\ payments[p].status \in Moved
    /\ charge[p] = VerdictOf(payments[p].status)

ClientOperations == {"initiate", "webhook", "rejected_webhook", "verify_return"}

\* Who writes a status then: initiate() opens, apply() repeats the verdict.
LEMMA ClientsWrite ==
  ASSUME TypeInv, ReferenceInv, VerdictInv, Issued, Operations \subseteq ClientOperations,
         Next, NEW p \in Payments, payments'[p].status # payments[p].status
  PROVE  \/ payments'[p].status \in OpenStatuses /\ p \notin Referenced
         \/ /\ payments'[p].status \in Moved
            /\ p \in Referenced
            /\ charge[p] = VerdictOf(payments'[p].status)
<1>1. PICK c \in Calls : \/ InsertPayment(c) \/ SaveUpdate(c) \/ AfterApply(c)
                        \/ RecordAttempt(c) \/ RefundCommit(c)
  BY PaymentWriters
<1>2. /\ calls[c].op \in ClientOperations \cup {"none"}
      /\ Grounded(calls[c], Referenced, Closed, decisions, events)
  BY CallGround DEF Issued
<1>3. CASE InsertPayment(c)
  <2>1. /\ p = calls[c].pay /\ ~Exists(p)
        /\ payments'[p].status = "INITIATED"
    BY <1>3, InsertGoesToTheRail
  <2> QED
    BY <2>1 DEF Referenced, Settled, OpenStatuses
<1>4. CASE SaveUpdate(c)
  <2>1. /\ calls[c].pay = p /\ calls[c].at = "flush"
        /\ calls[c].snap.status = payments'[p].status
    BY <1>4, UpdatedRow DEF SaveUpdate, Suspended
  <2>2. CASE calls[c].op = "initiate"
    <3>1. payments'[p].status = "AWAITING_CONFIRMATION"
      BY <1>2, <2>1, <2>2 DEF Grounded, BringsReference
    <3>2. ~Settled(p)
      BY <2>1, <2>2 DEF Settled, Initiating
    <3> QED
      BY <3>1, <3>2 DEF Referenced, OpenStatuses
  <2>3. CASE calls[c].op # "initiate"
    <3>1. calls[c].op \in {"webhook", "verify_return"}
      BY <1>2, <2>1, <2>3 DEF Grounded, FitsCode, Saving, Applying, Asking, Polling,
                              ClientOperations
    <3>2. payments'[p].status \in Moved
      BY <1>2, <2>1, <3>1 DEF Grounded, HasItsWord, Implied, Moved
    <3>3. p \in Referenced
      BY <1>2, <2>1, <2>3, <3>1, <3>2 DEF Grounded, HasItsWord, SavesClosed
    <3>4. charge[p] = VerdictOf(payments'[p].status)
      BY <2>1, <3>1, <3>2 DEF VerdictInv, CallsHonest, Honest, Reported, Moved
    <3> QED
      BY <3>2, <3>3, <3>4
  <2> QED
    BY <2>2, <2>3
<1>5. CASE AfterApply(c) \/ RecordAttempt(c)
  BY <1>5, Bookkeeping DEF TypeInv, TypeOK
<1>6. CASE RefundCommit(c)
  BY <1>2, <1>6 DEF Grounded, FitsCode, RefundCommit, Suspended, ClientOperations
<1> QED
  BY <1>1, <1>3, <1>4, <1>5, <1>6

\* Every step keeps the verdicts that were found.
LEMMA FoundStep ==
  ASSUME TypeInv, RefundInv, ReferenceInv, VerdictInv, OrderInv, Issued,
         Operations \subseteq ClientOperations, VerdictFound, [Next]_vars
  PROVE  /\ VerdictFound'
         /\ \A p \in Payments : payments[p].status \in TerminalStatuses =>
              payments'[p].status = payments[p].status
<1>1. /\ Referenced \subseteq Referenced' /\ Closed \subseteq Closed'
      /\ \A p \in Payments : charge[p] \in Verdicts => charge'[p] = charge[p]
  BY ReferencedStands, VerdictsStand
<1>2. ASSUME NEW p \in Payments, payments[p].status \in TerminalStatuses
      PROVE  payments'[p].status = payments[p].status
  <2>1. ASSUME payments'[p].status # payments[p].status
        PROVE  FALSE
    <3>1. /\ p \in Closed /\ payments[p].status \in Moved
          /\ charge[p] = VerdictOf(payments[p].status)
      BY <1>2 DEF VerdictFound
    <3>2. /\ payments'[p].status \in Moved
          /\ charge[p] = VerdictOf(payments'[p].status)
      BY <2>1, <3>1, ClientsWrite, RowGround DEF vars
    <3> QED
      BY <2>1, <3>1, <3>2 DEF VerdictOf, Moved
  <2> QED
    BY <2>1
<1>3. ASSUME NEW p \in Payments, payments'[p].status \in TerminalStatuses
      PROVE  /\ p \in Closed'
             /\ payments'[p].status \in Moved
             /\ charge'[p] = VerdictOf(payments'[p].status)
  <2>1. CASE payments'[p].status = payments[p].status
    BY <1>1, <1>3, <2>1 DEF VerdictFound, VerdictOf, Verdicts
  <2>2. CASE payments'[p].status # payments[p].status
    <3>1. /\ payments'[p].status \in Moved /\ p \in Referenced
          /\ charge[p] = VerdictOf(payments'[p].status)
      BY <1>3, <2>2, ClientsWrite DEF vars, OpenStatuses, TerminalStatuses
    <3>2. p \in Referenced' /\ payments'[p].status \notin OpenStatuses
      BY <1>1, <3>1 DEF Moved, OpenStatuses
    <3> QED
      BY <1>1, <3>1, <3>2 DEF Referenced, Closed, Open, VerdictOf, Verdicts
  <2> QED
    BY <2>1, <2>2
<1> QED
  BY <1>2, <1>3 DEF VerdictFound

\* While webhooks and verify-on-return calls race each other, the first verdict
\* on a payment stands.
THEOREM FirstVerdictStands ==
  ASSUME Operations \subseteq ClientOperations
  PROVE  Spec => VerdictIsFinal
<1>1. Init => Issued /\ VerdictFound
  <2>1. NoRow.status = "ABSENT"
    BY DEF NoRow, NewRow
  <2> QED
    BY <2>1 DEF Init, Issued, IdleCall, VerdictFound, TerminalStatuses
<1>2. /\ TypeInv /\ RefundInv /\ ReferenceInv /\ VerdictInv /\ OrderInv
      /\ Issued /\ VerdictFound /\ [Next]_vars
      => Issued' /\ VerdictFound'
  BY IssuedStep, FoundStep
<1>3. /\ TypeInv /\ RefundInv /\ ReferenceInv /\ VerdictInv /\ OrderInv
      /\ Issued /\ VerdictFound /\ [Next]_vars
      => [\A p \in Payments : payments[p].status \in TerminalStatuses =>
            payments'[p].status = payments[p].status]_vars
  BY FoundStep
<1> QED
  BY <1>1, <1>2, <1>3, TypeInvAlways, RefundInvAlways, ReferenceInvAlways,
     VerdictInvAlways, PTL DEF Spec, VerdictIsFinal

(***************************************************************************)
(* Escalation needs an answer.                                             *)
(***************************************************************************)

\* An entity that was read from this payment.
Dated(p, row, rows) ==
  /\ p \in Payments
  /\ rows[p].status # "ABSENT"
  /\ row.createdAt = rows[p].createdAt

\* A call that has its "pending" and found the payment old enough.
MayEscalate(call, rows) ==
  /\ call.arg = "pending"
  /\ call.pay \in Payments
  /\ rows[call.pay].status # "ABSENT"
  /\ rows[call.pay].createdAt + ReviewAfter <= call.time

\* What a call on its way to an escalation knows: the age of the payment that
\* its pass found, which nothing changes, and the provider's answer.
Timely(call, rows, time) ==
  /\ call.time <= time
  /\ \A item \in call.batch : Dated(item[1], item[2], rows)
  /\ \/ call.at = "verify" /\ call.op # "verify_return"
     \/ call.at = "record"
     => Dated(call.pay, call.given, rows)
  /\ call.at = "record" => call.arg \in {"pending", "error"}
  /\ \/ call.at = "escalate"
     \/ call.at \in {"save", "flush"} /\ call.snap.status = "MANUAL_REVIEW"
     => MayEscalate(call, rows)

CallsTimely == \A c \in Calls : Timely(calls[c], payments, now)

\* The call goes on timely.
GoesOnTimely(c) == \E call : GoTo(c, call) /\ Timely(call, payments, now)

\* A payment that exists keeps its date.
LEMMA DatesStand ==
  ASSUME TypeInv, RefundInv, [Next]_vars, NEW p \in Payments, Exists(p)
  PROVE  Exists(p)' /\ payments'[p].createdAt = payments[p].createdAt
<1> SUFFICES payments'[p].createdAt = payments[p].createdAt
  BY RowsStay
<1> SUFFICES ASSUME payments' # payments
             PROVE  payments'[p].createdAt = payments[p].createdAt
  OBVIOUS
<1>1. PICK c \in Calls : \/ InsertPayment(c) \/ SaveUpdate(c) \/ AfterApply(c)
                        \/ RecordAttempt(c) \/ RefundCommit(c)
  BY PaymentWriters DEF vars
<1>2. /\ payments[p] \in Row /\ payments \in [Payments -> Row]
      /\ calls[c].snap \in Row /\ calls[c].dirty \in SUBSET Columns
  BY CallType DEF TypeInv, TypeOK
<1>3. CASE InsertPayment(c)
  BY <1>3, InsertGoesToTheRail
<1>4. CASE SaveUpdate(c)
  <2> DEFINE row == Written(payments[p], calls[c].snap, calls[c].dirty)
  <2>1. row.createdAt = payments[p].createdAt
    BY <1>2, WrittenType
  <2>2. p = calls[c].pay => payments'[p] \in {row, payments[p]}
    BY <1>2, <1>4 DEF SaveUpdate
  <2>3. p # calls[c].pay => payments'[p] = payments[p]
    BY <1>2, <1>4 DEF SaveUpdate
  <2> HIDE DEF row
  <2> QED
    BY <2>1, <2>2, <2>3
<1>5. CASE AfterApply(c)
  BY <1>2, <1>5 DEF AfterApply, Row
<1>6. CASE RecordAttempt(c) \/ RefundCommit(c)
  BY <1>2, <1>6 DEF RecordAttempt, RefundCommit, Row
<1> QED
  BY <1>1, <1>3, <1>4, <1>5, <1>6

\* The clock runs forward.
LEMMA ClockRuns ==
  ASSUME TypeInv, [Next]_vars
  PROVE  /\ now \in Nat /\ now' \in {now, now + 1}
         /\ now' # now => Tick
<1>0. now \in Nat
  BY DEF TypeInv, TypeOK
<1>1. CASE Tick \/ UNCHANGED vars
  BY <1>0, <1>1 DEF Tick, vars
<1>2. CASE ProviderSettle \/ Restart
  BY <1>0, <1>2 DEF ProviderSettle, Restart
<1>3. ASSUME NEW c \in Calls,
             \/ Initiate(c) \/ Confirm(c) \/ Save(c) \/ Reply(c) \/ Refund(c)
      PROVE  now' = now
  BY <1>3 DEF Initiate, InitiateStart, CheckBooking, InsertPayment, ReadWinner,
     RailInitiate, Confirm, WebhookReceive, RejectWebhook, VerifyReturnStart,
     VerifyAnswer, Apply, LogNoOp, LogApplied, Save, SaveSelect, SaveUpdate,
     Reply, Refund, RefundLock, RefundSum, RefundCommit, RefundProvider
<1>4. ASSUME NEW c \in Calls, ReconciliationPass(c) \/ Reconcile(c) \/ Administer(c)
      PROVE  now' = now
  BY <1>4 DEF ReconciliationPass, CronStart, SweepOne, FindAwaiting, PollOne,
     PassEnd, Reconcile, AfterApply, RecordAttempt, Escalate, Administer,
     ForceReconcile, ResolveManually, VoidPayment
<1> QED
  BY <1>0, <1>1, <1>2, <1>3, <1>4 DEF Next, HttpStep, CronStep, Confirm, Calls

\* What a call knows of a payment's age stays true.
LEMMA TimelyStands ==
  ASSUME TypeInv, RefundInv, [Next]_vars, NEW call, Timely(call, payments, now),
         call.time \in Nat
  PROVE  Timely(call, payments', now')
<1>1. \A p \in Payments : Exists(p) =>
        Exists(p)' /\ payments'[p].createdAt = payments[p].createdAt
  BY DatesStand
<1>2. now \in Nat /\ now' \in {now, now + 1}
  BY ClockRuns
<1>3. call.time <= now'
  BY <1>2 DEF Timely
<1>4. \A p, row : Dated(p, row, payments) => Dated(p, row, payments')
  BY <1>1 DEF Dated, Exists
<1>5. MayEscalate(call, payments) => MayEscalate(call, payments')
  BY <1>1 DEF MayEscalate, Exists
<1> QED
  BY <1>3, <1>4, <1>5 DEF Timely

\* An answer has no pass and no batch.
LEMMA DoneTime ==
  ASSUME NEW call, NEW result
  PROVE  Done(call, result).time = 0 /\ Done(call, result).batch = {}
<1> DEFINE answer == [NewCall(call.op, call.pay) EXCEPT !.at = "done", !.arg = result]
           full == [answer EXCEPT !.given = call.given, !.snap = call.snap]
<1>1. answer.time = 0 /\ full.time = 0
  BY DEF NewCall, IdleCall
<1>2. Done(call, result) \in {answer, full}
  BY DEF Done
<1> HIDE DEF answer, full
<1> QED
  BY <1>1, <1>2, DoneFields

\* A call that is not on its way to an escalation knows enough if it keeps its
\* time and takes nothing into its batch.
LEMMA UnwatchedIsTimely ==
  ASSUME TypeInv, CallsTimely, NEW c \in Calls, NEW call, GoTo(c, call),
         call.time \in {0, calls[c].time}, call.batch \subseteq calls[c].batch,
         \/ call.at \notin {"verify", "record", "escalate", "save", "flush"}
         \/ call.at = "save" /\ call.snap.status # "MANUAL_REVIEW"
  PROVE  GoesOnTimely(c)
<1>1. call.time <= now
  BY DEF TypeInv, TypeOK, CallsTimely, Timely
<1> QED
  BY <1>1 DEF CallsTimely, Timely, GoesOnTimely

\* Neither is one that ends.
LEMMA EndsAreTimely ==
  ASSUME TypeInv, CallsTimely, NEW c \in Calls,
         \/ GoTo(c, IdleCall) \/ GoTo(c, Thrown(calls[c]))
         \/ GoTo(c, AfterItem(calls[c])) \/ GoTo(c, AfterSave(calls[c]))
         \/ GoTo(c, Applied(calls[c]))
         \/ \E call, result : GoTo(c, Done(call, result))
  PROVE  GoesOnTimely(c)
<1>0. calls[c] \in Call
  BY CallType
<1>1. ASSUME NEW call, NEW result, GoTo(c, Done(call, result))
      PROVE  GoesOnTimely(c)
  <2>1. /\ Done(call, result).at = "done" /\ Done(call, result).time = 0
        /\ Done(call, result).batch = {}
    BY DoneFields, DoneTime
  <2> QED
    BY <1>1, <2>1, UnwatchedIsTimely
<1>2. CASE GoTo(c, IdleCall)
  <2>1. IdleCall.at = "idle" /\ IdleCall.time = 0 /\ IdleCall.batch = {}
    BY DEF IdleCall
  <2> QED
    BY <1>2, <2>1, UnwatchedIsTimely
<1>3. ASSUME NEW label \in {"sweep", "poll"}, GoTo(c, NextItem(calls[c], label))
      PROVE  GoesOnTimely(c)
  <2> DEFINE next == NextItem(calls[c], label)
  <2>1. next.at = label /\ next.time = calls[c].time /\ next.batch = calls[c].batch
    BY <1>0 DEF NextItem, Call
  <2> HIDE DEF next
  <2> QED
    BY <1>3, <2>1, UnwatchedIsTimely DEF next
<1>4. CASE GoTo(c, Thrown(calls[c]))
  BY <1>1, <1>2, <1>4 DEF Thrown
<1>5. CASE GoTo(c, AfterItem(calls[c]))
  BY <1>1, <1>3, <1>5 DEF AfterItem
<1>6. CASE GoTo(c, AfterSave(calls[c]))
  <2> DEFINE logs == [calls[c] EXCEPT !.at = "log_applied", !.dirty = {}]
  <2>1. logs.at = "log_applied" /\ logs.time = calls[c].time /\ logs.batch = calls[c].batch
    BY <1>0 DEF Call
  <2>2. \/ \E result : GoTo(c, Done(calls[c], result))
        \/ GoTo(c, logs)
        \/ \E label \in {"sweep", "poll"} : GoTo(c, NextItem(calls[c], label))
    BY <1>6 DEF AfterSave
  <2> HIDE DEF logs
  <2> QED
    BY <1>1, <1>3, <2>1, <2>2, UnwatchedIsTimely
<1>7. CASE GoTo(c, Applied(calls[c]))
  <2> DEFINE next == At(calls[c], "after_apply")
  <2>1. next.at = "after_apply" /\ next.time = calls[c].time /\ next.batch = calls[c].batch
    BY <1>0 DEF At, Call
  <2>2. GoTo(c, next) \/ \E result : GoTo(c, Done(calls[c], result))
    BY <1>7 DEF Applied
  <2> HIDE DEF next
  <2> QED
    BY <1>1, <2>1, <2>2, UnwatchedIsTimely
<1> QED
  BY <1>1, <1>2, <1>4, <1>5, <1>6, <1>7

\* Steps of initiate() and of refunds.
LEMMA InitiateIsTimely ==
  ASSUME TypeInv, CallsTimely, NEW c \in Calls, Initiate(c) \/ Refund(c)
  PROVE  GoesOnTimely(c)
<1>0. calls[c] \in Call /\ calls[c].snap \in Row
  BY CallType
<1>1. CASE InitiateStart(c)
  <2> DEFINE first(req) ==
               [NewCall("initiate", req.key) EXCEPT !.given = NewRow(req, now)]
             next(req) == At(first(req), "check_booking")
  <2>1. \E req \in Requests : \/ GoTo(c, next(req))
                              \/ \E call, result : GoTo(c, Done(call, result))
    BY <1>1 DEF InitiateStart
  <2>2. \A req : next(req).at = "check_booking" /\ next(req).time = 0 /\ next(req).batch = {}
    BY DEF At, NewCall, IdleCall
  <2> HIDE DEF next
  <2> QED
    BY <2>1, <2>2, UnwatchedIsTimely, EndsAreTimely
<1>2. CASE CheckBooking(c)
  <2> DEFINE next == At(calls[c], "insert")
  <2>1. GoTo(c, Done(calls[c], "conflict")) \/ GoTo(c, next)
    BY <1>2 DEF CheckBooking
  <2>2. next.at = "insert" /\ next.time = calls[c].time /\ next.batch = calls[c].batch
    BY <1>0 DEF At, Call
  <2> HIDE DEF next
  <2> QED
    BY <2>1, <2>2, UnwatchedIsTimely, EndsAreTimely
<1>3. CASE InsertPayment(c)
  <2> DEFINE row == NewRow(calls[c].given.req, now)
             next == [calls[c] EXCEPT !.at = "rail_initiate", !.snap = row]
             again == At(calls[c], "read_winner")
  <2>1. GoTo(c, next) \/ GoTo(c, Done(calls[c], "conflict")) \/ GoTo(c, again)
    BY <1>3 DEF InsertPayment
  <2>2. /\ next.at = "rail_initiate" /\ next.time = calls[c].time
        /\ next.batch = calls[c].batch
        /\ again.at = "read_winner" /\ again.time = calls[c].time
        /\ again.batch = calls[c].batch
    BY <1>0 DEF At, Call
  <2> HIDE DEF next, again
  <2> QED
    BY <2>1, <2>2, UnwatchedIsTimely, EndsAreTimely
<1>4. CASE ReadWinner(c)
  BY <1>4, EndsAreTimely DEF ReadWinner
<1>5. CASE RailInitiate(c)
  <2> DEFINE row == AwaitingConfirmation(calls[c].snap)
             next == [calls[c] EXCEPT !.at = "save", !.snap = row]
  <2>1. GoTo(c, next) \/ GoTo(c, Done(calls[c], "error"))
    BY <1>5 DEF RailInitiate
  <2>2. row.status = "AWAITING_CONFIRMATION"
    BY <1>0 DEF AwaitingConfirmation, Row
  <2>3. /\ next.at = "save" /\ next.time = calls[c].time
        /\ next.batch = calls[c].batch /\ next.snap = row
    BY <1>0 DEF Call
  <2> HIDE DEF next, row
  <2> QED
    BY <2>1, <2>2, <2>3, UnwatchedIsTimely, EndsAreTimely
<1>6. CASE RefundLock(c)
  <2> DEFINE next(p, amount) == [NewCall("refund", p) EXCEPT
                  !.at = "refund_sum", !.snap = payments[p], !.amount = amount]
  <2>1. PICK p, amount : GoTo(c, next(p, amount))
    BY <1>6 DEF RefundLock
  <2>2. /\ next(p, amount).at = "refund_sum" /\ next(p, amount).time = 0
        /\ next(p, amount).batch = {}
    BY DEF NewCall, IdleCall
  <2> HIDE DEF next
  <2> QED
    BY <2>1, <2>2, UnwatchedIsTimely
<1>7. CASE RefundSum(c) \/ RefundCommit(c) \/ RefundProvider(c)
  <2> DEFINE sums == [calls[c] EXCEPT !.at = "refund_commit", !.sum = refunded[calls[c].pay]]
             pays == [calls[c] EXCEPT !.at = "refund_provider", !.sum = 0]
             tries == [calls[c] EXCEPT !.sum = @ + 1]
  <2>1. \/ GoTo(c, sums) \/ GoTo(c, pays)
        \/ GoTo(c, tries) /\ calls[c].at = "refund_provider"
        \/ \E result : GoTo(c, Done(calls[c], result))
    BY <1>7 DEF RefundSum, RefundCommit, RefundProvider, Suspended
  <2>2. /\ sums.at = "refund_commit" /\ sums.time = calls[c].time
        /\ sums.batch = calls[c].batch
        /\ pays.at = "refund_provider" /\ pays.time = calls[c].time
        /\ pays.batch = calls[c].batch
        /\ tries.at = calls[c].at /\ tries.time = calls[c].time
        /\ tries.batch = calls[c].batch
    BY <1>0 DEF Call
  <2> HIDE DEF sums, pays, tries
  <2> QED
    BY <2>1, <2>2, UnwatchedIsTimely, EndsAreTimely
<1> QED
  BY <1>1, <1>2, <1>3, <1>4, <1>5, <1>6, <1>7 DEF Initiate, Refund

\* Steps of webhooks, answers, apply() and replies.  A pass whose provider
\* answers goes on with the payment it was given.
LEMMA ConfirmIsTimely ==
  ASSUME TypeInv, CallsTimely, NEW c \in Calls, Confirm(c) \/ Reply(c)
  PROVE  GoesOnTimely(c)
<1> DEFINE call == calls[c]
<1>0. call \in Call /\ Timely(call, payments, now)
  BY CallType DEF CallsTimely
<1>1. CASE WebhookReceive(c)
  <2> DEFINE next(p, outcome) ==
        [NewCall("webhook", p) EXCEPT !.at = "apply", !.arg = outcome]
  <2>1. \E p \in Payments : \E outcome \in Answers(p) : GoTo(c, next(p, outcome))
    BY <1>1 DEF WebhookReceive
  <2>2. PICK p, outcome : GoTo(c, next(p, outcome))
    BY <2>1
  <2>3. /\ next(p, outcome).at = "apply" /\ next(p, outcome).time = 0
        /\ next(p, outcome).batch = {}
    BY DEF NewCall, IdleCall
  <2> HIDE DEF next
  <2> QED
    BY <2>2, <2>3, UnwatchedIsTimely
<1>2. CASE RejectWebhook(c)
  <2>1. GoTo(c, call)
    BY <1>2 DEF RejectWebhook, GoTo, TypeInv, TypeOK
  <2> QED
    BY <1>0, <2>1 DEF GoesOnTimely
<1>3. CASE VerifyReturnStart(c)
  <2> DEFINE first(p) == [NewCall("verify_return", p) EXCEPT !.given = payments[p]]
             next(p) == At(first(p), "verify")
  <2>1. PICK p : GoTo(c, next(p)) \/ \E result : GoTo(c, Done(first(p), result))
    BY <1>3 DEF VerifyReturnStart
  <2>2. /\ next(p).at = "verify" /\ next(p).op = "verify_return"
        /\ next(p).time = 0 /\ next(p).batch = {}
    BY DEF At, NewCall, IdleCall
  <2> HIDE DEF next
  <2>3. Timely(next(p), payments, now)
    BY <2>2 DEF Timely, TypeInv, TypeOK
  <2> QED
    BY <2>1, <2>3, EndsAreTimely DEF GoesOnTimely
<1>4. CASE VerifyAnswer(c)
  <2> DEFINE asked(answer) == [call EXCEPT !.at = "apply", !.arg = answer]
             counted(answer) == [call EXCEPT !.at = "record", !.arg = answer]
             answers == IF call.given.ref THEN Answers(call.pay) ELSE {}
  <2>1. PICK answer \in answers \cup {"error"} :
          GoTo(c, IF IsVerdict(answer) THEN asked(answer)
                  ELSE IF call.op = "verify_return" THEN Done(call, answer)
                  ELSE counted(answer))
    BY <1>4 DEF VerifyAnswer
  <2>2. /\ asked(answer).at = "apply" /\ asked(answer).time = call.time
        /\ asked(answer).batch = call.batch
    BY <1>0 DEF Call
  <2>3. /\ counted(answer).at = "record" /\ counted(answer).time = call.time
        /\ counted(answer).batch = call.batch /\ counted(answer).pay = call.pay
        /\ counted(answer).given = call.given /\ counted(answer).arg = answer
    BY <1>0 DEF Call
  <2>4. call.at = "verify" /\ call.pay \in Payments
    BY <1>4, CallType DEF VerifyAnswer, Suspended, Working, Labels
  <2>5. ~IsVerdict(answer) => answer \in {"pending", "error"}
    BY <2>1, <2>4, AnswersType DEF IsVerdict, Outcomes
  <2>6. \/ GoTo(c, asked(answer)) \/ GoTo(c, Done(call, answer))
        \/ ~IsVerdict(answer) /\ call.op # "verify_return" /\ GoTo(c, counted(answer))
    BY <2>1
  <2> HIDE DEF asked, counted, answers, call
  <2>7. ~IsVerdict(answer) /\ call.op # "verify_return" =>
          Timely(counted(answer), payments, now)
    BY <1>0, <2>3, <2>4, <2>5 DEF Timely
  <2> QED
    BY <2>2, <2>6, <2>7, UnwatchedIsTimely, EndsAreTimely DEF GoesOnTimely, call
<1>5. CASE Apply(c)
  <2> DEFINE row == payments[call.pay]
             entity == [row EXCEPT !.status = Implied(call.arg)]
             lost == [call EXCEPT !.at = "log", !.snap = NoRow]
             noop == [call EXCEPT !.at = "log", !.snap = row]
             moves == [call EXCEPT !.at = "save", !.snap = entity]
  <2>1. GoTo(c, lost) \/ GoTo(c, noop) \/ GoTo(c, Thrown(call)) \/ GoTo(c, moves)
    BY <1>5 DEF Apply
  <2>2. call.pay \in Payments /\ row \in Row
    BY <1>5, CallType, PaymentType DEF Apply, Suspended, Working, Labels
  <2>3. entity.status # "MANUAL_REVIEW"
    BY <2>2 DEF Row, Implied
  <2>4. /\ lost.at = "log" /\ lost.time = call.time /\ lost.batch = call.batch
        /\ noop.at = "log" /\ noop.time = call.time /\ noop.batch = call.batch
        /\ moves.at = "save" /\ moves.time = call.time /\ moves.batch = call.batch
        /\ moves.snap = entity
    BY <1>0 DEF Call
  <2> HIDE DEF lost, noop, moves, entity, row
  <2> QED
    BY <2>1, <2>3, <2>4, UnwatchedIsTimely, EndsAreTimely
<1>6. CASE LogNoOp(c) \/ LogApplied(c) \/ Reply(c)
  BY <1>6, EndsAreTimely DEF LogNoOp, LogApplied, Reply
<1> QED
  BY <1>1, <1>2, <1>3, <1>4, <1>5, <1>6 DEF Confirm

\* Steps of save().
LEMMA SaveIsTimely ==
  ASSUME TypeInv, CallsTimely, NEW c \in Calls, Save(c)
  PROVE  GoesOnTimely(c)
<1> DEFINE call == calls[c]
           flush == [call EXCEPT !.at = "flush",
                                 !.dirty = Changed(payments[call.pay], call.snap)]
<1>0. call \in Call /\ Timely(call, payments, now)
  BY CallType DEF CallsTimely
<1>1. \/ GoTo(c, AfterSave(call)) \/ GoTo(c, Done(call, "conflict"))
      \/ call.at = "save" /\ GoTo(c, flush)
  BY DEF Save, SaveSelect, SaveUpdate, Suspended
<1>2. /\ flush.at = "flush" /\ flush.time = call.time /\ flush.batch = call.batch
      /\ flush.snap = call.snap /\ flush.pay = call.pay /\ flush.arg = call.arg
  BY <1>0 DEF Call
<1> HIDE DEF flush
<1>3. call.at = "save" => Timely(flush, payments, now)
  BY <1>0, <1>2 DEF Timely, MayEscalate
<1> QED
  BY <1>1, <1>3, EndsAreTimely DEF GoesOnTimely

\* The entities that a pass finds have the dates of their rows.
LEMMA SnapshotsAreDated ==
  ASSUME NEW found \in SUBSET Payments, \A p \in found : Exists(p)
  PROVE  \A item \in Snapshots(found) : Dated(item[1], item[2], payments)
BY DEF Snapshots, Dated, Exists

\* Steps of a scheduled pass.
LEMMA PassIsTimely ==
  ASSUME TypeInv, CallsTimely, NEW c \in Calls, ReconciliationPass(c)
  PROVE  GoesOnTimely(c)
<1> DEFINE call == calls[c]
<1>0. /\ call \in Call /\ Timely(call, payments, now) /\ now \in Nat
      /\ call.batch \in SUBSET (Payments \X Row)
  BY CallType DEF CallsTimely, TypeInv, TypeOK
<1>1. CASE CronStart(c)
  <2> DEFINE found == {p \in Payments : IsExpired(payments[p])}
             next == [NewCall("cron", None) EXCEPT
                        !.at = "sweep", !.time = now, !.batch = Snapshots(found)]
  <2>1. GoTo(c, next)
    BY <1>1 DEF CronStart
  <2>2. next.at = "sweep" /\ next.time = now /\ next.batch = Snapshots(found)
    BY DEF NewCall, IdleCall
  <2>3. found \in SUBSET Payments /\ \A p \in found : Exists(p)
    BY DEF IsExpired, OpenStatuses, Exists
  <2> HIDE DEF next, found
  <2>4. Timely(next, payments, now)
    BY <1>0, <2>2, <2>3, SnapshotsAreDated DEF Timely
  <2> QED
    BY <2>1, <2>4 DEF GoesOnTimely
<1>2. CASE SweepOne(c)
  <2> DEFINE next(item) == [call EXCEPT !.at = "save", !.pay = item[1],
                              !.snap = Expired(item[2]), !.batch = @ \ {item}]
  <2>1. PICK item \in call.batch : GoTo(c, next(item))
    BY <1>2 DEF SweepOne
  <2>2. /\ next(item).at = "save" /\ next(item).time = call.time
        /\ next(item).snap = Expired(item[2])
        /\ next(item).batch = call.batch \ {item}
    BY <1>0 DEF Call
  <2>3. Expired(item[2]).status # "MANUAL_REVIEW"
    BY <1>0, <2>1 DEF Expired, Row
  <2> HIDE DEF next
  <2> QED
    BY <2>1, <2>2, <2>3, UnwatchedIsTimely
<1>3. CASE FindAwaiting(c)
  <2> DEFINE due(found) == {item \in Snapshots(found) : IsDueForPoll(item[2], call.time)}
             next(found) == [call EXCEPT !.at = "poll", !.batch = due(found)]
  <2>1. PICK found \in SUBSET {p \in Payments : payments[p].status = "AWAITING_CONFIRMATION"} :
          GoTo(c, next(found))
    BY <1>3 DEF FindAwaiting
  <2>2. /\ next(found).at = "poll" /\ next(found).time = call.time
        /\ next(found).batch = due(found)
    BY <1>0 DEF Call
  <2>3. due(found) \subseteq Snapshots(found)
    OBVIOUS
  <2>4. \A p \in found : p \in Payments /\ Exists(p)
    BY <2>1 DEF Exists
  <2> HIDE DEF next, due
  <2>5. Timely(next(found), payments, now)
    BY <1>0, <2>2, <2>3, <2>4, SnapshotsAreDated DEF Timely
  <2> QED
    BY <2>1, <2>5 DEF GoesOnTimely
<1>4. CASE PollOne(c)
  <2> DEFINE next(item) == [call EXCEPT !.at = "verify", !.pay = item[1],
                                  !.given = item[2], !.batch = @ \ {item}]
  <2>1. PICK item \in call.batch : GoTo(c, next(item))
    BY <1>4 DEF PollOne
  <2>2. /\ next(item).at = "verify" /\ next(item).time = call.time
        /\ next(item).pay = item[1] /\ next(item).given = item[2]
        /\ next(item).batch = call.batch \ {item}
    BY <1>0 DEF Call
  <2> HIDE DEF next
  <2>3. Timely(next(item), payments, now)
    BY <1>0, <2>1, <2>2 DEF Timely
  <2> QED
    BY <2>1, <2>3 DEF GoesOnTimely
<1>5. CASE PassEnd(c)
  BY <1>5, EndsAreTimely DEF PassEnd
<1> QED
  BY <1>1, <1>2, <1>3, <1>4, <1>5 DEF ReconciliationPass

\* Steps of reconcileOne and of administrators.  recordAttempt escalates what
\* the provider called pending, by the date of the entity it was given.
LEMMA ReconcileIsTimely ==
  ASSUME TypeInv, CallsTimely, NEW c \in Calls, Reconcile(c) \/ Administer(c)
  PROVE  GoesOnTimely(c)
<1> DEFINE call == calls[c]
<1>0. /\ call \in Call /\ Timely(call, payments, now) /\ now \in Nat
      /\ call.time \in Nat
  BY CallType DEF CallsTimely, TypeInv, TypeOK
<1>1. CASE AfterApply(c)
  BY <1>1, EndsAreTimely DEF AfterApply
<1>2. CASE RecordAttempt(c)
  <2> DEFINE next == At(call, "escalate")
  <2>1. /\ call.at = "record"
        /\ \/ GoTo(c, AfterItem(call))
           \/ ShouldEscalate(call) /\ GoTo(c, next)
    BY <1>2 DEF RecordAttempt, Suspended
  <2>2. /\ next.at = "escalate" /\ next.time = call.time /\ next.batch = call.batch
        /\ next.pay = call.pay /\ next.arg = call.arg
    BY <1>0 DEF At, Call
  <2>3. /\ Dated(call.pay, call.given, payments) /\ call.arg \in {"pending", "error"}
    BY <1>0, <2>1 DEF Timely
  <2>4. call.given.createdAt \in Nat
    BY CallType DEF Row
  <2> HIDE DEF next, call
  <2>5. ASSUME ShouldEscalate(call)
        PROVE  MayEscalate(next, payments)
    <3>1. /\ call.arg = "pending"
          /\ call.time - payments[call.pay].createdAt >= ReviewAfter
      BY <2>3, <2>5 DEF ShouldEscalate, Age, Dated
    <3>2. payments[call.pay].createdAt \in Nat /\ ReviewAfter \in Nat
      BY <2>3, <2>4, ReconciliationAssumption DEF Dated
    <3>3. payments[call.pay].createdAt + ReviewAfter <= call.time
      BY <1>0, <3>1, <3>2
    <3> QED
      BY <2>2, <2>3, <3>1, <3>3 DEF MayEscalate, Dated
  <2>6. ShouldEscalate(call) => Timely(next, payments, now)
    BY <1>0, <2>2, <2>5 DEF Timely
  <2> QED
    BY <2>1, <2>6, EndsAreTimely DEF GoesOnTimely, call
<1>3. CASE Escalate(c)
  <2> DEFINE row == [payments[call.pay] EXCEPT !.status = "MANUAL_REVIEW"]
             next == [call EXCEPT !.at = "save", !.snap = row]
  <2>1. call.at = "escalate" /\ (GoTo(c, next) \/ GoTo(c, Thrown(call)))
    BY <1>3 DEF Escalate, Suspended
  <2>2. /\ next.at = "save" /\ next.time = call.time /\ next.batch = call.batch
        /\ next.pay = call.pay /\ next.arg = call.arg
    BY <1>0 DEF Call
  <2> HIDE DEF next
  <2>3. Timely(next, payments, now)
    BY <1>0, <2>1, <2>2 DEF Timely, MayEscalate
  <2> QED
    BY <2>1, <2>3, EndsAreTimely DEF GoesOnTimely
<1>4. CASE ForceReconcile(c)
  <2> DEFINE next(p) == [NewCall("force", p) EXCEPT
                     !.at = "verify", !.given = payments[p], !.time = now]
  <2>1. PICK p \in Payments : /\ payments[p].status = "AWAITING_CONFIRMATION"
                              /\ GoTo(c, next(p))
    BY <1>4 DEF ForceReconcile
  <2>2. /\ next(p).at = "verify" /\ next(p).time = now /\ next(p).batch = {}
        /\ next(p).pay = p /\ next(p).given = payments[p]
    BY DEF NewCall, IdleCall
  <2> HIDE DEF next
  <2>3. Timely(next(p), payments, now)
    BY <1>0, <2>1, <2>2 DEF Timely, Dated
  <2> QED
    BY <2>1, <2>3 DEF GoesOnTimely
<1>5. CASE ResolveManually(c)
  <2> DEFINE next(p, resolution) == [NewCall("resolve", p) EXCEPT
                     !.at = "save", !.snap = Resolved(payments[p], resolution)]
  <2>1. PICK p \in Payments, resolution \in {"CONFIRMED", "FAILED"} :
          GoTo(c, next(p, resolution))
    BY <1>5 DEF ResolveManually
  <2>2. /\ next(p, resolution).at = "save" /\ next(p, resolution).time = 0
        /\ next(p, resolution).batch = {}
        /\ next(p, resolution).snap = Resolved(payments[p], resolution)
    BY DEF NewCall, IdleCall
  <2>3. Resolved(payments[p], resolution).status # "MANUAL_REVIEW"
    BY <2>1, PaymentType DEF Resolved, Row
  <2> HIDE DEF next
  <2> QED
    BY <2>1, <2>2, <2>3, UnwatchedIsTimely
<1>6. CASE VoidPayment(c)
  <2> DEFINE row(p) == [payments[p] EXCEPT !.status = "VOIDED"]
             next(p) == [NewCall("void", p) EXCEPT !.at = "save", !.snap = row(p)]
  <2>1. PICK p \in Payments : GoTo(c, next(p))
    BY <1>6 DEF VoidPayment
  <2>2. /\ next(p).at = "save" /\ next(p).time = 0
        /\ next(p).batch = {} /\ next(p).snap = row(p)
    BY DEF NewCall, IdleCall
  <2>3. row(p).status # "MANUAL_REVIEW"
    BY <2>1, PaymentType DEF Row
  <2> HIDE DEF next, row
  <2> QED
    BY <2>1, <2>2, <2>3, UnwatchedIsTimely
<1> QED
  BY <1>1, <1>2, <1>3, <1>4, <1>5, <1>6 DEF Reconcile, Administer

\* Every step leaves every call timely.
LEMMA TimelyStep ==
  ASSUME TypeInv, RefundInv, CallsTimely, [Next]_vars
  PROVE  CallsTimely'
<1>1. ASSUME NEW d \in Calls
      PROVE  Timely(calls[d], payments', now')
  BY TimelyStands, CallType DEF CallsTimely
<1> SUFFICES \A d \in Calls : Timely(calls'[d], payments', now')
  BY DEF CallsTimely
<1>2. CASE ProviderSettle \/ Tick \/ UNCHANGED vars
  BY <1>1, <1>2 DEF ProviderSettle, Tick, vars
<1>3. CASE Restart
  <2>1. \A d \in Calls : calls'[d] = IdleCall
    BY <1>3 DEF Restart
  <2>2. IdleCall.at = "idle" /\ IdleCall.time = 0 /\ IdleCall.batch = {}
    BY DEF IdleCall
  <2> QED
    BY <1>3, <2>1, <2>2 DEF Timely, Restart, TypeInv, TypeOK
<1>4. ASSUME NEW c \in Calls, HttpStep(c) \/ CronStep(c)
      PROVE  \A d \in Calls : Timely(calls'[d], payments', now')
  <2>1. PICK call : GoTo(c, call) /\ Timely(call, payments, now)
    BY <1>4, InitiateIsTimely, ConfirmIsTimely, SaveIsTimely, PassIsTimely,
       ReconcileIsTimely DEF GoesOnTimely, HttpStep, CronStep, Confirm
  <2>2. calls'[c] = call /\ \A d \in Calls : d # c => calls'[d] = calls[d]
    BY <2>1 DEF GoTo, TypeInv, TypeOK
  <2>3. call \in Call
    BY <2>2, TypeStep DEF TypeInv, TypeOK
  <2>4. call.time \in Nat
    BY <2>3 DEF Call
  <2> QED
    BY <1>1, <2>1, <2>2, <2>4, TimelyStands
<1> QED
  BY <1>2, <1>3, <1>4 DEF Next, Calls

\* All calls are timely in every reachable state.
THEOREM CallsTimelyAlways == Spec => []CallsTimely
<1>1. Init => CallsTimely
  <2>1. IdleCall.at = "idle" /\ IdleCall.time = 0 /\ IdleCall.batch = {}
    BY DEF IdleCall
  <2> QED
    BY <2>1 DEF Init, CallsTimely, Timely
<1>2. TypeInv /\ RefundInv /\ CallsTimely /\ [Next]_vars => CallsTimely'
  BY TimelyStep
<1> QED
  BY <1>1, <1>2, TypeInvAlways, RefundInvAlways, PTL DEF Spec

\* A payment is escalated only when it is old, and only on the word of a
\* provider that could be asked and has no verdict, however passes overlap.
THEOREM EscalationsAreAnswered == Spec => EscalationNeedsAnswer
<1>1. ASSUME TypeInv, CallsTimely, [Next]_vars, NEW p \in Payments,
             payments[p].status # "MANUAL_REVIEW",
             payments'[p].status = "MANUAL_REVIEW"
      PROVE  /\ payments[p].createdAt + ReviewAfter <= now
             /\ \E c \in Calls : /\ calls[c].pay = p
                                 /\ calls[c].at = "flush"
                                 /\ calls[c].arg = "pending"
  <2>1. PICK c \in Calls : \/ InsertPayment(c) \/ SaveUpdate(c) \/ AfterApply(c)
                          \/ RecordAttempt(c) \/ RefundCommit(c)
    BY <1>1, PaymentWriters DEF vars
  <2>2. CASE InsertPayment(c)
    BY <1>1, <2>2, InsertGoesToTheRail
  <2>3. CASE SaveUpdate(c)
    <3>1. /\ calls[c].pay = p /\ calls[c].at = "flush"
          /\ calls[c].snap.status = "MANUAL_REVIEW"
      BY <1>1, <2>3, UpdatedRow DEF SaveUpdate, Suspended
    <3>2. MayEscalate(calls[c], payments) /\ calls[c].time <= now
      BY <1>1, <3>1 DEF CallsTimely, Timely
    <3>3. /\ calls[c].time \in Nat /\ now \in Nat /\ ReviewAfter \in Nat
          /\ payments[p].createdAt \in Nat
      BY <1>1, CallType, PaymentType, ReconciliationAssumption
         DEF TypeInv, TypeOK, Row
    <3>4. payments[p].createdAt + ReviewAfter <= now
      BY <3>1, <3>2, <3>3 DEF MayEscalate
    <3> QED
      BY <3>1, <3>2, <3>4 DEF MayEscalate
  <2>4. CASE AfterApply(c) \/ RecordAttempt(c) \/ RefundCommit(c)
    BY <1>1, <2>4, OtherWriters
  <2> QED
    BY <2>1, <2>2, <2>3, <2>4
<1>2. TypeInv /\ CallsTimely /\ [Next]_vars =>
        [\A p \in Payments :
           /\ payments[p].status # "MANUAL_REVIEW"
           /\ payments'[p].status = "MANUAL_REVIEW"
           => /\ payments[p].createdAt + ReviewAfter <= now
              /\ \E c \in Calls : /\ calls[c].pay = p
                                  /\ calls[c].at = "flush"
                                  /\ calls[c].arg = "pending"]_vars
  BY <1>1
<1> QED
  BY <1>2, TypeInvAlways, CallsTimelyAlways, PTL DEF Spec, EscalationNeedsAnswer
==============================================================================
