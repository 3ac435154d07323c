---------------------------- MODULE PaymentTypes ----------------------------
(***************************************************************************)
(* The type invariant of the payments module, proved for every instance.   *)
(***************************************************************************)
EXTENDS PaymentsProperties, TLAPS

\* Where a call is in the middle of its work on one payment.
Working == Labels \ {"idle", "done", "sweep", "poll"}

\* TypeOK is not inductive: a call that works must work on some payment.
WellFormed == {call \in Call : call.at \in Working => call.pay \in Payments}

TypeInv == TypeOK /\ calls \in [Calls -> WellFormed]

(***************************************************************************)
(* Values the operators build.                                             *)
(***************************************************************************)

\* A request makes a well-formed row (buildInitiatedPayment).
LEMMA NewRowType ==
  ASSUME NEW req \in Requests \cup {NoRequest}, NEW time \in Nat
  PROVE  NewRow(req, time) \in Row
BY StoreAssumption
   DEF NewRow, Row, Statuses, Reasons, NeverReconciled

\* The row of a payment that does not exist is well-formed too.
LEMMA NoRowType == NoRow \in Row
<1>1. NewRow(NoRequest, 0) \in Row
  BY NewRowType
<1> QED
  BY <1>1 DEF NoRow, Row

\* A call that has just arrived is well-formed.
LEMMA NewCallType ==
  ASSUME NEW op \in AllOperations \cup {"none"}, NEW p \in Payments \cup {None}
  PROVE  /\ NewCall(op, p) \in Call
         /\ NewCall(op, p).at = "idle"
         /\ NewCall(op, p).pay = p
BY NoRowType DEF NewCall, IdleCall, Call, Labels, Args

\* So is the idle call.
LEMMA IdleCallType == IdleCall \in WellFormed
BY NoRowType DEF IdleCall, Call, Labels, Args, WellFormed, Working

\* Answering keeps a call well-formed.
LEMMA DoneType ==
  ASSUME NEW call \in Call, NEW result \in Args
  PROVE  /\ Done(call, result) \in WellFormed
         /\ Done(call, result).at = "done"
<1> DEFINE answer == [NewCall(call.op, call.pay) EXCEPT !.at = "done", !.arg = result]
<1> DEFINE fresh == NewCall(call.op, call.pay)
<1>1. answer \in Call /\ answer.at = "done"
  <2>1. call.op \in AllOperations \cup {"none"} /\ call.pay \in Payments \cup {None}
    BY DEF Call
  <2>2. fresh \in Call
    BY <2>1, NewCallType
  <2> HIDE DEF fresh
  <2>3. [fresh EXCEPT !.at = "done", !.arg = result] \in Call
    BY <2>2 DEF Call, Labels
  <2>4. [fresh EXCEPT !.at = "done", !.arg = result].at = "done"
    BY <2>2 DEF Call
  <2> QED
    BY <2>3, <2>4 DEF fresh
<1>2. [answer EXCEPT !.given = call.given, !.snap = call.snap] \in Call
  BY <1>1 DEF Call
<1>3. [answer EXCEPT !.given = call.given, !.snap = call.snap].at = "done"
  BY <1>1 DEF Call
<1> QED
  BY <1>1, <1>2, <1>3 DEF Done, WellFormed, Working

\* So does moving a call to another await that needs nothing new.
LEMMA AtType ==
  ASSUME NEW call \in Call, NEW label \in Labels,
         label \in Working => call.pay \in Payments
  PROVE  At(call, label) \in WellFormed
BY DEF At, Call, WellFormed

\* So does going back to the loop of a pass.
LEMMA NextItemType ==
  ASSUME NEW call \in Call, NEW label \in {"sweep", "poll"}
  PROVE  NextItem(call, label) \in WellFormed
<1>1. [call EXCEPT !.at = label, !.pay = None, !.snap = NoRow, !.given = NoRow,
                   !.arg = "none", !.dirty = {}] \in Call
  BY NoRowType DEF Call, Labels, Args
<1>2. NextItem(call, label).at = label
  BY DEF NextItem, Call
<1> QED
  BY <1>1, <1>2 DEF NextItem, WellFormed, Working

\* So does an exception.
LEMMA ThrownType ==
  ASSUME NEW call \in Call
  PROVE  Thrown(call) \in WellFormed
BY DoneType, IdleCallType DEF Thrown, Args

\* So does ending the reconciliation of one payment.
LEMMA AfterItemType ==
  ASSUME NEW call \in Call
  PROVE  AfterItem(call) \in WellFormed
BY DoneType, NextItemType DEF AfterItem, Args

\* So does returning from save().
LEMMA AfterSaveType ==
  ASSUME NEW call \in WellFormed, call.at \in Working
  PROVE  AfterSave(call) \in WellFormed
<1>1. call \in Call /\ call.pay \in Payments
  BY DEF WellFormed
<1>2. Done(call, "ok") \in WellFormed
  BY <1>1, DoneType DEF Args
<1>3. [call EXCEPT !.at = "log_applied", !.dirty = {}] \in Call
  BY <1>1 DEF Call, Labels
<1>4. [call EXCEPT !.at = "log_applied", !.dirty = {}].pay = call.pay
  BY <1>1 DEF Call
<1> QED
  BY <1>1, <1>2, <1>3, <1>4, NextItemType DEF AfterSave, WellFormed

\* So does returning from apply().
LEMMA AppliedType ==
  ASSUME NEW call \in WellFormed, call.at \in Working
  PROVE  Applied(call) \in WellFormed
<1>1. call \in Call /\ call.pay \in Payments /\ call.arg \in Args
  BY DEF WellFormed, Call
<1> QED
  BY <1>1, DoneType, AtType DEF Applied, Labels

\* Replacing one call by a well-formed one keeps all calls well-formed.
LEMMA GoToType ==
  ASSUME NEW c \in Calls, NEW call \in WellFormed,
         calls \in [Calls -> WellFormed], GoTo(c, call)
  PROVE  calls' \in [Calls -> WellFormed]
BY DEF GoTo

\* save() writes a well-formed row and touches the mutable columns only.
LEMMA WrittenType ==
  ASSUME NEW row \in Row, NEW entity \in Row, NEW cols \in SUBSET Columns
  PROVE  /\ Written(row, entity, cols) \in Row
         /\ Written(row, entity, cols).req = row.req
         /\ Written(row, entity, cols).createdAt = row.createdAt
         /\ Written(row, entity, cols).status =
              IF "status" \in cols THEN entity.status ELSE row.status
<1> DEFINE status == IF "status" \in cols THEN entity.status ELSE row.status
           ref == IF "ref" \in cols THEN entity.ref ELSE row.ref
           reason == IF "reason" \in cols THEN entity.reason ELSE row.reason
           attempts == IF "attempts" \in cols THEN entity.attempts ELSE row.attempts
           last == IF "last" \in cols THEN entity.last ELSE row.last
<1>1. /\ status \in Statuses \cup {"ABSENT"} /\ ref \in BOOLEAN
      /\ reason \in Reasons /\ attempts \in 0..MaxAttempts
      /\ last \in Nat \cup {NeverReconciled}
  BY DEF Row
<1>2. Written(row, entity, cols) =
        [row EXCEPT !.status = status, !.ref = ref, !.reason = reason,
                    !.attempts = attempts, !.last = last]
  BY DEF Written
<1> HIDE DEF status, ref, reason, attempts, last
<1>3. Written(row, entity, cols) \in Row
  BY <1>1, <1>2 DEF Row
<1>4. /\ Written(row, entity, cols).req = row.req
      /\ Written(row, entity, cols).createdAt = row.createdAt
      /\ Written(row, entity, cols).status = status
  BY <1>2 DEF Row
<1> QED
  BY <1>3, <1>4 DEF status

(***************************************************************************)
(* Requests bring a payment and a positive amount.                         *)
(***************************************************************************)

\* A request is for a payment, a booking and an amount.
LEMMA RequestType ==
  ASSUME NEW req \in Requests
  PROVE  req.key \in Payments /\ req.booking \in Bookings /\ req.amount \in Nat \ {0}
BY StoreAssumption

(***************************************************************************)
(* Steps that write only calls, or calls and one row.                      *)
(***************************************************************************)

\* A step that writes no table preserves the invariant if its call stays
\* well-formed.
LEMMA QuietStep ==
  ASSUME TypeInv, NEW c \in Calls, NEW call \in WellFormed, GoTo(c, call),
         UNCHANGED <<payments, refunded, events, rowLock, charge, returned,
                     decisions, now, restarts>>
  PROVE  TypeInv'
<1>1. calls' \in [Calls -> WellFormed]
  BY GoToType DEF TypeInv
<1> QED
  BY <1>1 DEF TypeInv, TypeOK, WellFormed

\* So does a step that also writes one well-formed row.
LEMMA RowStep ==
  ASSUME TypeInv, NEW c \in Calls, NEW call \in WellFormed, GoTo(c, call),
         NEW p \in Payments, NEW row \in Row,
         payments' = [payments EXCEPT ![p] = row],
         UNCHANGED <<refunded, events, rowLock, charge, returned, decisions,
                     now, restarts>>
  PROVE  TypeInv'
<1>1. calls' \in [Calls -> WellFormed]
  BY GoToType DEF TypeInv
<1>2. payments' \in [Payments -> Row]
  BY DEF TypeInv, TypeOK
<1> QED
  BY <1>1, <1>2 DEF TypeInv, TypeOK, WellFormed

\* What TypeInv says of one call and one payment.
LEMMA CallType ==
  ASSUME TypeInv, NEW c \in Calls
  PROVE  /\ calls[c] \in WellFormed /\ calls[c] \in Call
         /\ calls[c].at \in Working => calls[c].pay \in Payments
         /\ calls[c].pay \in Payments \cup {None}
         /\ calls[c].snap \in Row /\ calls[c].given \in Row
         /\ calls[c].arg \in Args
         /\ calls[c].dirty \in SUBSET Columns
         /\ calls[c].batch \in SUBSET (Payments \X Row)
         /\ calls[c].time \in Nat /\ calls[c].amount \in Nat /\ calls[c].sum \in Nat
BY DEF TypeInv, WellFormed, Call

\* A call that works on something works on a payment.
LEMMA PaymentType ==
  ASSUME TypeInv, NEW p \in Payments
  PROVE  /\ payments[p] \in Row
         /\ refunded[p] \in Nat /\ returned[p] \in Nat
         /\ charge[p] \in Charges
         /\ rowLock[p] \in Calls \cup {None}
BY DEF TypeInv, TypeOK

(***************************************************************************)
(* Initiation.                                                             *)
(***************************************************************************)

\* InitiateStart keeps rows and calls well-formed.
LEMMA InitiateStartType ==
  ASSUME TypeInv, NEW c \in Calls, InitiateStart(c)
  PROVE  TypeInv'
<1>1. PICK req \in Requests :
        LET p == req.key
            call == [NewCall("initiate", p) EXCEPT !.given = NewRow(req, now)]
        IN GoTo(c, IF ~Exists(p) THEN At(call, "check_booking")
                   ELSE IF SamePayload(payments[p], req)
                        THEN Done([call EXCEPT !.snap = payments[p]], "ok")
                        ELSE Done(call, "conflict"))
  BY DEF InitiateStart
<1> DEFINE p == req.key
           fresh == NewCall("initiate", p)
           row == NewRow(req, now)
           call == [fresh EXCEPT !.given = row]
<1>2. p \in Payments /\ payments[p] \in Row /\ row \in Row
  BY RequestType, PaymentType, NewRowType DEF TypeInv, TypeOK
<1>3. fresh \in Call /\ fresh.pay = p
  BY <1>2, NewCallType DEF AllOperations
<1> HIDE DEF fresh, row, p
<1>4. call \in Call /\ call.pay = p
  BY <1>2, <1>3 DEF Call
<1>5. [call EXCEPT !.snap = payments[p]] \in Call
  BY <1>2, <1>4 DEF Call
<1> HIDE DEF call
<1>6. /\ At(call, "check_booking") \in WellFormed
      /\ Done(call, "conflict") \in WellFormed
      /\ Done([call EXCEPT !.snap = payments[p]], "ok") \in WellFormed
  BY <1>2, <1>4, <1>5, AtType, DoneType DEF Labels, Args
<1>7. \E next \in WellFormed : GoTo(c, next)
  BY <1>1, <1>6 DEF call, fresh, row, p
<1> QED
  BY <1>7, QuietStep DEF InitiateStart

\* CheckBooking keeps rows and calls well-formed.
LEMMA CheckBookingType ==
  ASSUME TypeInv, NEW c \in Calls, CheckBooking(c)
  PROVE  TypeInv'
<1>1. calls[c] \in Call /\ calls[c].pay \in Payments
  BY CallType DEF CheckBooking, Suspended, Working, Labels
<1>2. Done(calls[c], "conflict") \in WellFormed /\ At(calls[c], "insert") \in WellFormed
  BY <1>1, DoneType, AtType DEF Args, Labels
<1> QED
  BY <1>2, QuietStep DEF CheckBooking

\* InsertPayment keeps rows and calls well-formed.
LEMMA InsertPaymentType ==
  ASSUME TypeInv, NEW c \in Calls, InsertPayment(c)
  PROVE  TypeInv'
<1> DEFINE call == calls[c]
           row == NewRow(call.given.req, now)
<1>1. call \in Call /\ call.pay \in Payments /\ call.given \in Row
  BY CallType DEF InsertPayment, Suspended, Working, Labels
<1>2. row \in Row
  <2>1. call.given.req \in Requests \cup {NoRequest} /\ now \in Nat
    BY <1>1 DEF Row, TypeInv, TypeOK
  <2> QED
    BY <2>1, NewRowType
<1>3. Done(call, "conflict") \in WellFormed /\ At(call, "read_winner") \in WellFormed
  BY <1>1, DoneType, AtType DEF Args, Labels
<1>4. [call EXCEPT !.at = "rail_initiate", !.snap = row] \in WellFormed
  <2> HIDE DEF call, row
  <2>1. [call EXCEPT !.at = "rail_initiate", !.snap = row] \in Call
    BY <1>1, <1>2 DEF Call, Labels
  <2> QED
    BY <2>1, <1>1 DEF WellFormed, Call
<1>5. CASE UNCHANGED payments
  BY <1>3, <1>4, <1>5, QuietStep DEF InsertPayment
<1>6. CASE payments' = [payments EXCEPT ![call.pay] = row]
  BY <1>1, <1>2, <1>3, <1>4, <1>6, RowStep DEF InsertPayment
<1> QED
  BY <1>5, <1>6 DEF InsertPayment

\* ReadWinner keeps rows and calls well-formed.
LEMMA ReadWinnerType ==
  ASSUME TypeInv, NEW c \in Calls, ReadWinner(c)
  PROVE  TypeInv'
<1> DEFINE call == calls[c]
           row == payments[call.pay]
<1>1. call \in Call /\ call.pay \in Payments
  BY CallType DEF ReadWinner, Suspended, Working, Labels
<1>2. row \in Row
  BY <1>1, PaymentType
<1> HIDE DEF row
<1>3. [call EXCEPT !.snap = row] \in Call
  BY <1>1, <1>2 DEF Call
<1>4. Done([call EXCEPT !.snap = row], "ok") \in WellFormed
  BY <1>3, DoneType DEF Args
<1> QED
  BY <1>4, QuietStep DEF ReadWinner, row

\* RailInitiate keeps rows and calls well-formed.
LEMMA RailInitiateType ==
  ASSUME TypeInv, NEW c \in Calls, RailInitiate(c)
  PROVE  TypeInv'
<1> DEFINE call == calls[c]
           row == AwaitingConfirmation(call.snap)
<1>1. call \in Call /\ call.pay \in Payments /\ call.snap \in Row
  BY CallType DEF RailInitiate, Suspended, Working, Labels
<1>2. row \in Row
  BY <1>1 DEF AwaitingConfirmation, Row, Statuses
<1>3. Done(call, "error") \in WellFormed
  BY <1>1, DoneType DEF Args
<1>4. [call EXCEPT !.at = "save", !.snap = row] \in WellFormed
  <2> HIDE DEF call, row
  <2>1. [call EXCEPT !.at = "save", !.snap = row] \in Call
    BY <1>1, <1>2 DEF Call, Labels
  <2> QED
    BY <2>1, <1>1 DEF WellFormed, Call
<1>5. calls' \in [Calls -> WellFormed]
  BY <1>3, <1>4, GoToType DEF RailInitiate, TypeInv
<1>6. charge' \in [Payments -> Charges]
  BY DEF RailInitiate, TypeInv, TypeOK, Charges, Outcomes, Verdicts
<1> QED
  BY <1>5, <1>6 DEF RailInitiate, TypeInv, TypeOK, WellFormed

(***************************************************************************)
(* save().                                                                 *)
(***************************************************************************)

\* SaveSelect keeps rows and calls well-formed.
LEMMA SaveSelectType ==
  ASSUME TypeInv, NEW c \in Calls, SaveSelect(c)
  PROVE  TypeInv'
<1> DEFINE call == calls[c]
           cols == Changed(payments[call.pay], call.snap)
<1>1. call \in WellFormed /\ call.at \in Working /\ call.pay \in Payments /\ call \in Call
  BY CallType DEF SaveSelect, Suspended, Working, Labels
<1>2. AfterSave(call) \in WellFormed
  BY <1>1, AfterSaveType
<1>3. cols \in SUBSET Columns
  BY DEF Changed
<1> HIDE DEF cols
<1>4. [call EXCEPT !.at = "flush", !.dirty = cols] \in WellFormed
  <2> HIDE DEF call
  <2>1. [call EXCEPT !.at = "flush", !.dirty = cols] \in Call
    BY <1>1, <1>3 DEF Call, Labels
  <2> QED
    BY <2>1, <1>1 DEF WellFormed, Call
<1> QED
  BY <1>2, <1>4, QuietStep DEF SaveSelect, cols

\* SaveUpdate keeps rows and calls well-formed.
LEMMA SaveUpdateType ==
  ASSUME TypeInv, NEW c \in Calls, SaveUpdate(c)
  PROVE  TypeInv'
<1> DEFINE call == calls[c]
           row == Written(payments[call.pay], call.snap, call.dirty)
<1>1. call \in WellFormed /\ call.at \in Working /\ call.pay \in Payments /\ call \in Call
  BY CallType DEF SaveUpdate, Suspended, Working, Labels
<1>2. AfterSave(call) \in WellFormed /\ Done(call, "conflict") \in WellFormed
  BY <1>1, AfterSaveType, DoneType DEF Args
<1>3. row \in Row
  BY <1>1, CallType, PaymentType, WrittenType
<1>4. CASE UNCHANGED payments
  BY <1>2, <1>4, QuietStep DEF SaveUpdate
<1>5. CASE payments' = [payments EXCEPT ![call.pay] = row]
  BY <1>1, <1>2, <1>3, <1>5, RowStep DEF SaveUpdate
<1> QED
  BY <1>4, <1>5 DEF SaveUpdate

\* Reply keeps rows and calls well-formed.
LEMMA ReplyType ==
  ASSUME TypeInv, NEW c \in Calls, Reply(c)
  PROVE  TypeInv'
BY IdleCallType, QuietStep DEF Reply

(***************************************************************************)
(* Confirmation.                                                           *)
(***************************************************************************)

\* The provider answers with an outcome.
LEMMA AnswersType ==
  ASSUME NEW p \in Payments
  PROVE  Answers(p) \subseteq Outcomes /\ Outcomes \subseteq Args
BY DEF Answers, Outcomes, Verdicts, Args

\* WebhookReceive keeps rows and calls well-formed.
LEMMA WebhookReceiveType ==
  ASSUME TypeInv, NEW c \in Calls, WebhookReceive(c)
  PROVE  TypeInv'
<1>1. PICK p \in Payments, outcome \in Outcomes :
        GoTo(c, [NewCall("webhook", p) EXCEPT !.at = "apply", !.arg = outcome])
  BY AnswersType DEF WebhookReceive
<1> DEFINE fresh == NewCall("webhook", p)
<1>2. fresh \in Call /\ fresh.pay = p
  BY NewCallType DEF AllOperations
<1> HIDE DEF fresh
<1>3. [fresh EXCEPT !.at = "apply", !.arg = outcome] \in WellFormed
  <2>1. [fresh EXCEPT !.at = "apply", !.arg = outcome] \in Call
    BY <1>2, AnswersType DEF Call, Labels
  <2> QED
    BY <1>2, <2>1 DEF WellFormed, Call
<1>4. \E call \in WellFormed : GoTo(c, call)
  BY <1>1, <1>3 DEF fresh
<1> QED
  BY <1>4, QuietStep DEF WebhookReceive

\* RejectWebhook keeps rows and calls well-formed.
LEMMA RejectWebhookType ==
  ASSUME TypeInv, NEW c \in Calls, RejectWebhook(c)
  PROVE  TypeInv'
<1> DEFINE entry(anomaly) ==
             [pay |-> None, source |-> "WEBHOOK", status |-> "ABSENT",
              applied |-> FALSE, anomaly |-> anomaly]
<1>1. events' \subseteq Event
  <2>1. PICK anomaly \in {"invalid_signature", "malformed_payload"} :
          events' = events \cup {entry(anomaly)}
    BY DEF RejectWebhook
  <2>2. entry(anomaly) \in Event
    BY DEF Event, Sources
  <2> QED
    BY <2>1, <2>2 DEF TypeInv, TypeOK
<1> QED
  BY <1>1 DEF RejectWebhook, TypeInv, TypeOK

\* VerifyReturnStart keeps rows and calls well-formed.
LEMMA VerifyReturnStartType ==
  ASSUME TypeInv, NEW c \in Calls, VerifyReturnStart(c)
  PROVE  TypeInv'
<1>1. PICK p \in Payments :
        LET call == [NewCall("verify_return", p) EXCEPT !.given = payments[p]]
        IN GoTo(c, IF \/ payments[p].status \in TerminalStatuses
                      \/ ~payments[p].ref
                   THEN Done(call, "ok") ELSE At(call, "verify"))
  BY DEF VerifyReturnStart
<1> DEFINE fresh == NewCall("verify_return", p)
           row == payments[p]
           call == [fresh EXCEPT !.given = row]
<1>2. fresh \in Call /\ fresh.pay = p /\ row \in Row
  BY NewCallType, PaymentType DEF AllOperations
<1> HIDE DEF fresh, row
<1>3. call \in Call /\ call.pay = p
  BY <1>2 DEF Call
<1> HIDE DEF call
<1>4. Done(call, "ok") \in WellFormed /\ At(call, "verify") \in WellFormed
  BY <1>3, DoneType, AtType DEF Args, Labels
<1>5. \E next \in WellFormed : GoTo(c, next)
  BY <1>1, <1>4 DEF call, row, fresh
<1> QED
  BY <1>5, QuietStep DEF VerifyReturnStart

\* VerifyAnswer keeps rows and calls well-formed.
LEMMA VerifyAnswerType ==
  ASSUME TypeInv, NEW c \in Calls, VerifyAnswer(c)
  PROVE  TypeInv'
<1> DEFINE call == calls[c]
<1>1. call \in Call /\ call.pay \in Payments
  BY CallType DEF VerifyAnswer, Suspended, Working, Labels
<1>2. PICK answer \in Args :
        GoTo(c, IF IsVerdict(answer)
                THEN [call EXCEPT !.at = "apply", !.arg = answer]
                ELSE IF call.op = "verify_return" THEN Done(call, answer)
                ELSE [call EXCEPT !.at = "record", !.arg = answer])
  BY <1>1, AnswersType DEF VerifyAnswer, Args
<1> HIDE DEF call
<1>3. ASSUME NEW label \in {"apply", "record"}
      PROVE  [call EXCEPT !.at = label, !.arg = answer] \in WellFormed
  <2>1. [call EXCEPT !.at = label, !.arg = answer] \in Call
    BY <1>1, <1>3 DEF Call, Labels
  <2> QED
    BY <1>1, <2>1 DEF WellFormed, Call
<1>4. Done(call, answer) \in WellFormed
  BY <1>1, DoneType
<1>5. \E next \in WellFormed : GoTo(c, next)
  BY <1>2, <1>3, <1>4
<1> QED
  BY <1>5, QuietStep DEF VerifyAnswer

\* The status apply() moves to is one of the enum.
LEMMA ImpliedType ==
  ASSUME NEW outcome
  PROVE  Implied(outcome) \in {"CONFIRMED", "FAILED"}
BY DEF Implied

\* Apply keeps rows and calls well-formed.
LEMMA ApplyType ==
  ASSUME TypeInv, NEW c \in Calls, Apply(c)
  PROVE  TypeInv'
<1> DEFINE call == calls[c]
           row == payments[call.pay]
           next == Implied(call.arg)
           settled == [row EXCEPT !.status = next]
<1>1. call \in Call /\ call.pay \in Payments /\ row \in Row
  BY CallType, PaymentType DEF Apply, Suspended, Working, Labels
<1>2. settled \in Row
  BY <1>1, ImpliedType DEF Row, Statuses
<1> HIDE DEF settled, call, row
<1>3. ASSUME NEW label \in {"log", "save"}, NEW entity \in Row
      PROVE  [call EXCEPT !.at = label, !.snap = entity] \in WellFormed
  <2>1. [call EXCEPT !.at = label, !.snap = entity] \in Call
    BY <1>1, <1>3 DEF Call, Labels
  <2> QED
    BY <1>1, <2>1 DEF WellFormed, Call
<1>4. /\ [call EXCEPT !.at = "log", !.snap = NoRow] \in WellFormed
      /\ [call EXCEPT !.at = "log", !.snap = row] \in WellFormed
      /\ [call EXCEPT !.at = "save", !.snap = settled] \in WellFormed
      /\ Thrown(call) \in WellFormed
  BY <1>1, <1>2, <1>3, NoRowType, ThrownType
<1>5. \E after \in WellFormed : GoTo(c, after)
  BY <1>4 DEF Apply, call, row, settled
<1> QED
  BY <1>5, QuietStep DEF Apply

\* Source yields a member of the enum ConfirmationSource.
LEMMA SourceType ==
  ASSUME NEW call
  PROVE  Source(call) \in Sources
BY DEF Source, Sources

\* LogNoOp keeps rows and calls well-formed.
LEMMA LogNoOpType ==
  ASSUME TypeInv, NEW c \in Calls, LogNoOp(c)
  PROVE  TypeInv'
<1> DEFINE call == calls[c]
<1>1. call \in WellFormed /\ call.at \in Working /\ call.pay \in Payments
      /\ call.snap \in Row
  BY CallType DEF LogNoOp, Suspended, Working, Labels
<1>2. calls' \in [Calls -> WellFormed]
  BY <1>1, AppliedType, GoToType DEF LogNoOp, TypeInv
<1>3. call.snap.status \in Statuses \cup {"ABSENT"}
  BY <1>1 DEF Row
<1>4. events' \subseteq Event
  <2> DEFINE payment == IF call.snap = NoRow THEN None ELSE call.pay
             entry == [pay |-> payment, source |-> Source(call),
                       status |-> call.snap.status, applied |-> FALSE,
                       anomaly |-> Anomaly(call)]
  <2>1. Anomaly(call) \in {"none", "payment_not_found", "conflicting_event"}
    BY DEF Anomaly
  <2>2. payment \in Payments \cup {None}
    BY <1>1
  <2>3. entry \in Event
    <3> HIDE DEF payment, call
    <3> QED
      BY <1>3, <2>1, <2>2, SourceType DEF Event
  <2>4. events' = events \cup {entry}
    BY DEF LogNoOp
  <2> QED
    BY <2>3, <2>4 DEF TypeInv, TypeOK
<1> QED
  BY <1>2, <1>4 DEF LogNoOp, TypeInv, TypeOK, WellFormed

\* LogApplied keeps rows and calls well-formed.
LEMMA LogAppliedType ==
  ASSUME TypeInv, NEW c \in Calls, LogApplied(c)
  PROVE  TypeInv'
<1> DEFINE call == calls[c]
<1>1. call \in WellFormed /\ call.at \in Working /\ call.pay \in Payments
      /\ call.snap \in Row
  BY CallType DEF LogApplied, Suspended, Working, Labels
<1>2. calls' \in [Calls -> WellFormed]
  BY <1>1, AppliedType, GoToType DEF LogApplied, TypeInv
<1>3. call.snap.status \in Statuses \cup {"ABSENT"}
  BY <1>1 DEF Row
<1>4. events' \subseteq Event
  <2> DEFINE entry == [pay |-> call.pay, source |-> Source(call),
                       status |-> call.snap.status, applied |-> TRUE,
                       anomaly |-> "none"]
  <2>1. entry \in Event
    <3> HIDE DEF call
    <3> QED
      BY <1>1, <1>3, SourceType DEF Event
  <2>2. events' = events \cup {entry}
    BY DEF LogApplied
  <2> QED
    BY <2>1, <2>2 DEF TypeInv, TypeOK
<1> QED
  BY <1>2, <1>4 DEF LogApplied, TypeInv, TypeOK, WellFormed

(***************************************************************************)
(* Refunds.                                                                *)
(***************************************************************************)

\* RefundLock keeps rows and calls well-formed.
LEMMA RefundLockType ==
  ASSUME TypeInv, NEW c \in Calls, RefundLock(c)
  PROVE  TypeInv'
<1>1. PICK p \in Payments, amount \in RefundAmounts :
        /\ LockRow(p, c)
        /\ GoTo(c, [NewCall("refund", p) EXCEPT
                      !.at = "refund_sum", !.snap = payments[p], !.amount = amount])
  BY DEF RefundLock
<1> DEFINE fresh == NewCall("refund", p)
           row == payments[p]
<1>2. fresh \in Call /\ fresh.pay = p /\ row \in Row /\ amount \in Nat
  BY NewCallType, PaymentType, StoreAssumption DEF AllOperations
<1> HIDE DEF fresh, row
<1>3. [fresh EXCEPT !.at = "refund_sum", !.snap = row, !.amount = amount] \in WellFormed
  <2>1. [fresh EXCEPT !.at = "refund_sum", !.snap = row, !.amount = amount] \in Call
    BY <1>2 DEF Call, Labels
  <2> QED
    BY <1>2, <2>1 DEF WellFormed, Call
<1>4. calls' \in [Calls -> WellFormed]
  BY <1>1, <1>3, GoToType DEF TypeInv, fresh, row
<1>5. rowLock' \in [Payments -> Calls \cup {None}]
  BY <1>1 DEF LockRow, TypeInv, TypeOK
<1> QED
  BY <1>4, <1>5 DEF RefundLock, TypeInv, TypeOK, WellFormed

\* RefundSum keeps rows and calls well-formed.
LEMMA RefundSumType ==
  ASSUME TypeInv, NEW c \in Calls, RefundSum(c)
  PROVE  TypeInv'
<1> DEFINE call == calls[c]
<1>1. call \in Call /\ call.pay \in Payments /\ refunded[call.pay] \in Nat
  BY CallType, PaymentType DEF RefundSum, Suspended, Working, Labels
<1>2. Done(call, "conflict") \in WellFormed
  BY <1>1, DoneType DEF Args
<1> DEFINE sum == refunded[call.pay]
<1>3. [call EXCEPT !.at = "refund_commit", !.sum = sum] \in WellFormed
  <2> HIDE DEF call, sum
  <2>1. [call EXCEPT !.at = "refund_commit", !.sum = sum] \in Call
    BY <1>1 DEF Call, Labels, sum
  <2> QED
    BY <1>1, <2>1 DEF WellFormed, Call
<1>4. calls' \in [Calls -> WellFormed]
  BY <1>2, <1>3, GoToType DEF RefundSum, TypeInv
<1>5. rowLock' \in [Payments -> Calls \cup {None}]
  BY DEF RefundSum, TypeInv, TypeOK
<1> QED
  BY <1>4, <1>5 DEF RefundSum, TypeInv, TypeOK, WellFormed

\* RefundCommit keeps rows and calls well-formed.
LEMMA RefundCommitType ==
  ASSUME TypeInv, NEW c \in Calls, RefundCommit(c)
  PROVE  TypeInv'
<1> DEFINE call == calls[c]
<1>1. call \in Call /\ call.pay \in Payments /\ call.amount \in Nat
  BY CallType DEF RefundCommit, Suspended, Working, Labels
<1>2. [call EXCEPT !.at = "refund_provider", !.sum = 0] \in WellFormed
  <2> HIDE DEF call
  <2>1. [call EXCEPT !.at = "refund_provider", !.sum = 0] \in Call
    BY <1>1 DEF Call, Labels
  <2> QED
    BY <1>1, <2>1 DEF WellFormed, Call
<1>3. calls' \in [Calls -> WellFormed]
  BY <1>2, GoToType DEF RefundCommit, TypeInv
<1>4. rowLock' \in [Payments -> Calls \cup {None}]
  BY DEF RefundCommit, TypeInv, TypeOK
<1>5. refunded' \in [Payments -> Nat]
  BY <1>1 DEF RefundCommit, TypeInv, TypeOK
<1>6. payments' \in [Payments -> Row]
  <2>1. RefundedStatus(call) \in Statuses
    BY DEF RefundedStatus, Statuses
  <2>2. [payments[call.pay] EXCEPT !.status = RefundedStatus(call)] \in Row
    BY <1>1, <2>1, PaymentType DEF Row
  <2> QED
    BY <1>1, <2>2 DEF RefundCommit, TypeInv, TypeOK
<1> QED
  BY <1>3, <1>4, <1>5, <1>6 DEF RefundCommit, TypeInv, TypeOK, WellFormed

\* RefundProvider keeps rows and calls well-formed.
LEMMA RefundProviderType ==
  ASSUME TypeInv, NEW c \in Calls, RefundProvider(c)
  PROVE  TypeInv'
<1> DEFINE call == calls[c]
<1>1. call \in Call /\ call.pay \in Payments /\ call.amount \in Nat /\ call.sum \in Nat
  BY CallType DEF RefundProvider, Suspended, Working, Labels
<1>2. Done(call, "ok") \in WellFormed
  BY <1>1, DoneType DEF Args
<1>3. [call EXCEPT !.sum = @ + 1] \in WellFormed
  <2> HIDE DEF call
  <2>1. [call EXCEPT !.sum = @ + 1] \in Call
    BY <1>1 DEF Call
  <2> QED
    BY <1>1, <2>1 DEF WellFormed, Call
<1>4. calls' \in [Calls -> WellFormed]
  BY <1>2, <1>3, GoToType DEF RefundProvider, TypeInv
<1>5. returned' \in [Payments -> Nat]
  BY <1>1 DEF RefundProvider, TypeInv, TypeOK
<1> QED
  BY <1>4, <1>5 DEF RefundProvider, TypeInv, TypeOK, WellFormed

(***************************************************************************)
(* Reconciliation.                                                         *)
(***************************************************************************)

\* A batch of entities read from the table is well-formed.
LEMMA SnapshotsType ==
  ASSUME TypeInv, NEW rows \in SUBSET Payments
  PROVE  Snapshots(rows) \in SUBSET (Payments \X Row)
BY PaymentType DEF Snapshots

\* CronStart keeps rows and calls well-formed.
LEMMA CronStartType ==
  ASSUME TypeInv, NEW c \in Calls, CronStart(c)
  PROVE  TypeInv'
<1> DEFINE fresh == NewCall("cron", None)
           batch == Snapshots({p \in Payments : IsExpired(payments[p])})
           call == [fresh EXCEPT !.at = "sweep", !.time = now, !.batch = batch]
<1>1. fresh \in Call /\ now \in Nat
  BY NewCallType DEF AllOperations, TypeInv, TypeOK
<1>2. batch \in SUBSET (Payments \X Row)
  BY SnapshotsType
<1> HIDE DEF fresh, batch
<1>3. call \in WellFormed
  BY <1>1, <1>2 DEF Call, Labels, WellFormed, Working
<1>4. GoTo(c, call)
  BY DEF CronStart, fresh, batch
<1> HIDE DEF call
<1> QED
  BY <1>3, <1>4, QuietStep DEF CronStart

\* SweepOne keeps rows and calls well-formed.
LEMMA SweepOneType ==
  ASSUME TypeInv, NEW c \in Calls, SweepOne(c)
  PROVE  TypeInv'
<1> DEFINE call == calls[c]
<1>1. call \in Call /\ call.batch \in SUBSET (Payments \X Row)
  BY CallType
<1>2. PICK item \in Payments \X Row :
        GoTo(c, [call EXCEPT !.at = "save", !.pay = item[1],
                             !.snap = Expired(item[2]), !.batch = @ \ {item}])
  BY <1>1 DEF SweepOne
<1> DEFINE p == item[1]
           row == Expired(item[2])
           rest == call.batch \ {item}
<1>3. p \in Payments /\ rest \in SUBSET (Payments \X Row)
  BY <1>1
<1>4. row \in Row
  BY DEF Expired, Row, Statuses, Reasons
<1>5. GoTo(c, [call EXCEPT !.at = "save", !.pay = p, !.snap = row, !.batch = rest])
  BY <1>2
<1> HIDE DEF call, p, row, rest
<1>6. [call EXCEPT !.at = "save", !.pay = p, !.snap = row, !.batch = rest] \in WellFormed
  <2>1. [call EXCEPT !.at = "save", !.pay = p, !.snap = row, !.batch = rest] \in Call
    BY <1>1, <1>3, <1>4 DEF Call, Labels
  <2> QED
    BY <1>1, <1>3, <2>1 DEF WellFormed, Call
<1> QED
  BY <1>5, <1>6, QuietStep DEF SweepOne

\* FindAwaiting keeps rows and calls well-formed.
LEMMA FindAwaitingType ==
  ASSUME TypeInv, NEW c \in Calls, FindAwaiting(c)
  PROVE  TypeInv'
<1> DEFINE call == calls[c]
<1>1. call \in Call
  BY CallType
<1>2. PICK found \in SUBSET Payments :
        GoTo(c, [call EXCEPT
                   !.at = "poll",
                   !.batch = {item \in Snapshots(found) :
                                IsDueForPoll(item[2], call.time)}])
  BY DEF FindAwaiting
<1> DEFINE due == {item \in Snapshots(found) : IsDueForPoll(item[2], call.time)}
<1>3. due \in SUBSET (Payments \X Row)
  BY SnapshotsType
<1>4. GoTo(c, [call EXCEPT !.at = "poll", !.batch = due])
  BY <1>2
<1> HIDE DEF call, due
<1>5. [call EXCEPT !.at = "poll", !.batch = due] \in WellFormed
  BY <1>1, <1>3 DEF Call, Labels, WellFormed, Working
<1> QED
  BY <1>4, <1>5, QuietStep DEF FindAwaiting

\* PollOne keeps rows and calls well-formed.
LEMMA PollOneType ==
  ASSUME TypeInv, NEW c \in Calls, PollOne(c)
  PROVE  TypeInv'
<1> DEFINE call == calls[c]
<1>1. call \in Call /\ call.batch \in SUBSET (Payments \X Row)
  BY CallType
<1>2. PICK item \in Payments \X Row :
        GoTo(c, [call EXCEPT !.at = "verify", !.pay = item[1],
                             !.given = item[2], !.batch = @ \ {item}])
  BY <1>1 DEF PollOne
<1> DEFINE p == item[1]
           row == item[2]
           rest == call.batch \ {item}
<1>3. p \in Payments /\ row \in Row /\ rest \in SUBSET (Payments \X Row)
  BY <1>1
<1>4. GoTo(c, [call EXCEPT !.at = "verify", !.pay = p, !.given = row, !.batch = rest])
  BY <1>2
<1> HIDE DEF call, p, row, rest
<1>5. [call EXCEPT !.at = "verify", !.pay = p, !.given = row, !.batch = rest] \in WellFormed
  <2>1. [call EXCEPT !.at = "verify", !.pay = p, !.given = row, !.batch = rest] \in Call
    BY <1>1, <1>3 DEF Call, Labels
  <2> QED
    BY <1>1, <1>3, <2>1 DEF WellFormed, Call
<1> QED
  BY <1>4, <1>5, QuietStep DEF PollOne

\* PassEnd keeps rows and calls well-formed.
LEMMA PassEndType ==
  ASSUME TypeInv, NEW c \in Calls, PassEnd(c)
  PROVE  TypeInv'
BY IdleCallType, QuietStep DEF PassEnd

\* The counter of attempts saturates within its bound.
LEMMA NextAttemptsType ==
  ASSUME NEW row \in Row
  PROVE  NextAttempts(row) \in 0..MaxAttempts
BY StoreAssumption DEF NextAttempts, Row

\* AfterApply keeps rows and calls well-formed.
LEMMA AfterApplyType ==
  ASSUME TypeInv, NEW c \in Calls, AfterApply(c)
  PROVE  TypeInv'
<1> DEFINE call == calls[c]
           row == payments[call.pay]
           attempts == NextAttempts(call.given)
           reason == IF DeclinedBy(call) THEN "DECLINED" ELSE row.reason
           settled == [row EXCEPT !.attempts = attempts, !.last = call.time,
                                  !.reason = reason]
<1>1. /\ call \in Call /\ call.pay \in Payments /\ call.given \in Row
      /\ call.time \in Nat /\ row \in Row
  BY CallType, PaymentType DEF AfterApply, Suspended, Working, Labels
<1>2. attempts \in 0..MaxAttempts /\ reason \in Reasons
  BY <1>1, NextAttemptsType DEF Row, Reasons
<1>3. settled \in Row
  <2> HIDE DEF attempts, reason, row
  <2> QED
    BY <1>1, <1>2 DEF Row
<1>4. payments' = [payments EXCEPT ![call.pay] = settled]
  BY DEF AfterApply
<1>5. AfterItem(call) \in WellFormed
  BY <1>1, AfterItemType
<1> HIDE DEF settled
<1> QED
  BY <1>1, <1>3, <1>4, <1>5, RowStep DEF AfterApply

\* RecordAttempt keeps rows and calls well-formed.
LEMMA RecordAttemptType ==
  ASSUME TypeInv, NEW c \in Calls, RecordAttempt(c)
  PROVE  TypeInv'
<1> DEFINE call == calls[c]
           row == payments[call.pay]
           attempts == NextAttempts(call.given)
           recorded == [row EXCEPT !.attempts = attempts, !.last = call.time]
<1>1. /\ call \in Call /\ call.pay \in Payments /\ call.given \in Row
      /\ call.time \in Nat /\ row \in Row
  BY CallType, PaymentType DEF RecordAttempt, Suspended, Working, Labels
<1>2. attempts \in 0..MaxAttempts
  BY <1>1, NextAttemptsType
<1>3. recorded \in Row
  <2> HIDE DEF attempts, row
  <2> QED
    BY <1>1, <1>2 DEF Row
<1>4. payments' = [payments EXCEPT ![call.pay] = recorded]
  BY <1>1 DEF RecordAttempt, TypeInv, TypeOK, Row
<1>5. At(call, "escalate") \in WellFormed /\ AfterItem(call) \in WellFormed
  BY <1>1, AtType, AfterItemType DEF Labels
<1> HIDE DEF recorded
<1> QED
  BY <1>1, <1>3, <1>4, <1>5, RowStep DEF RecordAttempt

\* Escalate keeps rows and calls well-formed.
LEMMA EscalateType ==
  ASSUME TypeInv, NEW c \in Calls, Escalate(c)
  PROVE  TypeInv'
<1> DEFINE call == calls[c]
           fresh == payments[call.pay]
           escalated == [fresh EXCEPT !.status = "MANUAL_REVIEW"]
<1>1. call \in Call /\ call.pay \in Payments /\ fresh \in Row
  BY CallType, PaymentType DEF Escalate, Suspended, Working, Labels
<1>2. escalated \in Row
  <2> HIDE DEF fresh
  <2> QED
    BY <1>1 DEF Row, Statuses
<1>3. Thrown(call) \in WellFormed
  BY <1>1, ThrownType
<1> HIDE DEF escalated
<1>4. [call EXCEPT !.at = "save", !.snap = escalated] \in WellFormed
  <2> HIDE DEF call
  <2>1. [call EXCEPT !.at = "save", !.snap = escalated] \in Call
    BY <1>1, <1>2 DEF Call, Labels
  <2> QED
    BY <1>1, <2>1 DEF WellFormed, Call
<1> QED
  BY <1>3, <1>4, QuietStep DEF Escalate, escalated

\* ForceReconcile keeps rows and calls well-formed.
LEMMA ForceReconcileType ==
  ASSUME TypeInv, NEW c \in Calls, ForceReconcile(c)
  PROVE  TypeInv'
<1>1. PICK p \in Payments :
        GoTo(c, [NewCall("force", p) EXCEPT
                   !.at = "verify", !.given = payments[p], !.time = now])
  BY DEF ForceReconcile
<1> DEFINE fresh == NewCall("force", p)
           row == payments[p]
<1>2. fresh \in Call /\ fresh.pay = p /\ row \in Row /\ now \in Nat
  BY NewCallType, PaymentType DEF AllOperations, TypeInv, TypeOK
<1> HIDE DEF fresh, row
<1>3. [fresh EXCEPT !.at = "verify", !.given = row, !.time = now] \in WellFormed
  <2>1. [fresh EXCEPT !.at = "verify", !.given = row, !.time = now] \in Call
    BY <1>2 DEF Call, Labels
  <2> QED
    BY <1>2, <2>1 DEF WellFormed, Call
<1>4. \E next \in WellFormed : GoTo(c, next)
  BY <1>1, <1>3 DEF fresh, row
<1> QED
  BY <1>4, QuietStep DEF ForceReconcile

\* A call that resolves or voids carries the row it is going to save.
LEMMA SavingCallType ==
  ASSUME NEW op \in AllOperations, NEW p \in Payments, NEW row \in Row
  PROVE  [NewCall(op, p) EXCEPT !.at = "save", !.snap = row] \in WellFormed
<1> DEFINE fresh == NewCall(op, p)
<1>1. fresh \in Call /\ fresh.pay = p
  BY NewCallType
<1> HIDE DEF fresh
<1>2. [fresh EXCEPT !.at = "save", !.snap = row] \in Call
  BY <1>1 DEF Call, Labels
<1>3. [fresh EXCEPT !.at = "save", !.snap = row].pay = p
  BY <1>1 DEF Call
<1> QED
  BY <1>2, <1>3 DEF WellFormed, fresh

\* ResolveManually keeps rows and calls well-formed.
LEMMA ResolveManuallyType ==
  ASSUME TypeInv, NEW c \in Calls, ResolveManually(c)
  PROVE  TypeInv'
<1>1. PICK p \in Payments, resolution \in {"CONFIRMED", "FAILED"} :
        /\ GoTo(c, [NewCall("resolve", p) EXCEPT
                      !.at = "save", !.snap = Resolved(payments[p], resolution)])
        /\ decisions' = decisions \cup {<<p, resolution>>}
  BY DEF ResolveManually
<1>2. payments[p] \in Row
  BY PaymentType
<1>3. Resolved(payments[p], resolution) \in Row
  BY <1>2 DEF Resolved, Row, Statuses, Reasons
<1>4. calls' \in [Calls -> WellFormed]
  BY <1>1, <1>3, SavingCallType, GoToType DEF TypeInv, AllOperations
<1>5. decisions' \subseteq Payments \X Statuses
  BY <1>1 DEF TypeInv, TypeOK, Statuses
<1> QED
  BY <1>4, <1>5 DEF ResolveManually, TypeInv, TypeOK, WellFormed

\* VoidPayment keeps rows and calls well-formed.
LEMMA VoidPaymentType ==
  ASSUME TypeInv, NEW c \in Calls, VoidPayment(c)
  PROVE  TypeInv'
<1>1. PICK p \in Payments :
        GoTo(c, [NewCall("void", p) EXCEPT
                   !.at = "save", !.snap = [payments[p] EXCEPT !.status = "VOIDED"]])
  BY DEF VoidPayment
<1>2. payments[p] \in Row
  BY PaymentType
<1>3. [payments[p] EXCEPT !.status = "VOIDED"] \in Row
  BY <1>2 DEF Row, Statuses
<1>4. \E next \in WellFormed : GoTo(c, next)
  BY <1>1, <1>3, SavingCallType DEF AllOperations
<1> QED
  BY <1>4, QuietStep DEF VoidPayment

(***************************************************************************)
(* The system.                                                             *)
(***************************************************************************)

\* Every step of the system is one of these actions.
LEMMA StepCases ==
  ASSUME Next
  PROVE  \/ \E c \in Calls :
              \/ InitiateStart(c) \/ CheckBooking(c) \/ InsertPayment(c)
              \/ ReadWinner(c) \/ RailInitiate(c)
              \/ WebhookReceive(c) \/ RejectWebhook(c) \/ VerifyReturnStart(c)
              \/ VerifyAnswer(c) \/ Apply(c) \/ LogNoOp(c) \/ LogApplied(c)
              \/ CronStart(c) \/ SweepOne(c) \/ FindAwaiting(c) \/ PollOne(c)
              \/ PassEnd(c) \/ AfterApply(c) \/ RecordAttempt(c) \/ Escalate(c)
              \/ ForceReconcile(c) \/ ResolveManually(c) \/ VoidPayment(c)
              \/ RefundLock(c) \/ RefundSum(c) \/ RefundCommit(c)
              \/ RefundProvider(c) \/ SaveSelect(c) \/ SaveUpdate(c) \/ Reply(c)
         \/ ProviderSettle \/ Tick \/ Restart
BY DEF Next, HttpStep, CronStep, Initiate, Confirm, Reconcile, Administer,
       Refund, Save, ReconciliationPass, Calls

\* The tables are empty and nothing is in flight at first.
LEMMA TypeInit == Init => TypeInv
BY NoRowType, IdleCallType, StoreAssumption
   DEF Init, TypeInv, TypeOK, Charges, WellFormed

\* Every step preserves the type invariant: one case per action.
LEMMA TypeStep == TypeInv /\ [Next]_vars => TypeInv'
<1> SUFFICES ASSUME TypeInv, [Next]_vars
             PROVE  TypeInv'
  OBVIOUS
<1>1. CASE UNCHANGED vars
  BY <1>1 DEF TypeInv, TypeOK, vars
<1>2. CASE ProviderSettle
  BY <1>2 DEF ProviderSettle, TypeInv, TypeOK, Charges, Outcomes
<1>3. CASE Tick
  BY <1>3 DEF Tick, TypeInv, TypeOK
<1>4. CASE Restart
  BY <1>4, IdleCallType, StoreAssumption DEF Restart, TypeInv, TypeOK, WellFormed
<1>5. ASSUME NEW c \in Calls,
             \/ InitiateStart(c) \/ CheckBooking(c) \/ InsertPayment(c)
             \/ ReadWinner(c) \/ RailInitiate(c)
      PROVE  TypeInv'
  BY <1>5, InitiateStartType, CheckBookingType, InsertPaymentType,
     ReadWinnerType, RailInitiateType
<1>6. ASSUME NEW c \in Calls,
             \/ WebhookReceive(c) \/ RejectWebhook(c) \/ VerifyReturnStart(c)
             \/ VerifyAnswer(c) \/ Apply(c) \/ LogNoOp(c) \/ LogApplied(c)
      PROVE  TypeInv'
  BY <1>6, WebhookReceiveType, RejectWebhookType, VerifyReturnStartType,
     VerifyAnswerType, ApplyType, LogNoOpType, LogAppliedType
<1>7. ASSUME NEW c \in Calls,
             \/ CronStart(c) \/ SweepOne(c) \/ FindAwaiting(c) \/ PollOne(c)
             \/ PassEnd(c) \/ AfterApply(c) \/ RecordAttempt(c) \/ Escalate(c)
             \/ ForceReconcile(c) \/ ResolveManually(c) \/ VoidPayment(c)
      PROVE  TypeInv'
  BY <1>7, CronStartType, SweepOneType, FindAwaitingType, PollOneType,
     PassEndType, AfterApplyType, RecordAttemptType, EscalateType,
     ForceReconcileType, ResolveManuallyType, VoidPaymentType
<1>8. ASSUME NEW c \in Calls,
             \/ RefundLock(c) \/ RefundSum(c) \/ RefundCommit(c)
             \/ RefundProvider(c) \/ SaveSelect(c) \/ SaveUpdate(c) \/ Reply(c)
      PROVE  TypeInv'
  BY <1>8, RefundLockType, RefundSumType, RefundCommitType, RefundProviderType,
     SaveSelectType, SaveUpdateType, ReplyType
<1> QED
  BY <1>1, <1>2, <1>3, <1>4, <1>5, <1>6, <1>7, <1>8, StepCases

\* The strengthened type invariant holds in every reachable state.
THEOREM TypeInvAlways == Spec => []TypeInv
<1> QED
  BY TypeInit, TypeStep, PTL DEF Spec

\* Every reachable state of every instance has the types of TypeOK: the rows
\* that save() and update() write from stale entities are rows of the schema,
\* and no call ever works without a payment.
THEOREM TypeCorrect == Spec => []TypeOK
<1>1. TypeInv => TypeOK
  BY DEF TypeInv
<1> QED
  BY <1>1, TypeInvAlways, PTL
=============================================================================
