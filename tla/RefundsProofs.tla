---------------------------- MODULE RefundsProofs ----------------------------
(***************************************************************************)
(* The refund ledger never exceeds the captured amount, and the status     *)
(* matches the ledger, whatever else runs: proved for every instance.      *)
(*                                                                         *)
(* The argument is the row lock.  While a refund is between its SELECT ... *)
(* FOR UPDATE and its COMMIT, the row is the one it read and the sum is    *)
(* the one it compared, because every writer of the row waits for the lock *)
(* and every writer of the ledger holds it.                                *)
(***************************************************************************)
EXTENDS PaymentTypes, FiniteSetTheorems

\* A refund's transaction is open.
InTransaction(c) == calls[c].at \in {"refund_sum", "refund_commit"}

\* The row and the sum a transaction works with are current.
LockedRowIsCurrent ==
  \A c \in Calls : InTransaction(c) =>
    /\ rowLock[calls[c].pay] = c
    /\ calls[c].snap = payments[calls[c].pay]
    /\ calls[c].snap.status \in RefundableStatuses

SumIsCurrent ==
  \A c \in Calls : calls[c].at = "refund_commit" =>
    /\ calls[c].sum = refunded[calls[c].pay]
    /\ calls[c].sum + calls[c].amount <= Amount(calls[c].snap)

\* What a save() writes keeps a row a row.
SavesKeepRows ==
  \A c \in Calls : calls[c].at \in {"save", "flush"} =>
    calls[c].snap.status # "ABSENT"

NothingCapturedUnlessPaid ==
  \A p \in Payments : ~Exists(p) => Amount(payments[p]) = 0

\* The units of money a booked refund may still make the provider pay out: those
\* of the attempts its call has left.  As sets of units the claims of different
\* calls are disjoint, and a sum over calls is a cardinality.
Paying(c) == calls[c].at = "refund_provider"

Units(c, first, amount) == {c} \X ((first..RefundTries) \X (1..amount))

Claim(c) == Units(c, calls[c].sum + 1, calls[c].amount)

Owed(p) == UNION {Claim(c) : c \in {d \in Calls : Paying(d) /\ calls[d].pay = p}}

\* What was paid out and what may yet be is covered by what is booked.
DebtIsBooked ==
  \A p \in Payments :
    /\ IsFiniteSet(Owed(p))
    /\ returned[p] + Cardinality(Owed(p)) <= RefundTries * refunded[p]

TriesAreLeft == \A c \in Calls : Paying(c) => calls[c].sum < RefundTries

RefundInv ==
  /\ LockedRowIsCurrent
  /\ SumIsCurrent
  /\ SavesKeepRows
  /\ NothingCapturedUnlessPaid
  /\ RefundsWithinCaptured
  /\ DebtIsBooked
  /\ TriesAreLeft

(***************************************************************************)
(* Where calls go.                                                         *)
(***************************************************************************)

\* An answered call is at "done".
LEMMA DoneAt ==
  ASSUME NEW call, NEW result
  PROVE  Done(call, result).at = "done"
BY DEF Done, NewCall, IdleCall

\* Where the helpers that end or continue a call leave it: never inside a
\* refund transaction.
LEMMA WhereCallsGo ==
  ASSUME NEW call \in Call
  PROVE  /\ \A label : At(call, label).at = label
         /\ \A label : NextItem(call, label).at = label
         /\ Thrown(call).at \in {"idle", "done"}
         /\ AfterItem(call).at \in {"done", "poll"}
         /\ AfterSave(call).at \in {"done", "log_applied", "sweep", "poll"}
         /\ Applied(call).at \in {"done", "after_apply"}
<1>1. \A label : NextItem(call, label).at = label
  BY DEF NextItem, Call
<1>2. \A label : At(call, label).at = label
  BY DEF At, Call
<1>3. [call EXCEPT !.at = "log_applied", !.dirty = {}].at = "log_applied"
  BY DEF Call
<1>4. IdleCall.at = "idle"
  BY DEF IdleCall
<1> QED
  BY <1>1, <1>2, <1>3, <1>4, DoneAt DEF Thrown, AfterItem, AfterSave, Applied

\* Not a refund under way, and with a row to save.
Sound(call) ==
  /\ call.at \notin {"refund_sum", "refund_commit", "refund_provider"}
  /\ call.at \in {"save", "flush"} => call.snap.status # "ABSENT"

\* Which units are owed depends on the calls that pay out alone.
LEMMA OwedUnchanged ==
  ASSUME \A d \in Calls : Paying(d) \/ Paying(d)' => calls'[d] = calls[d],
         UNCHANGED <<refunded, returned>>, DebtIsBooked, TriesAreLeft
  PROVE  DebtIsBooked' /\ TriesAreLeft'
<1>1. \A d \in Calls : Paying(d)' <=> Paying(d)
  BY DEF Paying
<1>2. \A d \in Calls : Paying(d) => Claim(d)' = Claim(d)
  BY DEF Claim
<1>3. \A p \in Payments : Owed(p)' = Owed(p)
  <2>1. ASSUME NEW p \in Payments
        PROVE  {Claim(c)' : c \in {d \in Calls : Paying(d)' /\ calls'[d].pay = p}}
                 = {Claim(c) : c \in {d \in Calls : Paying(d) /\ calls[d].pay = p}}
    BY <1>1, <1>2
  <2> QED
    BY <2>1 DEF Owed
<1> QED
  BY <1>1, <1>3 DEF DebtIsBooked, TriesAreLeft, Paying

\* As many units as attempts times amount.
LEMMA UnitsCount ==
  ASSUME NEW c, NEW first \in Nat, first <= RefundTries + 1, NEW amount \in Nat
  PROVE  /\ IsFiniteSet(Units(c, first, amount))
         /\ Cardinality(Units(c, first, amount)) = (RefundTries + 1 - first) * amount
<1>0. RefundTries \in Int /\ first \in Int /\ RefundTries + 1 - first \in Nat
  BY RefundAssumption
<1>1. IsFiniteSet(first..RefundTries)
      /\ Cardinality(first..RefundTries) = RefundTries + 1 - first
  BY <1>0, FS_Interval
<1>2. IsFiniteSet(1..amount) /\ Cardinality(1..amount) = amount
  BY FS_Interval
<1> DEFINE tries == first..RefundTries
           units == 1..amount
           pairs == tries \X units
           count == (RefundTries + 1 - first) * amount
<1>3. IsFiniteSet(pairs) /\ Cardinality(pairs) = count
  <2> HIDE DEF tries, units
  <2>1. IsFiniteSet(tries) /\ IsFiniteSet(units)
    BY <1>1, <1>2 DEF tries, units
  <2>2. Cardinality(tries) = RefundTries + 1 - first /\ Cardinality(units) = amount
    BY <1>1, <1>2 DEF tries, units
  <2>3. IsFiniteSet(pairs) /\ Cardinality(pairs) = Cardinality(tries) * Cardinality(units)
    BY <2>1, FS_Product
  <2> QED
    BY <2>2, <2>3
<1>4. IsFiniteSet({c}) /\ Cardinality({c}) = 1
  BY FS_Singleton
<1>5. count \in Nat
  BY <1>0
<1> HIDE DEF pairs, count
<1>6. IsFiniteSet({c} \X pairs) /\ Cardinality({c} \X pairs) = 1 * count
  BY <1>3, <1>4, FS_Product
<1> QED
  BY <1>5, <1>6 DEF Units, pairs, count

\* A unit is owed if a call that pays out claims it.
LEMMA OwedMeans ==
  ASSUME NEW p, NEW x
  PROVE  x \in Owed(p) <=>
           \E d \in Calls : Paying(d) /\ calls[d].pay = p /\ x \in Claim(d)
BY DEF Owed

\* Nothing is owed when no call pays out.
LEMMA NothingOwed ==
  ASSUME \A c \in Calls : ~Paying(c), NEW p
  PROVE  IsFiniteSet(Owed(p)) /\ Cardinality(Owed(p)) = 0
<1>1. Owed(p) = {}
  BY OwedMeans
<1> QED
  BY <1>1, FS_EmptySet

\* An attempt takes its units out of what is owed, whatever becomes of the call.
LEMMA PaidUnits ==
  ASSUME TypeInv, TriesAreLeft, DebtIsBooked, NEW c \in Calls, Paying(c),
         \A d \in Calls : d # c => calls'[d] = calls[d],
         Paying(c)' => /\ calls'[c].pay = calls[c].pay
                       /\ calls'[c].amount = calls[c].amount
                       /\ calls'[c].sum = calls[c].sum + 1,
         NEW p \in Payments, p = calls[c].pay
  PROVE  /\ IsFiniteSet(Owed(p)')
         /\ Cardinality(Owed(p)') + calls[c].amount <= Cardinality(Owed(p))
         /\ \A q \in Payments : q # p => Owed(q)' = Owed(q)
<1> DEFINE first == calls[c].sum + 1
           amount == calls[c].amount
           paid == {c} \X ({first} \X (1..amount))
<1>0. /\ p \in Payments /\ amount \in Nat /\ first \in Nat
      /\ first <= RefundTries /\ RefundTries \in Nat
  BY CallType, RefundAssumption DEF Paying, Working, Labels, TriesAreLeft
<1>1. Claim(c) = {c} \X ((first..RefundTries) \X (1..amount))
  BY DEF Claim, Units
<1>2. Paying(c)' => Claim(c)' = {c} \X (((first + 1)..RefundTries) \X (1..amount))
  BY DEF Claim, Units
<1>3. \A d \in Calls : d # c => Claim(d)' = Claim(d) /\ (Paying(d)' <=> Paying(d))
  BY DEF Claim, Paying
<1> HIDE DEF first, amount
<1>4. paid \subseteq Claim(c)
  BY <1>0, <1>1
<1>5. Paying(c)' => Claim(c)' \subseteq Claim(c) \ paid
  BY <1>0, <1>1, <1>2
<1>6. \A d \in Calls : d # c => \A x \in Claim(d) : x \notin paid
  BY DEF Claim, Units
<1>7. IsFiniteSet(paid) /\ Cardinality(paid) = amount
  <2> DEFINE try == {first}
             units == 1..amount
             pairs == try \X units
  <2>1. IsFiniteSet(try) /\ Cardinality(try) = 1
    BY FS_Singleton
  <2>2. IsFiniteSet(units) /\ Cardinality(units) = amount
    BY <1>0, FS_Interval
  <2>3. IsFiniteSet({c}) /\ Cardinality({c}) = 1
    BY FS_Singleton
  <2> HIDE DEF try, units
  <2>4. IsFiniteSet(pairs) /\ Cardinality(pairs) = 1 * amount
    BY <2>1, <2>2, FS_Product
  <2> HIDE DEF pairs
  <2>5. IsFiniteSet({c} \X pairs) /\ Cardinality({c} \X pairs) = 1 * Cardinality(pairs)
    BY <2>3, <2>4, FS_Product
  <2> QED
    BY <1>0, <2>4, <2>5 DEF pairs, units, try
<1>8. \A q, x : x \in Owed(q)' <=>
        \E d \in Calls : Paying(d)' /\ calls'[d].pay = q /\ x \in Claim(d)'
  BY DEF Owed
<1> HIDE DEF paid
<1>9. Owed(p)' \subseteq Owed(p) \ paid
  <2>1. ASSUME NEW x \in Owed(p)'
        PROVE  x \in Owed(p) /\ x \notin paid
    <3>1. PICK d \in Calls : Paying(d)' /\ calls'[d].pay = p /\ x \in Claim(d)'
      BY <1>8, <2>1
    <3>2. CASE d = c
      BY <1>5, <3>1, <3>2, OwedMeans
    <3>3. CASE d # c
      BY <1>3, <1>6, <3>1, <3>3, OwedMeans
    <3> QED
      BY <3>2, <3>3
  <2> QED
    BY <2>1
<1>10. paid \subseteq Owed(p)
  BY <1>4, OwedMeans
<1>11. IsFiniteSet(Owed(p) \ paid)
       /\ Cardinality(Owed(p) \ paid) = Cardinality(Owed(p)) - amount
  <2>1. IsFiniteSet(Owed(p)) /\ Owed(p) \cap paid = paid
    BY <1>0, <1>10 DEF DebtIsBooked
  <2>2. IsFiniteSet(Owed(p) \ paid)
        /\ Cardinality(Owed(p) \ paid) = Cardinality(Owed(p)) - Cardinality(Owed(p) \cap paid)
    BY <2>1, FS_Difference
  <2> QED
    BY <1>7, <2>1, <2>2
<1>12. IsFiniteSet(Owed(p)') /\ Cardinality(Owed(p)') <= Cardinality(Owed(p) \ paid)
  BY <1>9, <1>11, FS_Subset
<1>13. Cardinality(Owed(p)') \in Nat /\ Cardinality(Owed(p)) \in Nat
  BY <1>0, <1>12, FS_CardinalityType DEF DebtIsBooked
<1>14. ASSUME NEW q \in Payments, q # p
       PROVE  Owed(q)' = Owed(q)
  <2>1. \A d \in Calls : Paying(d)' /\ calls'[d].pay = q <=> Paying(d) /\ calls[d].pay = q
    BY <1>3, <1>14
  <2>2. \A d \in Calls : calls[d].pay = q => Claim(d)' = Claim(d)
    BY <1>3, <1>14
  <2>3. \A x : x \in Owed(q)' <=> x \in Owed(q)
    BY <1>8, <2>1, <2>2, OwedMeans
  <2> QED
    BY <2>3
<1> QED
  BY <1>0, <1>11, <1>12, <1>13, <1>14 DEF amount

\* Booking a refund adds the units of all its attempts to what is owed.
LEMMA BookedUnits ==
  ASSUME TypeInv, DebtIsBooked, NEW c \in Calls, ~Paying(c), Paying(c)',
         \A d \in Calls : d # c => calls'[d] = calls[d],
         calls'[c].pay = calls[c].pay, calls'[c].amount = calls[c].amount,
         calls'[c].sum = 0, NEW p \in Payments, p = calls[c].pay
  PROVE  /\ IsFiniteSet(Owed(p)')
         /\ Cardinality(Owed(p)') <= Cardinality(Owed(p)) + RefundTries * calls[c].amount
         /\ \A q \in Payments : q # p => Owed(q)' = Owed(q)
<1> DEFINE amount == calls[c].amount
           added == Units(c, 1, amount)
<1>0. p \in Payments /\ amount \in Nat /\ RefundTries \in Nat
  BY CallType, RefundAssumption
<1>1. Claim(c)' = added
  BY DEF Claim, Units
<1>2. IsFiniteSet(added) /\ Cardinality(added) = RefundTries * amount
  <2>1. 1 <= RefundTries + 1 /\ RefundTries + 1 - 1 = RefundTries
    BY <1>0
  <2> QED
    BY <1>0, <2>1, UnitsCount
<1>3. \A d \in Calls : d # c => Claim(d)' = Claim(d) /\ (Paying(d)' <=> Paying(d))
  BY DEF Claim, Paying
<1>4. \A q, x : x \in Owed(q)' <=>
        \E d \in Calls : Paying(d)' /\ calls'[d].pay = q /\ x \in Claim(d)'
  BY DEF Owed
<1> HIDE DEF added, amount
<1>5. Owed(p)' = Owed(p) \cup added
  <2>1. ASSUME NEW x
        PROVE  x \in Owed(p)' <=> x \in Owed(p) \/ x \in added
    BY <1>1, <1>3, <1>4, OwedMeans
  <2> QED
    BY <2>1
<1>6. IsFiniteSet(Owed(p)) /\ Cardinality(Owed(p)) \in Nat
  BY <1>0, FS_CardinalityType DEF DebtIsBooked
<1>7. /\ IsFiniteSet(Owed(p) \cup added)
      /\ Cardinality(Owed(p) \cup added) <= Cardinality(Owed(p)) + Cardinality(added)
  <2>1. IsFiniteSet(Owed(p) \cap added)
    BY <1>6, FS_Intersection
  <2>2. Cardinality(Owed(p) \cap added) \in Nat /\ Cardinality(added) \in Nat
    BY <1>2, <2>1, FS_CardinalityType
  <2>3. /\ IsFiniteSet(Owed(p) \cup added)
        /\ Cardinality(Owed(p) \cup added)
             = Cardinality(Owed(p)) + Cardinality(added) - Cardinality(Owed(p) \cap added)
    BY <1>2, <1>6, FS_Union
  <2> QED
    BY <1>6, <2>2, <2>3
<1>8. ASSUME NEW q \in Payments, q # p
      PROVE  Owed(q)' = Owed(q)
  <2>1. \A d \in Calls : Paying(d)' /\ calls'[d].pay = q <=> Paying(d) /\ calls[d].pay = q
    BY <1>3, <1>8
  <2>2. \A d \in Calls : Paying(d) /\ calls[d].pay = q => Claim(d)' = Claim(d)
    BY <1>3, <1>8
  <2>3. \A x : x \in Owed(q)' <=> x \in Owed(q)
    BY <1>4, <2>1, <2>2, OwedMeans
  <2> QED
    BY <2>3
<1> QED
  BY <1>2, <1>5, <1>7, <1>8 DEF amount

\* A step that writes neither rows nor ledger nor locks.
LEMMA QuietRefund ==
  ASSUME TypeInv, RefundInv, NEW c \in Calls, NEW call,
         GoTo(c, call), Sound(call), ~Paying(c),
         UNCHANGED <<payments, refunded, returned, rowLock>>
  PROVE  RefundInv'
<1>1. /\ calls'[c] = call
      /\ \A d \in Calls : d # c => calls'[d] = calls[d]
  BY DEF GoTo, TypeInv, TypeOK
<1>2. \A d \in Calls : calls'[d].at \in {"refund_sum", "refund_commit"}
                         => calls'[d] = calls[d]
  BY <1>1 DEF Sound
<1>3. LockedRowIsCurrent' /\ SumIsCurrent'
  BY <1>2 DEF RefundInv, LockedRowIsCurrent, SumIsCurrent, InTransaction
<1>4. SavesKeepRows'
  BY <1>1 DEF RefundInv, SavesKeepRows, Sound
<1>5. DebtIsBooked' /\ TriesAreLeft'
  BY <1>1, OwedUnchanged DEF RefundInv, Sound, Paying
<1> QED
  BY <1>3, <1>4, <1>5
     DEF RefundInv, NothingCapturedUnlessPaid, RefundsWithinCaptured, Exists

\* A step that writes a row, having waited for its lock.
LEMMA WriteRefund ==
  ASSUME TypeInv, RefundInv, NEW c \in Calls, NEW call, GoTo(c, call), Sound(call),
         ~InTransaction(c), ~Paying(c), NEW p \in Payments, MayWrite(p, c),
         NEW row, row.req = payments[p].req,
         row.status = "ABSENT" => payments[p].status = "ABSENT",
         payments' = [payments EXCEPT ![p] = row],
         UNCHANGED <<refunded, returned, rowLock>>
  PROVE  RefundInv'
<1>1. /\ calls'[c] = call
      /\ \A d \in Calls : d # c => calls'[d] = calls[d]
      /\ payments'[p] = row
      /\ \A q \in Payments : q # p => payments'[q] = payments[q]
  BY DEF GoTo, TypeInv, TypeOK
<1>2. ASSUME NEW d \in Calls, InTransaction(d)'
      PROVE  calls'[d] = calls[d] /\ payments'[calls[d].pay] = payments[calls[d].pay]
  <2>1. d # c /\ calls'[d] = calls[d] /\ InTransaction(d)
    BY <1>1, <1>2 DEF InTransaction, Sound
  <2>2. calls[d].pay \in Payments
    BY <2>1, CallType DEF InTransaction, Working, Labels
  <2>3. rowLock[calls[d].pay] = d
    BY <2>1 DEF RefundInv, LockedRowIsCurrent
  <2>4. calls[d].pay # p
    BY <2>1, <2>3, StoreAssumption DEF MayWrite, Calls
  <2> QED
    BY <1>1, <2>1, <2>2, <2>4
<1>3. LockedRowIsCurrent' /\ SumIsCurrent'
  <2>1. \A d \in Calls : InTransaction(d)' => InTransaction(d)
    BY <1>2 DEF InTransaction
  <2>2. LockedRowIsCurrent'
    BY <1>2, <2>1 DEF RefundInv, LockedRowIsCurrent
  <2>3. SumIsCurrent'
    BY <1>2 DEF RefundInv, SumIsCurrent, InTransaction
  <2> QED
    BY <2>2, <2>3
<1>4. SavesKeepRows'
  BY <1>1 DEF RefundInv, SavesKeepRows, Sound
<1>5. \A q \in Payments : Amount(payments'[q]) = Amount(payments[q])
  BY <1>1 DEF Amount
<1>6. NothingCapturedUnlessPaid'
  BY <1>1, <1>5 DEF RefundInv, NothingCapturedUnlessPaid, Exists
<1>7. RefundsWithinCaptured'
  BY <1>5 DEF RefundInv, RefundsWithinCaptured
<1>8. DebtIsBooked' /\ TriesAreLeft'
  BY <1>1, OwedUnchanged DEF RefundInv, Sound, Paying
<1> QED
  BY <1>3, <1>4, <1>6, <1>7, <1>8 DEF RefundInv

\* A crash leaves nothing owed.
LEMMA CallsLost ==
  ASSUME TypeInv, DebtIsBooked, UNCHANGED <<refunded, returned>>,
         \A c \in Calls : calls'[c].at = "idle"
  PROVE  DebtIsBooked' /\ TriesAreLeft'
<1>1. \A c \in Calls : ~Paying(c)'
  BY DEF Paying
<1>2. ASSUME NEW p \in Payments
      PROVE  IsFiniteSet(Owed(p))' /\ (Cardinality(Owed(p)) = 0)'
  <2>1. \A x : x \notin Owed(p)'
    BY <1>1 DEF Owed
  <2>2. Owed(p)' = {}
    BY <2>1
  <2> QED
    BY <2>2, FS_EmptySet
<1>3. ASSUME NEW p \in Payments
      PROVE  returned[p] <= RefundTries * refunded[p] /\ returned[p] \in Nat
  <2>1. Cardinality(Owed(p)) \in Nat
    BY FS_CardinalityType DEF DebtIsBooked
  <2>2. returned[p] \in Nat /\ refunded[p] \in Nat /\ RefundTries \in Nat
    BY PaymentType, RefundAssumption
  <2> DEFINE booked == RefundTries * refunded[p]
  <2>3. booked \in Nat
    BY <2>2
  <2>4. returned[p] + Cardinality(Owed(p)) <= booked
    BY DEF DebtIsBooked
  <2> HIDE DEF booked
  <2>5. returned[p] <= booked
    BY <2>1, <2>2, <2>3, <2>4
  <2> QED
    BY <2>2, <2>5 DEF booked
<1> QED
  BY <1>1, <1>2, <1>3 DEF DebtIsBooked, TriesAreLeft

\* Only a refund's own steps act on a call that pays out.
LEMMA OthersDoNotPay ==
  ASSUME NEW c \in Calls,
         \/ Initiate(c) \/ Confirm(c) \/ ReconciliationPass(c) \/ Reconcile(c)
         \/ Administer(c) \/ Save(c) \/ Reply(c)
  PROVE  ~Paying(c)
<1> USE DEF Suspended, Start, Paying
<1>1. CASE Initiate(c)
  BY <1>1 DEF Initiate, InitiateStart, CheckBooking, InsertPayment, ReadWinner,
       RailInitiate
<1>2. CASE Confirm(c)
  BY <1>2 DEF Confirm, WebhookReceive, RejectWebhook, VerifyReturnStart,
       VerifyAnswer, Apply, LogNoOp, LogApplied
<1>3. CASE ReconciliationPass(c)
  BY <1>3 DEF ReconciliationPass, CronStart, SweepOne, FindAwaiting, PollOne, PassEnd
<1>4. CASE Reconcile(c) \/ Administer(c)
  BY <1>4 DEF Reconcile, AfterApply, RecordAttempt, Escalate, Administer,
       ForceReconcile, ResolveManually, VoidPayment
<1>5. CASE Save(c) \/ Reply(c)
  BY <1>5 DEF Save, SaveSelect, SaveUpdate, Reply
<1> QED
  BY <1>1, <1>2, <1>3, <1>4, <1>5

(***************************************************************************)
(* The actions.                                                            *)
(***************************************************************************)

\* No step of initiate() disturbs the refund invariant.
LEMMA InitiateRefundInv ==
  ASSUME TypeInv, RefundInv, NEW c \in Calls, Initiate(c)
  PROVE  RefundInv'
<1> ~Paying(c)
  BY OthersDoNotPay
<1>1. CASE InitiateStart(c)
  <2>1. PICK req \in Requests :
          LET p == req.key
              call == [NewCall("initiate", p) EXCEPT !.given = NewRow(req, now)]
          IN GoTo(c, IF ~Exists(p) THEN At(call, "check_booking")
                     ELSE IF SamePayload(payments[p], req)
                          THEN Done([call EXCEPT !.snap = payments[p]], "ok")
                          ELSE Done(call, "conflict"))
    BY <1>1 DEF InitiateStart
  <2> DEFINE first == [NewCall("initiate", req.key) EXCEPT !.given = NewRow(req, now)]
             next == IF ~Exists(req.key) THEN At(first, "check_booking")
                     ELSE IF SamePayload(payments[req.key], req)
                          THEN Done([first EXCEPT !.snap = payments[req.key]], "ok")
                          ELSE Done(first, "conflict")
  <2>2. GoTo(c, next)
    BY <2>1
  <2>3. At(first, "check_booking").at = "check_booking"
    BY DEF At, NewCall, IdleCall
  <2>4. next.at \in {"check_booking", "done"}
    BY <2>3, DoneAt
  <2> HIDE DEF next
  <2> QED
    BY <1>1, <2>2, <2>4, QuietRefund DEF InitiateStart, Sound
<1>2. CASE CheckBooking(c)
  <2> DEFINE next == IF BookingBlocked(calls[c].given.req.booking)
                     THEN Done(calls[c], "conflict") ELSE At(calls[c], "insert")
  <2>1. GoTo(c, next)
    BY <1>2 DEF CheckBooking
  <2>2. next.at \in {"insert", "done"}
    BY CallType, DoneAt, WhereCallsGo
  <2> HIDE DEF next
  <2> QED
    BY <1>2, <2>1, <2>2, QuietRefund DEF CheckBooking, Sound
<1>3. CASE InsertPayment(c)
  <2> DEFINE call == calls[c]
             row == NewRow(call.given.req, now)
  <2>1. call \in Call /\ call.pay \in Payments /\ ~InTransaction(c)
    BY <1>3, CallType DEF InsertPayment, Suspended, Working, Labels, InTransaction
  <2>2. CASE UNCHANGED payments
    <3>1. /\ At(call, "read_winner").at = "read_winner"
          /\ Done(call, "conflict").at = "done"
          /\ [call EXCEPT !.at = "rail_initiate", !.snap = row].at = "rail_initiate"
      BY <2>1, DoneAt, WhereCallsGo DEF Call
    <3> QED
      BY <1>3, <2>2, <3>1, QuietRefund DEF InsertPayment, Sound
  <2>3. CASE /\ ~Exists(call.pay)
             /\ payments' = [payments EXCEPT ![call.pay] = row]
             /\ GoTo(c, [call EXCEPT !.at = "rail_initiate", !.snap = row])
    <3> DEFINE next == [call EXCEPT !.at = "rail_initiate", !.snap = row]
    <3>1. next.at = "rail_initiate"
      BY <2>1 DEF Call
    <3>2. /\ calls'[c] = next
          /\ \A d \in Calls : d # c => calls'[d] = calls[d]
          /\ payments'[call.pay] = row
          /\ \A q \in Payments : q # call.pay => payments'[q] = payments[q]
          /\ UNCHANGED <<refunded, rowLock>>
      BY <1>3, <2>1, <2>3 DEF GoTo, TypeInv, TypeOK, InsertPayment
    <3>3. row.status = "INITIATED" /\ Amount(row) \in Nat
      <4>1. row \in Row
        BY <1>3, <2>1, InsertPaymentType, RowStep, <3>2 DEF TypeInv, TypeOK
      <4> QED
        BY <4>1, StoreAssumption DEF NewRow, Row, Amount, NoRequest
    <3>4. ASSUME NEW d \in Calls, InTransaction(d)'
          PROVE  /\ calls'[d] = calls[d]
                 /\ InTransaction(d)
                 /\ payments'[calls[d].pay] = payments[calls[d].pay]
      <4>1. d # c /\ calls'[d] = calls[d] /\ InTransaction(d)
        BY <3>1, <3>2, <3>4 DEF InTransaction
      <4>2. calls[d].pay \in Payments
        BY <4>1, CallType DEF InTransaction, Working, Labels
      <4>3. Exists(calls[d].pay)
        BY <4>1 DEF RefundInv, LockedRowIsCurrent, Exists, RefundableStatuses
      <4> QED
        BY <2>3, <3>2, <4>1, <4>2, <4>3
    <3>5. LockedRowIsCurrent'
      BY <3>2, <3>4 DEF RefundInv, LockedRowIsCurrent
    <3>6. SumIsCurrent'
      BY <3>2, <3>4 DEF RefundInv, SumIsCurrent, InTransaction
    <3>7. SavesKeepRows'
      BY <3>1, <3>2 DEF RefundInv, SavesKeepRows
    <3>8. NothingCapturedUnlessPaid'
      BY <3>2, <3>3 DEF RefundInv, NothingCapturedUnlessPaid, Exists
    <3>9. RefundsWithinCaptured'
      <4>1. refunded[call.pay] <= 0 /\ refunded[call.pay] \in Nat
        BY <2>1, <2>3, PaymentType
           DEF RefundInv, NothingCapturedUnlessPaid, RefundsWithinCaptured
      <4>2. refunded[call.pay] <= Amount(row)
        BY <3>3, <4>1
      <4> QED
        BY <3>2, <4>2 DEF RefundInv, RefundsWithinCaptured
    <3>10. DebtIsBooked' /\ TriesAreLeft'
      <4>1. UNCHANGED returned
        BY <1>3 DEF InsertPayment
      <4> QED
        BY <3>1, <3>2, <4>1, OwedUnchanged DEF RefundInv, Paying
    <3> QED
      BY <3>5, <3>6, <3>7, <3>8, <3>9, <3>10 DEF RefundInv
  <2> QED
    BY <1>3, <2>2, <2>3 DEF InsertPayment, KeyTaken
<1>4. CASE ReadWinner(c)
  BY <1>4, DoneAt, QuietRefund DEF ReadWinner, Sound
<1>5. CASE RailInitiate(c)
  <2>1. calls[c] \in Call /\ calls[c].snap \in Row
    BY CallType
  <2>2. AwaitingConfirmation(calls[c].snap).status = "AWAITING_CONFIRMATION"
    BY <2>1 DEF AwaitingConfirmation, Row
  <2> DEFINE next == [calls[c] EXCEPT !.at = "save",
                                      !.snap = AwaitingConfirmation(calls[c].snap)]
  <2>3. next.snap.status = "AWAITING_CONFIRMATION" /\ next.at = "save"
    BY <2>1, <2>2 DEF Call
  <2>4. GoTo(c, next) \/ GoTo(c, Done(calls[c], "error"))
    BY <1>5 DEF RailInitiate
  <2>5. Sound(next) /\ Sound(Done(calls[c], "error"))
    BY <2>3, DoneAt DEF Sound
  <2> HIDE DEF next
  <2> QED
    BY <1>5, <2>4, <2>5, QuietRefund DEF RailInitiate
<1> QED
  BY <1>1, <1>2, <1>3, <1>4, <1>5 DEF Initiate

\* Nor does a step of a webhook or of verifyOnReturn.
LEMMA ConfirmRefundInv ==
  ASSUME TypeInv, RefundInv, NEW c \in Calls, Confirm(c)
  PROVE  RefundInv'
<1> ~Paying(c)
  BY OthersDoNotPay
<1> DEFINE call == calls[c]
<1>0. call \in Call /\ call.arg \in Args
  BY CallType
<1>1. CASE WebhookReceive(c)
  <2>1. PICK p \in Payments, outcome \in Outcomes :
          GoTo(c, [NewCall("webhook", p) EXCEPT !.at = "apply", !.arg = outcome])
    BY <1>1, AnswersType DEF WebhookReceive
  <2>2. [NewCall("webhook", p) EXCEPT !.at = "apply", !.arg = outcome].at = "apply"
    BY DEF NewCall, IdleCall
  <2> QED
    BY <1>1, <2>1, <2>2, QuietRefund DEF WebhookReceive, Sound
<1>2. CASE RejectWebhook(c)
  <2>1. UNCHANGED <<payments, refunded, returned, rowLock, calls>>
    BY <1>2 DEF RejectWebhook
  <2>2. DebtIsBooked' /\ TriesAreLeft'
    BY <2>1, OwedUnchanged DEF RefundInv
  <2> QED
    BY <2>1, <2>2
       DEF RefundInv, LockedRowIsCurrent, SumIsCurrent, SavesKeepRows,
           NothingCapturedUnlessPaid, RefundsWithinCaptured, InTransaction, Exists
<1>3. CASE VerifyReturnStart(c)
  <2>1. PICK p \in Payments :
          LET first == [NewCall("verify_return", p) EXCEPT !.given = payments[p]]
          IN GoTo(c, IF \/ payments[p].status \in TerminalStatuses
                        \/ ~payments[p].ref
                     THEN Done(first, "ok") ELSE At(first, "verify"))
    BY <1>3 DEF VerifyReturnStart
  <2> DEFINE first == [NewCall("verify_return", p) EXCEPT !.given = payments[p]]
  <2>2. At(first, "verify").at = "verify" /\ Done(first, "ok").at = "done"
    BY DoneAt DEF At, NewCall, IdleCall
  <2> HIDE DEF first
  <2>3. Sound(At(first, "verify")) /\ Sound(Done(first, "ok"))
    BY <2>2 DEF Sound
  <2>4. GoTo(c, At(first, "verify")) \/ GoTo(c, Done(first, "ok"))
    BY <2>1 DEF first
  <2> QED
    BY <1>3, <2>3, <2>4, QuietRefund DEF VerifyReturnStart
<1>4. CASE VerifyAnswer(c)
  <2>1. PICK answer :
          GoTo(c, IF IsVerdict(answer)
                  THEN [call EXCEPT !.at = "apply", !.arg = answer]
                  ELSE IF call.op = "verify_return" THEN Done(call, answer)
                  ELSE [call EXCEPT !.at = "record", !.arg = answer])
    BY <1>4 DEF VerifyAnswer
  <2> HIDE DEF call
  <2>2. /\ [call EXCEPT !.at = "apply", !.arg = answer].at = "apply"
        /\ [call EXCEPT !.at = "record", !.arg = answer].at = "record"
        /\ Done(call, answer).at = "done"
    BY <1>0, DoneAt DEF Call
  <2>3. PICK next : GoTo(c, next) /\ next.at \in {"apply", "record", "done"}
    BY <2>1, <2>2
  <2> QED
    BY <1>4, <2>3, QuietRefund DEF VerifyAnswer, Sound
<1>5. CASE Apply(c)
  <2> DEFINE row == payments[call.pay]
             settled == [row EXCEPT !.status = Implied(call.arg)]
  <2>1. row \in Row /\ call.pay \in Payments
    BY <1>5, CallType, PaymentType DEF Apply, Suspended, Working, Labels
  <2>2. settled.status # "ABSENT"
    BY <2>1, ImpliedType DEF Row
  <2> HIDE DEF settled, row, call
  <2>3. /\ Sound([call EXCEPT !.at = "log", !.snap = NoRow])
        /\ Sound([call EXCEPT !.at = "log", !.snap = row])
        /\ Sound([call EXCEPT !.at = "save", !.snap = settled])
        /\ Sound(Thrown(call))
    BY <1>0, <2>2, WhereCallsGo DEF Sound, Call
  <2>4. PICK next : GoTo(c, next) /\ Sound(next)
    BY <1>5, <2>3 DEF Apply, call, row, settled
  <2> QED
    BY <1>5, <2>4, QuietRefund DEF Apply
<1>6. CASE LogNoOp(c)
  <2>1. Sound(Applied(call))
    BY <1>0, WhereCallsGo DEF Sound
  <2> QED
    BY <1>6, <2>1, QuietRefund DEF LogNoOp
<1>7. CASE LogApplied(c)
  <2>1. Sound(Applied(call))
    BY <1>0, WhereCallsGo DEF Sound
  <2> QED
    BY <1>7, <2>1, QuietRefund DEF LogApplied
<1> QED
  BY <1>1, <1>2, <1>3, <1>4, <1>5, <1>6, <1>7 DEF Confirm

\* Nor does the loop of a scheduled pass.
LEMMA PassRefundInv ==
  ASSUME TypeInv, RefundInv, NEW c \in Calls, ReconciliationPass(c)
  PROVE  RefundInv'
<1> ~Paying(c)
  BY OthersDoNotPay
<1> DEFINE call == calls[c]
<1>0. call \in Call /\ call.batch \in SUBSET (Payments \X Row)
  BY CallType
<1>1. CASE CronStart(c)
  <2> DEFINE batch == Snapshots({p \in Payments : IsExpired(payments[p])})
             next == [NewCall("cron", None) EXCEPT !.at = "sweep", !.time = now,
                                                   !.batch = batch]
  <2>1. next.at = "sweep"
    BY DEF NewCall, IdleCall
  <2>2. GoTo(c, next)
    BY <1>1 DEF CronStart
  <2> HIDE DEF next
  <2> QED
    BY <1>1, <2>1, <2>2, QuietRefund DEF CronStart, Sound
<1>2. CASE SweepOne(c)
  <2>1. PICK item \in Payments \X Row :
          GoTo(c, [call EXCEPT !.at = "save", !.pay = item[1],
                               !.snap = Expired(item[2]), !.batch = @ \ {item}])
    BY <1>0, <1>2 DEF SweepOne
  <2>2. Expired(item[2]).status = "EXPIRED"
    BY DEF Expired, Row
  <2> DEFINE row == Expired(item[2])
             p == item[1]
             rest == call.batch \ {item}
             next == [call EXCEPT !.at = "save", !.pay = p, !.snap = row, !.batch = rest]
  <2>3. GoTo(c, next)
    BY <2>1
  <2> HIDE DEF call, row, p, rest
  <2>4. next.snap = row
    BY <1>0 DEF Call
  <2>5. Sound(next)
    BY <1>0, <2>2, <2>4 DEF Sound, row, Call
  <2> HIDE DEF next
  <2> QED
    BY <1>2, <2>3, <2>5, QuietRefund DEF SweepOne
<1>3. CASE FindAwaiting(c)
  <2>1. PICK batch : GoTo(c, [call EXCEPT !.at = "poll", !.batch = batch])
    BY <1>3 DEF FindAwaiting
  <2>2. [call EXCEPT !.at = "poll", !.batch = batch].at = "poll"
    BY <1>0 DEF Call
  <2> QED
    BY <1>3, <2>1, <2>2, QuietRefund DEF FindAwaiting, Sound
<1>4. CASE PollOne(c)
  <2>1. PICK item :
          GoTo(c, [call EXCEPT !.at = "verify", !.pay = item[1],
                               !.given = item[2], !.batch = @ \ {item}])
    BY <1>4 DEF PollOne
  <2> DEFINE row == item[2]
             p == item[1]
             rest == call.batch \ {item}
             next == [call EXCEPT !.at = "verify", !.pay = p, !.given = row, !.batch = rest]
  <2>2. GoTo(c, next)
    BY <2>1
  <2>3. next.at = "verify"
    <3> HIDE DEF call, row, p, rest
    <3> QED
      BY <1>0 DEF Call
  <2> HIDE DEF next
  <2> QED
    BY <1>4, <2>2, <2>3, QuietRefund DEF PollOne, Sound
<1>5. CASE PassEnd(c)
  <2>1. IdleCall.at = "idle"
    BY DEF IdleCall
  <2> QED
    BY <1>5, <2>1, QuietRefund DEF PassEnd, Sound
<1> QED
  BY <1>1, <1>2, <1>3, <1>4, <1>5 DEF ReconciliationPass

\* Nor do the updates of reconcileOne and recordAttempt, for they wait for
\* the row lock.
LEMMA ReconcileRefundInv ==
  ASSUME TypeInv, RefundInv, NEW c \in Calls, Reconcile(c)
  PROVE  RefundInv'
<1> ~Paying(c)
  BY OthersDoNotPay
<1> DEFINE call == calls[c]
           row == payments[call.pay]
<1>0. call \in Call /\ call.pay \in Payments /\ row \in Row /\ ~InTransaction(c)
  BY CallType, PaymentType
     DEF Reconcile, AfterApply, RecordAttempt, Escalate, Suspended, Working, Labels,
         InTransaction
<1>1. CASE AfterApply(c)
  <2> DEFINE attempts == NextAttempts(call.given)
             reason == IF DeclinedBy(call) THEN "DECLINED" ELSE row.reason
             settled == [row EXCEPT !.attempts = attempts, !.last = call.time,
                                    !.reason = reason]
  <2>1. payments' = [payments EXCEPT ![call.pay] = settled] /\ MayWrite(call.pay, c)
    BY <1>1 DEF AfterApply
  <2>2. settled.req = row.req /\ settled.status = row.status
    <3> HIDE DEF attempts, reason, row
    <3> QED
      BY <1>0 DEF Row
  <2>3. Sound(AfterItem(call))
    BY <1>0, WhereCallsGo DEF Sound
  <2> HIDE DEF settled
  <2> QED
    BY <1>0, <1>1, <2>1, <2>2, <2>3, WriteRefund DEF AfterApply
<1>2. CASE RecordAttempt(c)
  <2> DEFINE attempts == NextAttempts(call.given)
             recorded == [row EXCEPT !.attempts = attempts, !.last = call.time]
  <2>1. payments' = [payments EXCEPT ![call.pay] = recorded] /\ MayWrite(call.pay, c)
    BY <1>0, <1>2 DEF RecordAttempt, TypeInv, TypeOK, Row
  <2>2. recorded.req = row.req /\ recorded.status = row.status
    <3> HIDE DEF attempts, row
    <3> QED
      BY <1>0 DEF Row
  <2>3. Sound(AfterItem(call)) /\ Sound(At(call, "escalate"))
    BY <1>0, WhereCallsGo DEF Sound
  <2> HIDE DEF recorded
  <2> QED
    BY <1>0, <1>2, <2>1, <2>2, <2>3, WriteRefund DEF RecordAttempt
<1>3. CASE Escalate(c)
  <2> DEFINE escalated == [row EXCEPT !.status = "MANUAL_REVIEW"]
  <2>1. escalated.status = "MANUAL_REVIEW"
    <3> HIDE DEF row
    <3> QED
      BY <1>0 DEF Row
  <2> HIDE DEF escalated
  <2>2. Sound([call EXCEPT !.at = "save", !.snap = escalated]) /\ Sound(Thrown(call))
    <3> HIDE DEF call
    <3> QED
      BY <1>0, <2>1, WhereCallsGo DEF Sound, Call
  <2> QED
    BY <1>3, <2>2, QuietRefund DEF Escalate, escalated
<1> QED
  BY <1>1, <1>2, <1>3 DEF Reconcile

\* Nor do the administrator's actions.
LEMMA AdministerRefundInv ==
  ASSUME TypeInv, RefundInv, NEW c \in Calls, Administer(c)
  PROVE  RefundInv'
<1> ~Paying(c)
  BY OthersDoNotPay
<1>1. CASE ForceReconcile(c)
  <2>1. PICK p \in Payments :
          GoTo(c, [NewCall("force", p) EXCEPT
                     !.at = "verify", !.given = payments[p], !.time = now])
    BY <1>1 DEF ForceReconcile
  <2> DEFINE next == [NewCall("force", p) EXCEPT
                        !.at = "verify", !.given = payments[p], !.time = now]
  <2>2. next.at = "verify"
    BY DEF NewCall, IdleCall
  <2> QED
    BY <1>1, <2>1, <2>2, QuietRefund DEF ForceReconcile, Sound
<1>2. ASSUME NEW op, NEW p, NEW row, row.status # "ABSENT"
      PROVE  Sound([NewCall(op, p) EXCEPT !.at = "save", !.snap = row])
  BY <1>2 DEF Sound, NewCall, IdleCall
<1>3. CASE ResolveManually(c)
  <2>1. PICK p \in Payments, resolution \in {"CONFIRMED", "FAILED"} :
          GoTo(c, [NewCall("resolve", p) EXCEPT
                     !.at = "save", !.snap = Resolved(payments[p], resolution)])
    BY <1>3 DEF ResolveManually
  <2>2. Resolved(payments[p], resolution).status # "ABSENT"
    BY PaymentType DEF Resolved, Row
  <2> QED
    BY <1>2, <1>3, <2>1, <2>2, QuietRefund DEF ResolveManually
<1>4. CASE VoidPayment(c)
  <2>1. PICK p \in Payments :
          GoTo(c, [NewCall("void", p) EXCEPT
                     !.at = "save", !.snap = [payments[p] EXCEPT !.status = "VOIDED"]])
    BY <1>4 DEF VoidPayment
  <2>2. [payments[p] EXCEPT !.status = "VOIDED"].status # "ABSENT"
    BY PaymentType DEF Row
  <2> QED
    BY <1>2, <1>4, <2>1, <2>2, QuietRefund DEF VoidPayment
<1> QED
  BY <1>1, <1>3, <1>4 DEF Administer

\* Nor does save(), which waits for the row lock.
LEMMA SaveRefundInv ==
  ASSUME TypeInv, RefundInv, NEW c \in Calls, Save(c)
  PROVE  RefundInv'
<1> ~Paying(c)
  BY OthersDoNotPay
<1> DEFINE call == calls[c]
<1>0. /\ call \in Call /\ call.pay \in Payments /\ ~InTransaction(c)
      /\ call.snap.status # "ABSENT"
      /\ payments[call.pay] \in Row /\ call.snap \in Row
      /\ call.dirty \in SUBSET Columns
  BY CallType, PaymentType
     DEF Save, SaveSelect, SaveUpdate, Suspended, Working, Labels, InTransaction,
         RefundInv, SavesKeepRows
<1>1. Sound(AfterSave(call)) /\ Sound(Done(call, "conflict"))
  BY <1>0, WhereCallsGo, DoneAt DEF Sound
<1>2. CASE SaveSelect(c)
  <2> DEFINE cols == Changed(payments[call.pay], call.snap)
             next == [call EXCEPT !.at = "flush", !.dirty = cols]
  <2>1. next.at = "flush" /\ next.snap = call.snap
    <3> HIDE DEF call, cols
    <3> QED
      BY <1>0 DEF Call
  <2>2. Sound(next)
    BY <1>0, <2>1 DEF Sound
  <2>3. GoTo(c, AfterSave(call)) \/ GoTo(c, next)
    BY <1>2 DEF SaveSelect
  <2> HIDE DEF next
  <2> QED
    BY <1>1, <1>2, <2>2, <2>3, QuietRefund DEF SaveSelect
<1>3. CASE SaveUpdate(c)
  <2> DEFINE row == Written(payments[call.pay], call.snap, call.dirty)
  <2>1. row.req = payments[call.pay].req
        /\ (row.status = "ABSENT" => payments[call.pay].status = "ABSENT")
    <3> HIDE DEF call
    <3> QED
      BY <1>0, WrittenType
  <2>2. CASE UNCHANGED payments
    BY <1>1, <1>3, <2>2, QuietRefund DEF SaveUpdate
  <2>3. CASE payments' = [payments EXCEPT ![call.pay] = row]
    BY <1>0, <1>1, <1>3, <2>1, <2>3, WriteRefund DEF SaveUpdate
  <2> QED
    BY <1>3, <2>2, <2>3 DEF SaveUpdate
<1> QED
  BY <1>2, <1>3 DEF Save

\* Nor does an answer.
LEMMA ReplyRefundInv ==
  ASSUME TypeInv, RefundInv, NEW c \in Calls, Reply(c)
  PROVE  RefundInv'
<1> ~Paying(c)
  BY OthersDoNotPay
<1>1. Sound(IdleCall)
  BY DEF Sound, IdleCall
<1> QED
  BY <1>1, QuietRefund DEF Reply

\* Only the holder of the lock is inside a transaction on a payment.
LEMMA OneTransaction ==
  ASSUME TypeInv, RefundInv, NEW c \in Calls, NEW d \in Calls,
         InTransaction(c), InTransaction(d), calls[c].pay = calls[d].pay
  PROVE  c = d
BY DEF RefundInv, LockedRowIsCurrent

\* The refund transaction itself: the lock makes the SUM that was read, and
\* the row, those of the commit.
LEMMA RefundRefundInv ==
  ASSUME TypeInv, RefundInv, NEW c \in Calls, Refund(c)
  PROVE  RefundInv'
<1> DEFINE call == calls[c]
<1>0. call \in Call /\ call.amount \in Nat
  BY CallType
<1>a. \A d \in Calls : InTransaction(d) => calls[d].pay \in Payments
  BY CallType DEF InTransaction, Working, Labels
<1>b. \A d \in Calls : InTransaction(d) => rowLock[calls[d].pay] = d /\ d # None
  BY StoreAssumption DEF RefundInv, LockedRowIsCurrent, Calls
<1>1. CASE RefundLock(c)
  <2>1. PICK p \in Payments, amount \in RefundAmounts :
          /\ rowLock[p] = None
          /\ payments[p].status \in RefundableStatuses
          /\ rowLock' = [rowLock EXCEPT ![p] = c]
          /\ GoTo(c, [NewCall("refund", p) EXCEPT
                        !.at = "refund_sum", !.snap = payments[p], !.amount = amount])
    BY <1>1 DEF RefundLock, LockRow
  <2> DEFINE next == [NewCall("refund", p) EXCEPT
                        !.at = "refund_sum", !.snap = payments[p], !.amount = amount]
  <2>2. next.at = "refund_sum" /\ next.snap = payments[p] /\ next.pay = p
    BY DEF NewCall, IdleCall
  <2> HIDE DEF next
  <2>3. /\ calls'[c] = next
        /\ \A d \in Calls : d # c => calls'[d] = calls[d]
        /\ rowLock'[p] = c
        /\ \A q \in Payments : q # p => rowLock'[q] = rowLock[q]
        /\ UNCHANGED <<payments, refunded>>
    BY <1>1, <2>1 DEF GoTo, TypeInv, TypeOK, next, RefundLock
  <2>4. LockedRowIsCurrent'
    <3>1. ASSUME NEW d \in Calls, d # c, InTransaction(d)
          PROVE  rowLock'[calls[d].pay] = d
      BY <1>a, <1>b, <2>1, <2>3, <3>1
    <3> QED
      BY <2>1, <2>2, <2>3, <3>1 DEF RefundInv, LockedRowIsCurrent, InTransaction
  <2>5. SumIsCurrent' /\ SavesKeepRows'
    BY <2>2, <2>3 DEF RefundInv, SumIsCurrent, SavesKeepRows
  <2>6. DebtIsBooked' /\ TriesAreLeft'
    <3>1. UNCHANGED returned /\ calls[c].at = "idle"
      BY <1>1 DEF RefundLock, Start, Suspended
    <3> QED
      BY <2>2, <2>3, <3>1, OwedUnchanged DEF RefundInv, Paying
  <2> QED
    BY <2>3, <2>4, <2>5, <2>6
       DEF RefundInv, NothingCapturedUnlessPaid, RefundsWithinCaptured, Exists
<1>2. CASE RefundSum(c)
  <2>0. InTransaction(c) /\ call.pay \in Payments /\ refunded[call.pay] \in Nat
        /\ call.snap \in Row
    BY <1>2, <1>a, CallType, PaymentType DEF RefundSum, Suspended, InTransaction
  <2>1. ASSUME NEW next, GoTo(c, next),
               rowLock' \in {rowLock, [rowLock EXCEPT ![call.pay] = None]},
               next.at = "done" \/ (/\ next.at = "refund_commit"
                                    /\ rowLock' = rowLock
                                    /\ next.pay = call.pay
                                    /\ next.snap = call.snap
                                    /\ next.sum = refunded[call.pay]
                                    /\ next.sum + next.amount <= Amount(next.snap))
        PROVE  RefundInv'
    <3>1. /\ calls'[c] = next
          /\ \A d \in Calls : d # c => calls'[d] = calls[d]
          /\ \A q \in Payments : q # call.pay => rowLock'[q] = rowLock[q]
          /\ UNCHANGED <<payments, refunded>>
      BY <1>2, <2>0, <2>1 DEF GoTo, TypeInv, TypeOK, RefundSum
    <3>2. \A d \in Calls : d # c /\ InTransaction(d) => calls[d].pay # call.pay
      BY <2>0, OneTransaction
    <3>3. LockedRowIsCurrent'
      BY <1>a, <2>0, <2>1, <3>1, <3>2 DEF RefundInv, LockedRowIsCurrent, InTransaction
    <3>4. SumIsCurrent' /\ SavesKeepRows'
      BY <2>1, <3>1 DEF RefundInv, SumIsCurrent, SavesKeepRows
    <3>5. DebtIsBooked' /\ TriesAreLeft'
      <4>1. UNCHANGED returned /\ calls[c].at = "refund_sum"
        BY <1>2 DEF RefundSum, Suspended
      <4> QED
        BY <2>1, <3>1, <4>1, OwedUnchanged DEF RefundInv, Paying
    <3> QED
      BY <3>1, <3>3, <3>4, <3>5
         DEF RefundInv, NothingCapturedUnlessPaid, RefundsWithinCaptured, Exists
  <2>2. CASE /\ GoTo(c, Done(call, "conflict"))
             /\ rowLock' = [rowLock EXCEPT ![call.pay] = None]
    BY <2>1, <2>2, DoneAt
  <2>3. CASE /\ call.amount <= Remaining(call)
             /\ GoTo(c, [call EXCEPT !.at = "refund_commit", !.sum = refunded[call.pay]])
             /\ UNCHANGED rowLock
    <3> DEFINE sum == refunded[call.pay]
               next == [call EXCEPT !.at = "refund_commit", !.sum = sum]
    <3>1. /\ next.at = "refund_commit" /\ next.pay = call.pay
          /\ next.snap = call.snap /\ next.sum = sum /\ next.amount = call.amount
      <4> HIDE DEF call, sum
      <4> QED
        BY <1>0 DEF Call
    <3>2. Amount(call.snap) \in Nat
      BY <2>0, StoreAssumption DEF Amount, Row, NoRequest
    <3>3. sum + call.amount <= Amount(call.snap)
      BY <1>0, <2>0, <2>3, <3>2 DEF Remaining
    <3> HIDE DEF next
    <3>4. GoTo(c, next)
      BY <2>3 DEF next
    <3> QED
      BY <2>1, <2>3, <3>1, <3>3, <3>4
  <2> QED
    BY <1>2, <2>2, <2>3 DEF RefundSum
<1>3. CASE RefundCommit(c)
  <2> DEFINE next == [call EXCEPT !.at = "refund_provider", !.sum = 0]
  <2>0. /\ InTransaction(c) /\ call.pay \in Payments /\ refunded[call.pay] \in Nat
        /\ payments[call.pay] \in Row
    BY <1>3, <1>a, PaymentType DEF RefundCommit, Suspended, InTransaction
  <2>1. /\ next.at = "refund_provider" /\ next.sum = 0
        /\ next.pay = call.pay /\ next.amount = call.amount
    <3> HIDE DEF call
    <3> QED
      BY <1>0 DEF Call
  <2>2. /\ calls'[c] = next
        /\ \A d \in Calls : d # c => calls'[d] = calls[d]
        /\ \A q \in Payments : q # call.pay =>
              rowLock'[q] = rowLock[q] /\ payments'[q] = payments[q]
              /\ refunded'[q] = refunded[q]
        /\ payments'[call.pay] = [payments[call.pay] EXCEPT !.status = RefundedStatus(call)]
        /\ refunded'[call.pay] = refunded[call.pay] + call.amount
    BY <1>3, <2>0 DEF GoTo, TypeInv, TypeOK, RefundCommit
  <2> HIDE DEF next
  <2>3. \A d \in Calls : d # c /\ InTransaction(d) => calls[d].pay # call.pay
    BY <2>0, OneTransaction
  <2>4. LockedRowIsCurrent'
    BY <1>a, <2>1, <2>2, <2>3 DEF RefundInv, LockedRowIsCurrent, InTransaction
  <2>5. SumIsCurrent'
    BY <1>a, <2>1, <2>2, <2>3 DEF RefundInv, SumIsCurrent, InTransaction
  <2>6. SavesKeepRows'
    BY <2>1, <2>2 DEF RefundInv, SavesKeepRows
  <2>7. /\ payments'[call.pay].status \in {"REFUNDED", "PARTIALLY_REFUNDED"}
        /\ payments'[call.pay].req = payments[call.pay].req
    BY <2>0, <2>2 DEF Row, RefundedStatus
  <2>8. NothingCapturedUnlessPaid'
    BY <2>2, <2>7 DEF RefundInv, NothingCapturedUnlessPaid, Exists
  <2>9. RefundsWithinCaptured'
    <3>1. /\ call.sum = refunded[call.pay]
          /\ call.sum + call.amount <= Amount(call.snap)
          /\ call.snap = payments[call.pay]
      BY <1>3, <2>0 DEF RefundInv, SumIsCurrent, LockedRowIsCurrent, RefundCommit, Suspended
    <3>2. refunded'[call.pay] <= Amount(payments'[call.pay])
      BY <2>2, <2>7, <3>1 DEF Amount
    <3>3. ASSUME NEW q \in Payments, q # call.pay
          PROVE  refunded'[q] <= Amount(payments'[q])
      BY <2>2, <3>3 DEF RefundInv, RefundsWithinCaptured
    <3> QED
      BY <3>2, <3>3 DEF RefundsWithinCaptured
  <2>10. DebtIsBooked' /\ TriesAreLeft'
    <3>1. UNCHANGED returned /\ ~Paying(c) /\ Paying(c)' /\ TriesAreLeft /\ DebtIsBooked
      BY <1>3, <2>1, <2>2 DEF RefundCommit, Suspended, Paying, RefundInv
    <3>2. PICK p \in Payments : p = call.pay
      BY <2>0
    <3>3. /\ IsFiniteSet(Owed(p)')
          /\ Cardinality(Owed(p)') <= Cardinality(Owed(p)) + RefundTries * call.amount
          /\ \A q \in Payments : q # p => Owed(q)' = Owed(q)
      BY <2>1, <2>2, <3>1, <3>2, BookedUnits
    <3>4. TriesAreLeft'
      BY <2>1, <2>2, <3>1, RefundAssumption DEF TriesAreLeft, Paying
    <3>5. returned'[p] + Cardinality(Owed(p)') <= RefundTries * refunded'[p]
      <4> DEFINE before == RefundTries * refunded[p]
                 more == RefundTries * call.amount
      <4>1. /\ returned[p] \in Nat /\ refunded[p] \in Nat /\ call.amount \in Nat
            /\ RefundTries \in Nat /\ before \in Nat /\ more \in Nat
        BY <1>0, PaymentType, RefundAssumption
      <4>2. Cardinality(Owed(p)') \in Nat /\ Cardinality(Owed(p)) \in Nat
        BY <3>1, <3>3, FS_CardinalityType DEF DebtIsBooked
      <4>3. RefundTries * refunded'[p] = before + more
        BY <2>2, <3>2, <4>1
      <4>4. returned[p] + Cardinality(Owed(p)) <= before
        BY <3>1 DEF DebtIsBooked
      <4>5. returned'[p] = returned[p]
        BY <3>1
      <4> HIDE DEF before
      <4>6. Cardinality(Owed(p)') <= Cardinality(Owed(p)) + more
        BY <3>3
      <4> HIDE DEF more
      <4> QED
        BY <4>1, <4>2, <4>3, <4>4, <4>5, <4>6
    <3>6. ASSUME NEW q \in Payments, q # p
          PROVE  IsFiniteSet(Owed(q)') /\ returned'[q] + Cardinality(Owed(q)') <= RefundTries * refunded'[q]
      BY <2>2, <3>1, <3>2, <3>3, <3>6 DEF DebtIsBooked
    <3> QED
      BY <3>3, <3>4, <3>5, <3>6 DEF DebtIsBooked
  <2> QED
    BY <2>4, <2>5, <2>6, <2>8, <2>9, <2>10 DEF RefundInv
<1>4. CASE RefundProvider(c)
  <2> DEFINE sum == call.sum + 1
             again == [call EXCEPT !.sum = sum]
  <2>0. /\ Paying(c) /\ call.pay \in Payments /\ call.sum < RefundTries /\ call.sum \in Nat
        /\ TriesAreLeft /\ DebtIsBooked
        /\ UNCHANGED <<payments, refunded, rowLock>>
    BY <1>4, CallType DEF RefundProvider, Suspended, Paying, Working, Labels, RefundInv,
         TriesAreLeft
  <2>1. PICK p \in Payments : p = call.pay
    BY <2>0
  <2>2. /\ again.at = "refund_provider" /\ again.sum = sum
        /\ again.pay = call.pay /\ again.amount = call.amount
    <3>1. call.at = "refund_provider"
      BY <2>0 DEF Paying
    <3> HIDE DEF call, sum
    <3> QED
      BY <1>0, <3>1 DEF Call
  <2>3. PICK next \in {Done(call, "ok"), again} :
          GoTo(c, next) /\ (next = again => ~LastTry(call))
    BY <1>4, <2>2, DoneAt DEF RefundProvider
  <2>4. /\ calls'[c] = next
        /\ \A d \in Calls : d # c => calls'[d] = calls[d]
    BY <2>3 DEF GoTo, TypeInv, TypeOK
  <2>5. Paying(c)' => next = again
    BY <2>3, <2>4, DoneAt DEF Paying
  <2>6. returned' \in {returned, [returned EXCEPT ![p] = @ + call.amount]}
    BY <1>4, <2>1 DEF RefundProvider
  <2> HIDE DEF again
  <2>7. LockedRowIsCurrent' /\ SumIsCurrent' /\ SavesKeepRows'
    <3>1. next.at \in {"done", "refund_provider"}
      BY <2>2, <2>3, DoneAt
    <3> QED
      BY <2>0, <2>4, <3>1
         DEF RefundInv, LockedRowIsCurrent, SumIsCurrent, SavesKeepRows, InTransaction
  <2>8. TriesAreLeft'
    <3>1. next = again => sum < RefundTries
      BY <2>0, <2>3, RefundAssumption DEF LastTry
    <3> QED
      BY <2>0, <2>2, <2>4, <2>5, <3>1 DEF TriesAreLeft, Paying
  <2>9. /\ IsFiniteSet(Owed(p)')
        /\ Cardinality(Owed(p)') + call.amount <= Cardinality(Owed(p))
        /\ \A q \in Payments : q # p => Owed(q)' = Owed(q)
    BY <2>0, <2>1, <2>2, <2>4, <2>5, PaidUnits
  <2>10. returned'[p] + Cardinality(Owed(p)') <= RefundTries * refunded[p]
    <3> DEFINE booked == RefundTries * refunded[p]
    <3>1. Cardinality(Owed(p)') \in Nat /\ Cardinality(Owed(p)) \in Nat
      BY <2>0, <2>9, FS_CardinalityType DEF DebtIsBooked
    <3>2. returned[p] + Cardinality(Owed(p)) <= booked
      BY <2>0 DEF DebtIsBooked
    <3>3. returned[p] \in Nat /\ returned'[p] \in {returned[p], returned[p] + call.amount}
      BY <2>6, PaymentType DEF TypeInv, TypeOK
    <3>4. booked \in Nat
      BY PaymentType, RefundAssumption
    <3> HIDE DEF booked
    <3>5. returned'[p] + Cardinality(Owed(p)') <= booked
      BY <1>0, <2>9, <3>1, <3>2, <3>3, <3>4
    <3> QED
      BY <3>5 DEF booked
  <2>11. \A q \in Payments : q # p => returned'[q] = returned[q]
    BY <2>6 DEF TypeInv, TypeOK
  <2>12. DebtIsBooked'
    BY <2>0, <2>9, <2>10, <2>11 DEF DebtIsBooked
  <2> QED
    BY <2>0, <2>7, <2>8, <2>12
       DEF RefundInv, NothingCapturedUnlessPaid, RefundsWithinCaptured, Exists
<1> QED
  BY <1>1, <1>2, <1>3, <1>4 DEF Refund

(***************************************************************************)
(* The system.                                                             *)
(***************************************************************************)

\* No refund is booked at first.
LEMMA RefundInit == Init => RefundInv
<1> SUFFICES ASSUME Init
             PROVE  RefundInv
  OBVIOUS
<1>1. \A c \in Calls : calls[c].at = "idle"
  BY DEF Init, IdleCall
<1>3. DebtIsBooked /\ TriesAreLeft
  <2>1. \A p \in Payments : refunded[p] = 0 /\ returned[p] = 0
    BY DEF Init
  <2> QED
    BY <1>1, <2>1, NothingOwed, RefundAssumption DEF DebtIsBooked, TriesAreLeft, Paying
<1>2. \A p \in Payments : Amount(payments[p]) = 0 /\ refunded[p] = 0
  BY DEF Init, NoRow, NewRow, NoRequest, Amount
<1> QED
  BY <1>1, <1>2, <1>3 DEF RefundInv, LockedRowIsCurrent, SumIsCurrent, SavesKeepRows,
       NothingCapturedUnlessPaid, RefundsWithinCaptured, InTransaction

\* Every step preserves the refund invariant.
LEMMA RefundStep == TypeInv /\ RefundInv /\ [Next]_vars => RefundInv'
<1> SUFFICES ASSUME TypeInv, RefundInv, [Next]_vars
             PROVE  RefundInv'
  OBVIOUS
<1> USE DEF LockedRowIsCurrent, SumIsCurrent, SavesKeepRows,
            NothingCapturedUnlessPaid, RefundsWithinCaptured, InTransaction, Exists
<1>1. CASE UNCHANGED vars \/ ProviderSettle \/ Tick
  <2>1. UNCHANGED <<payments, refunded, returned, rowLock, calls>>
    BY <1>1 DEF vars, ProviderSettle, Tick
  <2>2. DebtIsBooked' /\ TriesAreLeft'
    BY <2>1, OwedUnchanged DEF RefundInv
  <2> QED
    BY <2>1, <2>2 DEF RefundInv
<1>3. CASE Restart
  <2>1. UNCHANGED <<payments, refunded, returned>> /\ \A c \in Calls : calls'[c].at = "idle"
    BY <1>3 DEF Restart, IdleCall
  <2>2. DebtIsBooked' /\ TriesAreLeft'
    BY <2>1, CallsLost DEF RefundInv
  <2> QED
    BY <2>1, <2>2 DEF RefundInv
<1>4. ASSUME NEW c \in Calls, HttpStep(c) \/ CronStep(c)
      PROVE  RefundInv'
  BY <1>4, InitiateRefundInv, ConfirmRefundInv, PassRefundInv, ReconcileRefundInv,
     AdministerRefundInv, SaveRefundInv, ReplyRefundInv, RefundRefundInv
     DEF HttpStep, CronStep, Confirm
<1> QED
  BY <1>1, <1>3, <1>4 DEF Next, Calls

\* The refund invariant holds in every reachable state.
THEOREM RefundInvAlways == Spec => []RefundInv
<1> QED
  BY RefundInit, RefundStep, TypeInvAlways, PTL DEF Spec

\* No interleaving of refunds, stale saves, polls and crashes books more than
\* was captured.
THEOREM RefundsNeverExceedCaptured == Spec => []RefundsWithinCaptured
<1>1. RefundInv => RefundsWithinCaptured
  BY DEF RefundInv
<1> QED
  BY <1>1, RefundInvAlways, PTL

\* The provider pays back at most what was booked, once per attempt: no lost
\* answer, retry or crash makes it pay out money that no refund was booked for.
THEOREM NeverPaidBackUnbooked == Spec => []PaidBackOnlyWhatIsBooked
<1>1. TypeInv /\ RefundInv => PaidBackOnlyWhatIsBooked
  <2> SUFFICES ASSUME TypeInv, RefundInv, NEW p \in Payments
               PROVE  returned[p] <= RefundTries * refunded[p]
    BY DEF PaidBackOnlyWhatIsBooked
  <2> DEFINE booked == RefundTries * refunded[p]
  <2>1. returned[p] \in Nat /\ booked \in Nat
    BY PaymentType, RefundAssumption
  <2>2. IsFiniteSet(Owed(p)) /\ returned[p] + Cardinality(Owed(p)) <= booked
    BY DEF RefundInv, DebtIsBooked
  <2>3. Cardinality(Owed(p)) \in Nat
    BY <2>2, FS_CardinalityType
  <2> HIDE DEF booked
  <2>4. returned[p] <= booked
    BY <2>1, <2>2, <2>3
  <2> QED
    BY <2>4 DEF booked
<1> QED
  BY <1>1, TypeInvAlways, RefundInvAlways, PTL

\* Only the COMMIT of a refund's transaction writes the ledger.
LEMMA LedgerWriters ==
  ASSUME Next, refunded' # refunded
  PROVE  \E c \in Calls : RefundCommit(c)
<1>1. ~ProviderSettle /\ ~Tick /\ ~Restart
  BY DEF ProviderSettle, Tick, Restart
<1>2. ASSUME NEW c \in Calls
      PROVE  ~Initiate(c) /\ ~Confirm(c) /\ ~Save(c) /\ ~Reply(c)
  BY DEF Initiate, InitiateStart, CheckBooking, InsertPayment, ReadWinner,
         RailInitiate, Confirm, WebhookReceive, RejectWebhook, VerifyReturnStart,
         VerifyAnswer, Apply, LogNoOp, LogApplied, Save, SaveSelect, SaveUpdate, Reply
<1>3. ASSUME NEW c \in Calls
      PROVE  ~ReconciliationPass(c) /\ ~Reconcile(c) /\ ~Administer(c)
  BY DEF ReconciliationPass, CronStart, SweepOne, FindAwaiting, PollOne, PassEnd,
         Reconcile, AfterApply, RecordAttempt, Escalate, Administer,
         ForceReconcile, ResolveManually, VoidPayment
<1>4. ASSUME NEW c \in Calls, Refund(c)
      PROVE  RefundCommit(c)
  BY <1>4 DEF Refund, RefundLock, RefundSum, RefundProvider
<1> QED
  BY <1>1, <1>2, <1>3, <1>4 DEF Next, HttpStep, CronStep, Confirm, Calls

\* Every refund is booked on a payment that is refundable at the moment of the
\* COMMIT, and the status it leaves is the one the new total calls for.
THEOREM RefundsMatchTheLedger == Spec => RefundMatchesLedger
<1> DEFINE Matches ==
      \A p \in Payments :
        refunded'[p] # refunded[p] =>
          /\ payments[p].status \in RefundableStatuses
          /\ payments'[p].status = IF refunded'[p] = Amount(payments'[p])
                                   THEN "REFUNDED" ELSE "PARTIALLY_REFUNDED"
<1>1. ASSUME TypeInv, RefundInv, [Next]_vars, NEW p \in Payments,
             refunded'[p] # refunded[p]
      PROVE  /\ payments[p].status \in RefundableStatuses
             /\ payments'[p].status = IF refunded'[p] = Amount(payments'[p])
                                      THEN "REFUNDED" ELSE "PARTIALLY_REFUNDED"
  <2>1. PICK c \in Calls : RefundCommit(c)
    BY <1>1, LedgerWriters DEF vars
  <2> DEFINE call == calls[c]
  <2>2. /\ call.pay \in Payments /\ call.amount \in Nat
        /\ payments[call.pay] \in Row /\ refunded[call.pay] \in Nat
    BY <1>1, <2>1, CallType, PaymentType DEF RefundCommit, Suspended, Working, Labels
  <2>3. /\ call.snap = payments[call.pay]
        /\ call.snap.status \in RefundableStatuses
        /\ call.sum = refunded[call.pay]
        /\ call.sum + call.amount <= Amount(call.snap)
    BY <1>1, <2>1 DEF RefundInv, LockedRowIsCurrent, SumIsCurrent, InTransaction,
         RefundCommit, Suspended
  <2>4. /\ refunded' = [refunded EXCEPT ![call.pay] = refunded[call.pay] + call.amount]
        /\ payments' = [payments EXCEPT
              ![call.pay] = [payments[call.pay] EXCEPT !.status = RefundedStatus(call)]]
    BY <2>1 DEF RefundCommit
  <2>5. p = call.pay
    BY <1>1, <2>4 DEF TypeInv, TypeOK
  <2>6. /\ refunded'[p] = call.sum + call.amount
        /\ payments'[p].status = RefundedStatus(call)
        /\ Amount(payments'[p]) = Amount(call.snap)
    BY <1>1, <2>2, <2>3, <2>4, <2>5 DEF TypeInv, TypeOK, Row, Amount
  <2>7. Amount(call.snap) \in Nat /\ call.sum \in Nat
    BY <2>2, <2>3, StoreAssumption DEF Amount, Row, NoRequest
  <2> QED
    BY <2>2, <2>3, <2>5, <2>6, <2>7 DEF RefundedStatus
<1>2. TypeInv /\ RefundInv /\ [Next]_vars => [Matches]_vars
  BY <1>1
<1>3. Spec => [][Matches]_vars
  BY <1>2, TypeInvAlways, RefundInvAlways, PTL DEF Spec
<1> QED
  BY <1>3 DEF RefundMatchesLedger
=============================================================================
