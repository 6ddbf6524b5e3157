--------------------------- MODULE CaseDeskProofs ----------------------------
(***************************************************************************)
(* Theorems about CaseDesk for every set of requests, calls, results,      *)
(* amounts and bounds: the types, and the stage of a case, which moves     *)
(* only by changeStatus while nobody calls reopen. Entities loaded before  *)
(* a status change can no longer be saved, and the others agree with the   *)
(* row in the stage columns.                                               *)
(***************************************************************************)
EXTENDS CaseDesk, TLAPS

USE DEF Steps, CaseStatusLevel, OPENED, INVESTIGATING, PENDING, COMPLETED

-----------------------------------------------------------------------------
(* The types of the helpers. *)

\* A request that goes on, or is answered, keeps pc and mem well typed.
LEMMA GotoType ==
  ASSUME TypeOK, NEW r \in Requests, NEW step \in Steps, Goto(r, step)
  PROVE  pc' \in [Requests -> Steps]
  BY DEF TypeOK, Goto

\* Remembering something of the type of a memory keeps mem well typed.
LEMMA HoldType ==
  ASSUME TypeOK, NEW r \in Requests, NEW held \in Memory, Hold(r, held)
  PROVE  mem' \in [Requests -> Memory]
  BY DEF TypeOK, Hold

\* The rows a case starts with have the types of their tables.
LEMMA RowTypes ==
  NewCase \in ServiceCase /\ Absent \in CasePayment /\ NoPickup \in CasePickup
  BY DEF NewCase, Absent, NoPickup, ServiceCase, CasePayment, CasePickup,
         ResultType, NoResult, COVERED, PAYABLE, REPLACEABLE, PaymentStatus

\* So does the memory of a request that has read nothing.
LEMMA BlankType == Blank \in Memory
  BY MaxOffersAssumption, RowTypes DEF Blank, Memory

\* An answered request leaves pc and mem well typed.
LEMMA ReturnType ==
  ASSUME TypeOK, NEW r \in Requests, Return(r)
  PROVE  pc' \in [Requests -> Steps] /\ mem' \in [Requests -> Memory]
  BY BlankType, GotoType, HoldType DEF Return

\* Inserting an offer keeps case_payments well typed.
LEMMA InsertType ==
  ASSUME TypeOK, NEW offer \in CasePayment, Insert(offer)
  PROVE  offers' \in [Offers -> CasePayment]
  BY DEF TypeOK, Insert

\* The state before the first request has the types.
LEMMA InitType == Init => TypeOK
<1> SUFFICES ASSUME Init PROVE TypeOK
  OBVIOUS
<1>1. offers \in [Offers -> CasePayment]
  BY RowTypes DEF Init
<1>2. pc \in [Requests -> Steps] /\ mem \in [Requests -> Memory]
  BY BlankType DEF Init
<1>3. paidEver \in BOOLEAN
  BY DEF Init
<1>4. QED
  BY <1>1, <1>2, <1>3, RowTypes DEF Init, TypeOK

(* What changeStatus puts into memory. *)
LEMMA EffectiveResultType ==
  ASSUME TypeOK, NEW to \in CaseStatusLevel, NEW newResult \in Results \cup {NoResult}
  PROVE  EffectiveResult(to, newResult) \in ResultType \cup {NoResult}
  BY ResultsAssumption
  DEF EffectiveResult, TypeOK, ServiceCase, ResultType, COVERED, PAYABLE, REPLACEABLE

\* The row changeStatus prepares is a row of service_cases.
LEMMA ChangedRowType ==
  ASSUME TypeOK, NEW to \in CaseStatusLevel, NEW wantPin \in BOOLEAN,
         NEW result \in ResultType \cup {NoResult}
  PROVE  ChangedRow(to, result, wantPin) \in ServiceCase
  BY DEF ChangedRow, TypeOK, ServiceCase

\* What a caller may offer is a row of case_payments.
LEMMA OfferArgumentType == OfferArguments \subseteq CasePayment
  BY AmountsAssumption, ResultsAssumption, RowTypes
  DEF OfferArguments, NoOffer, CasePayment, PaymentStatus, ResultType, COVERED,
      PAYABLE, REPLACEABLE

\* The first half of changeStatus keeps the types.
LEMMA ChangeStatusType ==
  ASSUME TypeOK, NEW r \in Requests, NEW technician, NEW to \in CaseStatusLevel,
         NEW newResult \in Results \cup {NoResult}, NEW offer \in OfferArguments,
         NEW noted, NEW wantPin \in BOOLEAN,
         ChangeStatus(r, technician, to, newResult, offer, noted, wantPin)
  PROVE  TypeOK'
<1> DEFINE result == EffectiveResult(to, newResult)
           row == ChangedRow(to, result, wantPin)
           made == IF ~CreatesOffer(to, result, offer) THEN NoOffer
                   ELSE IF offer # NoOffer THEN offer
                   ELSE [Absent EXCEPT !.status = "pending"]
<1>1. row \in ServiceCase
  BY EffectiveResultType, ChangedRowType
<1>2. made \in CasePayment
  BY OfferArgumentType, RowTypes DEF NoOffer, CasePayment, PaymentStatus
<1>3. [Blank EXCEPT !.row = row, !.offer = made] \in Memory
  <2> HIDE DEF row, made
  <2> QED BY <1>1, <1>2, BlankType DEF Memory
<1>4. mem' \in [Requests -> Memory]
  BY <1>3, HoldType DEF ChangeStatus
<1>5. pc' \in [Requests -> Steps]
  BY GotoType DEF ChangeStatus
<1>6. lock' \in Requests \cup {Nobody}
  BY DEF ChangeStatus, LockCase
<1>7. QED
  BY <1>4, <1>5, <1>6 DEF ChangeStatus, TypeOK, tables, ghosts

\* So does its second half, the commit.
LEMMA ChangeStatusCommitType ==
  ASSUME TypeOK, NEW r \in Requests, ChangeStatusCommit(r)
  PROVE  TypeOK'
<1>1. mem[r] \in Memory /\ mem[r].row \in ServiceCase /\ mem[r].offer \in CasePayment
  BY DEF TypeOK, Memory
<1>2. offers' \in [Offers -> CasePayment]
  BY <1>1, InsertType DEF ChangeStatusCommit, TypeOK
<1>3. mem' \in [Requests -> Memory]
  BY HoldType, BlankType DEF ChangeStatusCommit
<1>4. pc' \in [Requests -> Steps]
  BY GotoType DEF ChangeStatusCommit
<1>5. lock' \in Requests \cup {Nobody} /\ handovers' \in Nat
  BY DEF ChangeStatusCommit, UnlockCase, CountHandovers, TypeOK
<1>6. case' \in ServiceCase /\ recorded' \in CaseStatusLevel
  BY <1>1 DEF ChangeStatusCommit, ServiceCase
<1>7. QED
  BY <1>2, <1>3, <1>4, <1>5, <1>6 DEF ChangeStatusCommit, TypeOK, NewHistoryRow

(* Every handler that loads the case, changes it in memory and saves it. *)
LEMMA LoadCaseType ==
  ASSUME TypeOK, NEW r \in Requests, NEW row \in ServiceCase, NEW then \in Steps,
         LoadCase(r, row, then)
  PROVE  TypeOK'
<1>1. [Blank EXCEPT !.row = row, !.seen = Live, !.then = then] \in Memory
  BY BlankType DEF Memory, Live
<1>2. mem' \in [Requests -> Memory] /\ pc' \in [Requests -> Steps]
  BY <1>1, HoldType, GotoType DEF LoadCase
<1>3. QED
  BY <1>2 DEF LoadCase, TypeOK, tables, ghosts

\* Adding a history row of some status keeps the types.
LEMMA CreateHistoryEntryType ==
  ASSUME TypeOK, NEW r \in Requests, NEW status \in CaseStatusLevel,
         CreateHistoryEntry(r, status)
  PROVE  TypeOK'
  BY ReturnType DEF CreateHistoryEntry, TypeOK, NewHistoryRow, ghosts

\* The comparison that save() makes keeps the types.
LEMMA SaveCaseType ==
  ASSUME TypeOK, NEW r \in Requests, SaveCase(r)
  PROVE  TypeOK'
<1> DEFINE changed == Changed(mem[r].row, case, CaseColumns)
           held == [mem[r] EXCEPT !.dirty = changed]
<1>1. changed \subseteq Columns
  BY DEF Changed, CaseColumns, Columns
<1>2. held \in Memory
  <2> HIDE DEF changed
  <2> QED BY <1>1 DEF TypeOK, Memory
<1>3. mem' \in [Requests -> Memory] /\ pc' \in [Requests -> Steps]
  BY <1>2, HoldType, GotoType DEF SaveCase
<1>4. QED
  BY <1>3 DEF SaveCase, TypeOK, tables, ghosts

\* The update that save() sends keeps the types.
LEMMA WriteCaseType ==
  ASSUME TypeOK, NEW r \in Requests, WriteCase(r)
  PROVE  TypeOK'
<1>1. mem[r].row \in ServiceCase /\ mem[r].then \in Steps /\ case \in ServiceCase
  BY DEF TypeOK, Memory
<1>2. mem' \in [Requests -> Memory] /\ pc' \in [Requests -> Steps]
  BY <1>1, HoldType, GotoType, BlankType DEF WriteCase
<1>3. case' \in ServiceCase
  <2>1. /\ Column(r, "status") \in CaseStatusLevel
        /\ Column(r, "result") \in ResultType \cup {NoResult}
        /\ Column(r, "closed") \in BOOLEAN
        /\ Column(r, "pinRequired") \in BOOLEAN
        /\ Column(r, "partsWaiting") \in BOOLEAN
    BY <1>1 DEF Column, ServiceCase
  <2>2. QED
    BY <2>1 DEF WriteCase, ServiceCase
<1>4. handovers' \in Nat
  BY DEF WriteCase, CountHandovers, TypeOK
<1>5. QED
  BY <1>2, <1>3, <1>4 DEF WriteCase, TypeOK

\* Every call of cases.service that works on the stage keeps the types.
LEMMA StatusCallsType ==
  ASSUME TypeOK, NEW r \in Requests, StatusCalls(r)
  PROVE  TypeOK'
<1>1. CASE \E technician \in (IF Managers THEN BOOLEAN ELSE {TRUE}) :
           \E to \in CaseStatusLevel, result \in Results \cup {NoResult} :
           \E offer \in OfferArguments, noted, wantPin \in BOOLEAN :
             ChangeStatus(r, technician, to, result, offer, noted, wantPin)
  BY <1>1, ChangeStatusType
<1>2. CASE Update(r)
  BY <1>2, LoadCaseType DEF Update, TypeOK
<1>3. CASE Reopen(r)
  <2> DEFINE moved == [case EXCEPT !.status = PENDING]
             opened == [moved EXCEPT !.closed = FALSE]
             reopened == [opened EXCEPT !.pinRequired = FALSE]
  <2>1. moved \in ServiceCase
    BY DEF TypeOK, ServiceCase
  <2>2. opened \in ServiceCase
    <3> HIDE DEF moved
    <3> QED BY <2>1 DEF ServiceCase
  <2>3. reopened \in ServiceCase
    <3> HIDE DEF opened
    <3> QED BY <2>2 DEF ServiceCase
  <2>4. QED BY <1>3, <2>3, LoadCaseType DEF Reopen
<1>4. CASE StartPartsWaiting(r)
  <2>1. [case EXCEPT !.partsWaiting = TRUE] \in ServiceCase
    BY DEF TypeOK, ServiceCase
  <2>2. QED BY <1>4, <2>1, LoadCaseType DEF StartPartsWaiting
<1>5. CASE ReceivePartsWaiting(r)
  <2>1. [case EXCEPT !.partsWaiting = FALSE] \in ServiceCase
    BY DEF TypeOK, ServiceCase
  <2>2. QED BY <1>5, <2>1, LoadCaseType DEF ReceivePartsWaiting
<1>6. CASE AddInternalNote(r)
  BY <1>6, CreateHistoryEntryType DEF AddInternalNote, TypeOK
<1>7. QED
  BY <1>1, <1>2, <1>3, <1>4, <1>5, <1>6 DEF StatusCalls

\* Loading an offer and changing it in memory keeps the types.
LEMMA LoadOfferType ==
  ASSUME TypeOK, NEW r \in Requests, NEW o \in Offers, NEW entity \in CasePayment,
         NEW step \in Steps, LoadOffer(r, o, entity, step)
  PROVE  TypeOK'
<1>1. [Blank EXCEPT !.key = o, !.offer = entity] \in Memory
  <2> DEFINE keyed == [Blank EXCEPT !.key = o]
  <2>1. keyed \in Memory
    BY BlankType, MaxOffersAssumption DEF Memory, Offers
  <2>2. [keyed EXCEPT !.offer = entity] \in Memory
    <3> HIDE DEF keyed
    <3> QED BY <2>1 DEF Memory
  <2>3. QED BY <2>2
<1>2. mem' \in [Requests -> Memory] /\ pc' \in [Requests -> Steps]
  BY <1>1, HoldType, GotoType DEF LoadOffer
<1>3. QED
  BY <1>2 DEF LoadOffer, TypeOK, tables, ghosts

\* An offer in memory, as the handlers change it.
LEMMA OfferChangeType ==
  ASSUME TypeOK, NEW o \in Offers
  PROVE  /\ offers[o] \in CasePayment
         /\ \A amount \in Amounts : [offers[o] EXCEPT !.amount = amount] \in CasePayment
         /\ \A status \in PaymentStatus : [offers[o] EXCEPT !.status = status] \in CasePayment
<1>1. offers[o] \in CasePayment
  BY DEF TypeOK
<1>2. \A amount \in Amounts : [offers[o] EXCEPT !.amount = amount] \in CasePayment
  BY <1>1, AmountsAssumption DEF CasePayment
<1>3. \A status \in PaymentStatus : [offers[o] EXCEPT !.status = status] \in CasePayment
  BY <1>1 DEF CasePayment
<1>4. QED
  BY <1>1, <1>2, <1>3

\* markAsPaid and markAsFailed keep the types.
LEMMA MarkType ==
  ASSUME TypeOK, NEW r \in Requests, NEW o \in Offers, MarkAsPaid(r, o) \/ MarkAsFailed(r, o)
  PROVE  TypeOK'
<1>1. "paid" \in PaymentStatus /\ "failed" \in PaymentStatus
  BY DEF PaymentStatus
<1>2. QED
  BY <1>1, OfferChangeType, LoadOfferType DEF MarkAsPaid, MarkAsFailed

\* Every call of payments.service and bog.service keeps the types.
LEMMA OfferCallsType ==
  ASSUME TypeOK, NEW r \in Requests, OfferCalls(r)
  PROVE  TypeOK'
<1>1. CASE \E type \in Results, amount \in Amounts : CreateOffer(r, type, amount)
  <2> PICK type \in Results, amount \in Amounts : CreateOffer(r, type, amount)
    BY <1>1
  <2> DEFINE offer == [type |-> type, status |-> "pending", amount |-> amount]
  <2>1. offer \in CasePayment
    BY AmountsAssumption, ResultsAssumption
    DEF CasePayment, PaymentStatus, ResultType, COVERED, PAYABLE, REPLACEABLE
  <2>2. [Blank EXCEPT !.offer = offer] \in Memory
    <3> HIDE DEF offer
    <3> QED BY <2>1, BlankType DEF Memory
  <2>3. mem' \in [Requests -> Memory] /\ pc' \in [Requests -> Steps]
    BY <2>2, HoldType, GotoType DEF CreateOffer
  <2>4. QED
    BY <2>3 DEF CreateOffer, TypeOK, tables, ghosts
<1>2. ASSUME NEW o \in Live,
             \/ \E amount \in Amounts : UpdateOffer(r, o, amount)
             \/ MarkAsPaid(r, o)
             \/ MarkAsFailed(r, o)
             \/ SendPaymentReminder(r, o)
             \/ InitiatePayment(r, o)
             \/ HandleCallback(r, o, "completed")
             \/ HandleCallback(r, o, "failed")
             \/ Remove(r, o)
      PROVE  TypeOK'
  <2>1. o \in Offers
    BY DEF Live
  <2>2. CASE \E amount \in Amounts : UpdateOffer(r, o, amount)
    BY <2>1, <2>2, OfferChangeType, LoadOfferType DEF UpdateOffer
  <2>3. CASE MarkAsPaid(r, o) \/ MarkAsFailed(r, o)
    BY <2>1, <2>3, MarkType
  <2>4. CASE SendPaymentReminder(r, o) \/ InitiatePayment(r, o)
    BY <2>1, <2>4, OfferChangeType, LoadOfferType DEF SendPaymentReminder, InitiatePayment
  <2>5. CASE HandleCallback(r, o, "completed") \/ HandleCallback(r, o, "failed")
    BY <2>1, <2>5, MarkType DEF HandleCallback
  <2>6. CASE Remove(r, o)
    BY <2>1, <2>6, RowTypes, LoadOfferType DEF Remove
  <2>7. QED
    BY <1>2, <2>2, <2>3, <2>4, <2>5, <2>6
<1>3. QED
  BY <1>1, <1>2 DEF OfferCalls

\* Steps that leave only the next step of a request different.
LEMMA LoadCompletedType ==
  ASSUME TypeOK, NEW r \in Requests, NEW step \in Steps, LoadCompleted(r, step),
         lock' \in Requests \cup {Nobody}
  PROVE  TypeOK'
<1>1. [Blank EXCEPT !.snapshot = pickup] \in Memory
  BY BlankType DEF Memory, TypeOK
<1>2. mem' \in [Requests -> Memory] /\ pc' \in [Requests -> Steps]
  BY <1>1, HoldType, GotoType DEF LoadCompleted
<1>3. QED
  BY <1>2 DEF LoadCompleted, TypeOK, tables, ghosts

\* The look of issue at a case keeps the types.
LEMMA IssueType ==
  ASSUME TypeOK, NEW r \in Requests, Issue(r)
  PROVE  TypeOK'
  BY LoadCompletedType DEF Issue, TypeOK

\* A refused request leaves the tables alone.
LEMMA RefusedType ==
  ASSUME TypeOK, NEW r \in Requests, Return(r), lock' \in Requests \cup {Nobody},
         fresh' \subseteq Requests, UNCHANGED <<tables, ghosts>>
  PROVE  TypeOK'
  BY ReturnType DEF TypeOK, tables, ghosts

\* Every refusal, failed save and abort keeps the types.
LEMMA RefusalsType ==
  ASSUME TypeOK, NEW r \in Requests,
         \/ IssueRefused(r) \/ PickupSaveFails(r) \/ IssueAlreadyCollected(r)
         \/ VerifyRefused(r) \/ CollectRefused(r) \/ SaveCaseFails(r) \/ Abort(r)
  PROVE  TypeOK'
<1>1. Return(r) /\ UNCHANGED <<tables, ghosts>>
  BY DEF IssueRefused, PickupSaveFails, IssueAlreadyCollected, VerifyRefused,
         CollectRefused, SaveCaseFails, Abort
<1>2. lock' \in Requests \cup {Nobody} /\ fresh' \subseteq Requests
  BY DEF TypeOK, UnlockCase, IssueRefused, PickupSaveFails, IssueAlreadyCollected,
         VerifyRefused, CollectRefused, SaveCaseFails, Abort
<1>3. QED
  BY <1>1, <1>2, RefusedType

\* Every call of pickup.service keeps the types.
LEMMA PickupCallsType ==
  ASSUME TypeOK, NEW r \in Requests, PickupCalls(r)
  PROVE  TypeOK'
<1>1. CASE Issue(r)
  BY <1>1, IssueType
<1>2. CASE Verify(r)
  BY <1>2, LoadCompletedType DEF Verify, TypeOK
<1>3. CASE CollectWithoutPin(r)
  BY <1>3, LoadCompletedType DEF CollectWithoutPin, LockCase, TypeOK
<1>4. QED
  BY <1>1, <1>2, <1>3 DEF PickupCalls

\* What save() leaves in the pickup row.
LEMMA SavePickupType ==
  ASSUME TypeOK, NEW r \in Requests, NEW held \in CasePickup, SavePickup(r, held)
  PROVE  pickup' \in CasePickup
<1> DEFINE attempts == IF held.attempts = mem[r].snapshot.attempts THEN pickup.attempts
                       ELSE held.attempts
           locked == IF held.locked = "no" /\ mem[r].snapshot.locked = "no"
                     THEN pickup.locked ELSE held.locked
           counted == [held EXCEPT !.attempts = attempts]
<1>1. attempts \in Nat /\ locked \in {"no", "ahead", "past"}
  BY DEF TypeOK, CasePickup
<1>2. counted \in CasePickup /\ counted.locked = held.locked
  <2> HIDE DEF attempts
  <2> QED BY <1>1 DEF CasePickup
<1>3. [counted EXCEPT !.locked = locked] \in CasePickup
  <2> HIDE DEF counted, locked
  <2> QED BY <1>1, <1>2 DEF CasePickup
<1>4. pickup' = [counted EXCEPT !.locked = locked]
  BY <1>2 DEF SavePickup
<1>5. QED
  BY <1>3, <1>4

\* Issuing a PIN keeps the types.
LEMMA IssueCommitType ==
  ASSUME TypeOK, NEW r \in Requests, IssueCommit(r)
  PROVE  TypeOK'
<1> DEFINE issued == [pickup EXCEPT !.pin = "active"]
           counted == [issued EXCEPT !.attempts = 0]
           held == [counted EXCEPT !.locked = "no"]
<1>1. issued \in CasePickup
  BY DEF TypeOK, CasePickup
<1>2. counted \in CasePickup
  <2> HIDE DEF issued
  <2> QED BY <1>1 DEF CasePickup
<1>3. held \in CasePickup
  <2> HIDE DEF counted
  <2> QED BY <1>2 DEF CasePickup
<1>4. pickup' \in CasePickup
  BY <1>3, SavePickupType DEF IssueCommit
<1>5. QED
  BY <1>4, ReturnType DEF IssueCommit, TypeOK

\* Comparing a PIN, a wrong or the right one, keeps the types.
LEMMA VerifyType ==
  ASSUME TypeOK, NEW r \in Requests, VerifyWrong(r) \/ VerifyRight(r)
  PROVE  TypeOK'
<1>1. CASE VerifyWrong(r)
  <2> DEFINE state == IF LimitReached(FailedAttempts) THEN "ahead" ELSE "no"
             held == [pickup EXCEPT !.attempts = FailedAttempts, !.locked = state]
  <2>1. FailedAttempts \in Nat
    BY DEF FailedAttempts, TypeOK, CasePickup
  <2>2. held \in CasePickup
    <3> HIDE DEF FailedAttempts
    <3> QED BY <2>1 DEF TypeOK, CasePickup
  <2>3. pickup' \in CasePickup
    BY <1>1, <2>2, SavePickupType DEF VerifyWrong
  <2>4. QED
    BY <1>1, <2>3, ReturnType DEF VerifyWrong, TypeOK
<1>2. CASE VerifyRight(r)
  <2> DEFINE used == [pickup EXCEPT !.pin = "none"]
             unlocked == [used EXCEPT !.locked = "no"]
             collected == [unlocked EXCEPT !.collected = TRUE]
  <2>1. used \in CasePickup
    BY DEF TypeOK, CasePickup
  <2>2. unlocked \in CasePickup
    <3> HIDE DEF used
    <3> QED BY <2>1 DEF CasePickup
  <2>3. collected \in CasePickup
    <3> HIDE DEF unlocked
    <3> QED BY <2>2 DEF CasePickup
  <2>4. pickup' \in CasePickup
    BY <1>2, <2>3, SavePickupType DEF VerifyRight
  <2>5. QED
    BY <1>2, <2>4, ReturnType DEF VerifyRight, TypeOK
<1>3. QED
  BY <1>1, <1>2

\* Giving out a device without a PIN keeps the types.
LEMMA CollectCommitType ==
  ASSUME TypeOK, NEW r \in Requests, CollectCommit(r)
  PROVE  TypeOK'
<1> DEFINE collected == [pickup EXCEPT !.collected = TRUE]
           pin == IF pickup.pin = "absent" THEN "none" ELSE pickup.pin
<1>1. collected \in CasePickup /\ collected.pin = pickup.pin
  BY DEF TypeOK, CasePickup
<1>2. pin \in {"absent", "none", "active", "expired"}
  BY DEF TypeOK, CasePickup
<1>3. [collected EXCEPT !.pin = pin] \in CasePickup
  <2> HIDE DEF collected, pin
  <2> QED BY <1>1, <1>2 DEF CasePickup
<1>4. pickup' = [collected EXCEPT !.pin = pin]
  BY <1>1 DEF CollectCommit
<1>5. lock' \in Requests \cup {Nobody} /\ handovers' \in Nat
  BY DEF CollectCommit, UnlockCase, TypeOK
<1>6. QED
  BY <1>3, <1>4, <1>5, ReturnType DEF CollectCommit, TypeOK

\* Clearing the pickup row keeps the types.
LEMMA ResetForReopenType ==
  ASSUME TypeOK, NEW r \in Requests, ResetForReopen(r)
  PROVE  TypeOK'
<1>1. pc' \in [Requests -> Steps]
  BY GotoType DEF ResetForReopen
<1>2. pickup' \in CasePickup
  BY RowTypes DEF ResetForReopen, CasePickup, NoPickup
<1>3. QED
  BY <1>1, <1>2 DEF ResetForReopen, TypeOK

\* An offer with some columns overwritten is a row of case_payments.
LEMMA OverwrittenType ==
  ASSUME TypeOK, NEW r \in Requests, NEW offer \in CasePayment
  PROVE  Overwritten(offer, r) \in CasePayment
<1> DEFINE status == IF "status" \in mem[r].dirty THEN mem[r].offer.status ELSE offer.status
           amount == IF "amount" \in mem[r].dirty THEN mem[r].offer.amount ELSE offer.amount
           moved == [offer EXCEPT !.status = status]
<1>1. mem[r].offer \in CasePayment
  BY DEF TypeOK, Memory
<1>2. status \in PaymentStatus \cup {"absent", "removed"} /\ amount \in Nat
  BY <1>1 DEF CasePayment
<1>3. moved \in CasePayment /\ moved.amount = offer.amount
  <2> HIDE DEF status
  <2> QED BY <1>2 DEF CasePayment
<1>4. [moved EXCEPT !.amount = amount] \in CasePayment
  <2> HIDE DEF moved, amount
  <2> QED BY <1>2, <1>3 DEF CasePayment
<1>5. Overwritten(offer, r) = [moved EXCEPT !.amount = amount]
  BY <1>3 DEF Overwritten
<1>6. QED
  BY <1>4, <1>5

\* The steps that write offers keep the types.
LEMMA OfferStepsType ==
  ASSUME TypeOK, NEW r \in Requests,
         InsertOffer(r) \/ SaveOffer(r) \/ WriteOffer(r) \/ InsertAgain(r) \/ DeleteOffer(r)
  PROVE  TypeOK'
<1>1. mem[r] \in Memory /\ mem[r].offer \in CasePayment
  BY DEF TypeOK, Memory
<1>2. CASE InsertOffer(r)
  BY <1>1, <1>2, InsertType, ReturnType DEF InsertOffer, TypeOK, ghosts
<1>3. CASE SaveOffer(r)
  <2> DEFINE changed == Changed(mem[r].offer, offers[mem[r].key], OfferColumns)
             next == [mem[r] EXCEPT !.then = pc[r]]
             held == [next EXCEPT !.dirty = changed]
  <2>1. changed \subseteq Columns
    BY DEF Changed, OfferColumns, Columns
  <2>2. next \in Memory
    BY <1>1 DEF TypeOK, Memory
  <2>3. held \in Memory
    <3> HIDE DEF changed, next
    <3> QED BY <2>1, <2>2 DEF Memory
  <2>4. mem' \in [Requests -> Memory] /\ pc' \in [Requests -> Steps]
    BY <1>3, <2>3, HoldType, GotoType DEF SaveOffer
  <2>5. QED
    BY <1>3, <2>4 DEF SaveOffer, TypeOK, tables, ghosts
<1>4. CASE WriteOffer(r)
  <2>1. mem[r].key \in Offers => Overwritten(offers[mem[r].key], r) \in CasePayment
    BY <1>1, OverwrittenType DEF TypeOK
  <2>2. offers' \in [Offers -> CasePayment]
    BY <1>4, <2>1 DEF WriteOffer, TypeOK
  <2>3. paidEver' \in BOOLEAN
    BY <1>4 DEF WriteOffer
  <2>4. QED
    BY <1>4, <2>2, <2>3, ReturnType DEF WriteOffer, TypeOK
<1>5. CASE InsertAgain(r)
  <2>1. offers' \in [Offers -> CasePayment]
    BY <1>1, <1>5 DEF InsertAgain, TypeOK
  <2>2. paidEver' \in BOOLEAN
    BY <1>5 DEF InsertAgain
  <2>3. QED
    BY <1>5, <2>1, <2>2, ReturnType DEF InsertAgain, TypeOK
<1>6. CASE DeleteOffer(r)
  <2>1. Removed \in CasePayment
    BY RowTypes DEF Removed, CasePayment
  <2>2. QED
    BY <1>6, <2>1, ReturnType DEF DeleteOffer, TypeOK, ghosts
<1>7. QED
  BY <1>2, <1>3, <1>4, <1>5, <1>6

\* Every step of an accepted request keeps the types.
LEMMA ContinueType ==
  ASSUME TypeOK, NEW r \in Requests, Continue(r)
  PROVE  TypeOK'
<1>1. CASE ReopenNote(r)
  BY <1>1, CreateHistoryEntryType DEF ReopenNote
<1>2. CASE PartsNote(r)
  BY <1>2, CreateHistoryEntryType DEF PartsNote, TypeOK
<1>3. QED
  BY <1>1, <1>2, ChangeStatusCommitType, IssueType, ResetForReopenType,
     SaveCaseType, WriteCaseType, OfferStepsType, IssueCommitType, VerifyType,
     CollectCommitType, RefusalsType
  DEF Continue

\* The passing of time keeps the types.
LEMMA ClockType == TypeOK /\ Clock => TypeOK'
<1> SUFFICES ASSUME TypeOK, Clock PROVE TypeOK'
  OBVIOUS
<1>1. CASE PinExpires
  <2>1. [pickup EXCEPT !.pin = "expired"] \in CasePickup
    BY DEF TypeOK, CasePickup
  <2>2. QED BY <1>1, <2>1 DEF PinExpires, TypeOK, ghosts
<1>2. CASE LockoutEnds
  <2>1. [pickup EXCEPT !.locked = "past"] \in CasePickup
    BY DEF TypeOK, CasePickup
  <2>2. QED BY <1>2, <2>1 DEF LockoutEnds, TypeOK
<1>3. QED
  BY <1>1, <1>2 DEF Clock

\* Every step keeps the types.
LEMMA TypeStep == TypeOK /\ [Next]_vars => TypeOK'
<1> SUFFICES ASSUME TypeOK, [Next]_vars PROVE TypeOK'
  OBVIOUS
<1>1. CASE UNCHANGED vars
  BY <1>1 DEF vars, TypeOK
<1>2. CASE Next
  BY <1>2, StatusCallsType, OfferCallsType, PickupCallsType, ContinueType,
     RefusalsType, ClockType DEF Next
<1>3. QED
  BY <1>1, <1>2

(* The tables and the requests keep their types, whatever the requests do. *)
THEOREM TypeCorrect == Spec => []TypeOK
<1>1. Init => TypeOK
  BY InitType
<1>2. TypeOK /\ [Next]_vars => TypeOK'
  BY TypeStep
<1>3. QED
  BY <1>1, <1>2, PTL DEF Spec
-----------------------------------------------------------------------------
(* The stage of a case. *)

\* A new case has coherent stage columns.
LEMMA NewCaseCoherent == StageCoherent(NewCase)
  BY DEF StageCoherent, NewCase, NoResult

(* The steps of a request that have nothing to do with the stage. *)
Aside(r) ==
  /\ UNCHANGED <<case, recorded>>
  /\ fresh' \subseteq fresh
  /\ \A q \in Requests : q # r => pc'[q] = pc[q] /\ mem'[q] = mem[q]
  /\ pc'[r] \notin {"save", "write", "status", "reopenReset", "reopenNote"}

\* One request goes on, the others are where they were.
LEMMA GotoOne ==
  ASSUME TypeOK, NEW r \in Requests, NEW step, Goto(r, step)
  PROVE  pc'[r] = step /\ \A q \in Requests : q # r => pc'[q] = pc[q]
  BY DEF TypeOK, Goto

\* One request remembers something, the others keep what they have.
LEMMA HoldOne ==
  ASSUME TypeOK, NEW r \in Requests, NEW held, Hold(r, held)
  PROVE  mem'[r] = held /\ \A q \in Requests : q # r => mem'[q] = mem[q]
  BY DEF TypeOK, Hold

\* An answered request is at no step of the case row.
LEMMA ReturnAside ==
  ASSUME TypeOK, NEW r \in Requests, Return(r), UNCHANGED <<case, recorded>>,
         fresh' \subseteq fresh
  PROVE  Aside(r)
  BY GotoOne, HoldOne DEF Return, Aside

\* A step of a request away from the case row keeps the stages.
LEMMA AsideKeepsStages ==
  ASSUME StagesKept, NEW r \in Requests, Aside(r)
  PROVE  StagesKept'
<1> SUFFICES ASSUME NoReopens
             PROVE  /\ StageCoherent(case)' /\ recorded' = case'.status
                    /\ \A q \in Requests : SavesKeepStage(q)'
  BY DEF StagesKept
<1>1. StageCoherent(case)' /\ recorded' = case'.status
  BY DEF Aside, StagesKept, StageCoherent
<1>2. SavesKeepStage(r)'
  BY DEF Aside, SavesKeepStage
<1>3. ASSUME NEW q \in Requests, q # r PROVE SavesKeepStage(q)'
  <2>1. SavesKeepStage(q) /\ pc'[q] = pc[q] /\ mem'[q] = mem[q]
    BY <1>3 DEF Aside, StagesKept
  <2>2. (q \in fresh' => q \in fresh) /\ case' = case
    BY DEF Aside
  <2>3. QED
    BY <2>1, <2>2 DEF SavesKeepStage, SameStage, StageCoherent
<1>4. QED
  BY <1>1, <1>2, <1>3

\* Loading an offer is such a step.
LEMMA LoadOfferAside ==
  ASSUME TypeOK, NEW r \in Requests, NEW o, NEW entity,
         NEW step \in {"saveOffer", "confirmOffer", "deleteOffer"},
         LoadOffer(r, o, entity, step)
  PROVE  Aside(r)
  BY GotoOne, HoldOne DEF LoadOffer, Aside, tables

\* So is every call on an offer.
LEMMA OfferCallsAside ==
  ASSUME TypeOK, NEW r \in Requests, OfferCalls(r)
  PROVE  Aside(r)
<1>1. CASE \E type \in Results, amount \in Amounts : CreateOffer(r, type, amount)
  BY <1>1, GotoOne, HoldOne DEF CreateOffer, Aside, tables
<1>2. CASE \E o \in Live : MarkAsPaid(r, o) \/ MarkAsFailed(r, o)
                           \/ HandleCallback(r, o, "completed")
                           \/ HandleCallback(r, o, "failed")
  BY <1>2, LoadOfferAside DEF MarkAsPaid, MarkAsFailed, HandleCallback
<1>3. CASE \E o \in Live : (\E amount \in Amounts : UpdateOffer(r, o, amount))
                           \/ SendPaymentReminder(r, o) \/ InitiatePayment(r, o)
                           \/ Remove(r, o)
  BY <1>3, LoadOfferAside DEF UpdateOffer, SendPaymentReminder, InitiatePayment, Remove
<1>4. QED
  BY <1>1, <1>2, <1>3 DEF OfferCalls

\* So is every call of pickup.service.
LEMMA PickupCallsAside ==
  ASSUME TypeOK, NEW r \in Requests, PickupCalls(r)
  PROVE  Aside(r)
<1>1. PICK step \in {"issuing", "verifying", "collecting"} : LoadCompleted(r, step)
  BY DEF PickupCalls, Issue, Verify, CollectWithoutPin
<1>2. QED
  BY <1>1, GotoOne, HoldOne DEF LoadCompleted, Aside, tables

\* What an accepted request still does, apart from the steps of the case row.
LEMMA ContinueAside ==
  ASSUME TypeOK, StagesKept, NoReopens, NEW r \in Requests, Continue(r),
         ~ChangeStatusCommit(r), ~SaveCase(r), ~WriteCase(r)
  PROVE  Aside(r)
<1>1. pc[r] \notin {"reopenReset", "reopenNote"}
  BY DEF StagesKept, SavesKeepStage
<1>2. CASE Issue(r)
  BY <1>2, GotoOne, HoldOne DEF Issue, LoadCompleted, Aside, tables
<1>3. CASE ResetForReopen(r)
  BY <1>1, <1>3, GotoOne DEF ResetForReopen, Aside
<1>4. CASE SaveOffer(r)
  BY <1>4, GotoOne, HoldOne DEF SaveOffer, Aside, tables
<1>5. CASE PartsNote(r)
  BY <1>5, ReturnAside DEF PartsNote, CreateHistoryEntry, NewHistoryRow
<1>6. CASE SaveCaseFails(r) \/ IssueRefused(r) \/ PickupSaveFails(r)
           \/ IssueAlreadyCollected(r) \/ VerifyRefused(r) \/ CollectRefused(r)
  BY <1>6, ReturnAside DEF SaveCaseFails, IssueRefused, PickupSaveFails,
     IssueAlreadyCollected, VerifyRefused, CollectRefused, tables
<1>7. CASE InsertOffer(r) \/ WriteOffer(r) \/ InsertAgain(r) \/ DeleteOffer(r)
  BY <1>7, ReturnAside DEF InsertOffer, WriteOffer, InsertAgain, DeleteOffer
<1>8. CASE IssueCommit(r) \/ VerifyWrong(r) \/ VerifyRight(r) \/ CollectCommit(r)
  BY <1>8, ReturnAside DEF IssueCommit, VerifyWrong, VerifyRight, CollectCommit
<1>9. CASE ReopenNote(r)
  BY <1>1, <1>9 DEF ReopenNote
<1>10. QED
  BY <1>2, <1>3, <1>4, <1>5, <1>6, <1>7, <1>8, <1>9 DEF Continue

\* changeStatus prepares a coherent row from a coherent one.
LEMMA ChangedRowFields ==
  ASSUME TypeOK, NEW to, NEW result, NEW wantPin
  PROVE  /\ ChangedRow(to, result, wantPin).status = to
         /\ ChangedRow(to, result, wantPin).result = result
         /\ ChangedRow(to, result, wantPin).partsWaiting = case.partsWaiting
         /\ ChangedRow(to, result, wantPin).closed
              = ((case.closed \/ Completes(to)) /\ to = COMPLETED)
         /\ ChangedRow(to, result, wantPin).pinRequired
              = IF Completes(to) THEN wantPin ELSE case.pinRequired /\ to = COMPLETED
  BY DEF TypeOK, ServiceCase, ChangedRow

\* From a coherent row changeStatus prepares a coherent one.
LEMMA ChangedRowCoherent ==
  ASSUME TypeOK, StageCoherent(case),
         NEW to \in CaseStatusLevel, NEW newResult, NEW wantPin,
         to = COMPLETED => EffectiveResult(to, newResult) # NoResult
  PROVE  StageCoherent(ChangedRow(to, EffectiveResult(to, newResult), wantPin))
<1> DEFINE result == EffectiveResult(to, newResult)
           row == ChangedRow(to, result, wantPin)
<1>1. result # NoResult => to >= PENDING
  BY DEF EffectiveResult
<1>2. /\ row.status = to
      /\ row.result = result
      /\ row.closed = ((case.closed \/ Completes(to)) /\ to = COMPLETED)
      /\ row.pinRequired = IF Completes(to) THEN wantPin
                           ELSE case.pinRequired /\ to = COMPLETED
  BY ChangedRowFields
<1>3. to = COMPLETED => result # NoResult
  OBVIOUS
<1> HIDE DEF row, result
<1>4. row.closed <=> row.status = COMPLETED
  BY <1>2 DEF StageCoherent, Completes
<1>5. row.pinRequired => row.status = COMPLETED
  BY <1>2 DEF Completes
<1>6. row.result # NoResult => row.status >= PENDING
  BY <1>1, <1>2
<1>7. row.status = COMPLETED => row.result # NoResult
  BY <1>2, <1>3
<1>8. StageCoherent(row)
  BY <1>4, <1>5, <1>6, <1>7 DEF StageCoherent
<1>9. QED
  BY <1>8 DEF row, result

\* What changeStatus holds between its two halves.
LEMMA ChangeStatusRow ==
  ASSUME TypeOK, NEW r \in Requests, NEW technician, NEW to \in CaseStatusLevel,
         NEW newResult \in Results \cup {NoResult}, NEW offer \in OfferArguments,
         NEW noted, NEW wantPin \in BOOLEAN,
         ChangeStatus(r, technician, to, newResult, offer, noted, wantPin)
  PROVE  /\ mem'[r].row = ChangedRow(to, EffectiveResult(to, newResult), wantPin)
         /\ mem'[r].offer.status \in {"absent", "pending"}
<1> DEFINE result == EffectiveResult(to, newResult)
           row == ChangedRow(to, result, wantPin)
           made == IF ~CreatesOffer(to, result, offer) THEN NoOffer
                   ELSE IF offer # NoOffer THEN offer
                   ELSE [Absent EXCEPT !.status = "pending"]
           held == [Blank EXCEPT !.row = row, !.offer = made]
<1>1. mem' = [mem EXCEPT ![r] = held]
  BY DEF ChangeStatus, Hold
<1>2. held.row = row /\ held.offer = made
  <2> HIDE DEF row, made
  <2> QED BY DEF Blank
<1>3. made.status \in {"absent", "pending"}
  BY DEF OfferArguments, NoOffer, Absent
<1>4. mem'[r] = held
  <2> HIDE DEF held
  <2> QED BY <1>1 DEF TypeOK
<1>5. QED
  <2> HIDE DEF held, made
  <2> QED BY <1>2, <1>3, <1>4

\* The first half of changeStatus keeps the stages.
LEMMA ChangeStatusKeepsStages ==
  ASSUME TypeOK, StagesKept, NEW r \in Requests, NEW technician,
         NEW to \in CaseStatusLevel, NEW newResult \in Results \cup {NoResult},
         NEW offer \in OfferArguments, NEW noted, NEW wantPin \in BOOLEAN,
         ChangeStatus(r, technician, to, newResult, offer, noted, wantPin)
  PROVE  StagesKept'
<1> SUFFICES ASSUME NoReopens
             PROVE  /\ StageCoherent(case)' /\ recorded' = case'.status
                    /\ \A q \in Requests : SavesKeepStage(q)'
  BY DEF StagesKept
<1>1. case' = case /\ recorded' = recorded /\ fresh' = fresh
  BY DEF ChangeStatus, tables
<1>2. StageCoherent(mem'[r].row)
  <2>1. to = COMPLETED => EffectiveResult(to, newResult) # NoResult
    BY DEF ChangeStatus
  <2>2. StageCoherent(ChangedRow(to, EffectiveResult(to, newResult), wantPin))
    BY <2>1, ChangedRowCoherent DEF StagesKept
  <2>3. mem'[r].row = ChangedRow(to, EffectiveResult(to, newResult), wantPin)
    BY ChangeStatusRow
  <2>4. QED
    BY <2>2, <2>3
<1>3. pc'[r] = "status" /\ \A q \in Requests : q # r => pc'[q] = pc[q]
  BY GotoOne DEF ChangeStatus
<1>4. \A q \in Requests : q # r => mem'[q] = mem[q]
  BY DEF ChangeStatus, Hold, TypeOK
<1>5. SavesKeepStage(r)'
  BY <1>2, <1>3 DEF SavesKeepStage, StageCoherent
<1>6. ASSUME NEW q \in Requests, q # r PROVE SavesKeepStage(q)'
  BY <1>1, <1>3, <1>4, <1>6 DEF StagesKept, SavesKeepStage, SameStage, StageCoherent
<1>7. QED
  BY <1>1, <1>5, <1>6 DEF StagesKept, StageCoherent

\* Loading a case without changing its stage keeps them.
LEMMA LoadCaseKeepsStages ==
  ASSUME TypeOK, StagesKept, NEW r \in Requests, NEW row, SameStage(row),
         NEW then \in {"idle", "partsNote"}, LoadCase(r, row, then)
  PROVE  StagesKept'
<1> SUFFICES ASSUME NoReopens
             PROVE  /\ StageCoherent(case)' /\ recorded' = case'.status
                    /\ \A q \in Requests : SavesKeepStage(q)'
  BY DEF StagesKept
<1> DEFINE held == [Blank EXCEPT !.row = row, !.seen = Live, !.then = then]
<1>1. case' = case /\ recorded' = recorded /\ fresh' = fresh \cup {r}
  BY DEF LoadCase, tables
<1>2. held.row = row /\ held.then = then
  BY DEF Blank
<1>3. Hold(r, held) /\ Goto(r, "save")
  BY DEF LoadCase
<1> HIDE DEF held
<1>4. /\ pc'[r] = "save" /\ mem'[r] = held
      /\ \A q \in Requests : q # r => pc'[q] = pc[q] /\ mem'[q] = mem[q]
  BY <1>3, GotoOne, HoldOne
<1>5. SavesKeepStage(r)'
  BY <1>1, <1>2, <1>4 DEF SavesKeepStage, SameStage
<1>6. ASSUME NEW q \in Requests, q # r PROVE SavesKeepStage(q)'
  BY <1>1, <1>4, <1>6 DEF StagesKept, SavesKeepStage, SameStage, StageCoherent
<1>7. QED
  BY <1>1, <1>5, <1>6 DEF StagesKept, StageCoherent

\* Every call of cases.service but reopen keeps them.
LEMMA StatusCallsKeepStages ==
  ASSUME TypeOK, StagesKept, NoReopens, NEW r \in Requests, StatusCalls(r)
  PROVE  StagesKept'
<1>1. CASE \E technician \in (IF Managers THEN BOOLEAN ELSE {TRUE}) :
           \E to \in CaseStatusLevel, result \in Results \cup {NoResult} :
           \E offer \in OfferArguments, noted, wantPin \in BOOLEAN :
             ChangeStatus(r, technician, to, result, offer, noted, wantPin)
  BY <1>1, ChangeStatusKeepsStages
<1>2. CASE Update(r)
  BY <1>2, LoadCaseKeepsStages DEF Update, SameStage
<1>3. CASE StartPartsWaiting(r) \/ ReceivePartsWaiting(r)
  <2> PICK waiting \in BOOLEAN :
             LoadCase(r, [case EXCEPT !.partsWaiting = waiting], "partsNote")
    BY <1>3 DEF StartPartsWaiting, ReceivePartsWaiting
  <2>1. SameStage([case EXCEPT !.partsWaiting = waiting])
    BY DEF TypeOK, ServiceCase, SameStage
  <2>2. QED
    BY <2>1, LoadCaseKeepsStages
<1>4. CASE AddInternalNote(r)
  BY <1>4, ReturnAside, AsideKeepsStages
  DEF AddInternalNote, CreateHistoryEntry, NewHistoryRow
<1>5. QED
  BY <1>1, <1>2, <1>3, <1>4 DEF StatusCalls, NoReopens

(* The commit of a status change outdates every loaded entity. *)
LEMMA CommitKeepsStages ==
  ASSUME TypeOK, StagesKept, NEW r \in Requests, ChangeStatusCommit(r)
  PROVE  StagesKept'
<1> SUFFICES ASSUME NoReopens
             PROVE  /\ StageCoherent(case)' /\ recorded' = case'.status
                    /\ \A q \in Requests : SavesKeepStage(q)'
  BY DEF StagesKept
<1>1. case' = mem[r].row /\ recorded' = mem[r].row.status /\ fresh' = {}
  BY DEF ChangeStatusCommit, NewHistoryRow
<1>2. StageCoherent(mem[r].row)
  BY DEF ChangeStatusCommit, StagesKept, SavesKeepStage
<1>3. /\ pc'[r] \in {"reset", "issue", "idle"}
      /\ \A q \in Requests : q # r => pc'[q] = pc[q] /\ mem'[q] = mem[q]
  <2>1. PICK step \in {"reset", "issue", "idle"} : Goto(r, step)
    BY DEF ChangeStatusCommit
  <2>2. Hold(r, Blank)
    BY DEF ChangeStatusCommit
  <2>3. QED
    BY <2>1, <2>2, GotoOne, HoldOne
<1>4. SavesKeepStage(r)'
  BY <1>3 DEF SavesKeepStage
<1>5. ASSUME NEW q \in Requests, q # r PROVE SavesKeepStage(q)'
  BY <1>1, <1>3, <1>5 DEF StagesKept, SavesKeepStage, StageCoherent
<1>6. QED
  BY <1>1, <1>2, <1>4, <1>5 DEF StageCoherent

\* The comparison save() makes finds no stage column changed.
LEMMA SaveCaseKeepsStages ==
  ASSUME TypeOK, StagesKept, NEW r \in Requests, SaveCase(r)
  PROVE  StagesKept'
<1> SUFFICES ASSUME NoReopens
             PROVE  /\ StageCoherent(case)' /\ recorded' = case'.status
                    /\ \A q \in Requests : SavesKeepStage(q)'
  BY DEF StagesKept
<1> DEFINE changed == Changed(mem[r].row, case, CaseColumns)
           held == [mem[r] EXCEPT !.dirty = changed]
<1>1. case' = case /\ recorded' = recorded /\ fresh' = fresh \ {r}
  BY DEF SaveCase, tables
<1>2. SameStage(mem[r].row) /\ mem[r].then \in {"idle", "partsNote"}
  BY DEF SaveCase, RelationsComplete, StagesKept, SavesKeepStage
<1>3. changed \subseteq {"partsWaiting"}
  BY <1>2 DEF Changed, CaseColumns, SameStage
<1>4. held.dirty = changed /\ held.then = mem[r].then
  BY DEF TypeOK, Memory
<1>5. Goto(r, "write") /\ Hold(r, held)
  BY DEF SaveCase
<1> HIDE DEF held, changed
<1>6. /\ pc'[r] = "write" /\ mem'[r] = held
      /\ \A q \in Requests : q # r => pc'[q] = pc[q] /\ mem'[q] = mem[q]
  BY <1>5, GotoOne, HoldOne
<1>7. SavesKeepStage(r)'
  BY <1>2, <1>3, <1>4, <1>6 DEF SavesKeepStage
<1>8. ASSUME NEW q \in Requests, q # r PROVE SavesKeepStage(q)'
  BY <1>1, <1>6, <1>8 DEF StagesKept, SavesKeepStage, SameStage, StageCoherent
<1>9. QED
  BY <1>1, <1>7, <1>8 DEF StagesKept, StageCoherent

\* So its update writes none.
LEMMA WriteCaseKeepsStages ==
  ASSUME TypeOK, StagesKept, NEW r \in Requests, WriteCase(r)
  PROVE  StagesKept'
<1> SUFFICES ASSUME NoReopens
             PROVE  /\ StageCoherent(case)' /\ recorded' = case'.status
                    /\ \A q \in Requests : SavesKeepStage(q)'
  BY DEF StagesKept
<1>1. mem[r].dirty \subseteq {"partsWaiting"} /\ mem[r].then \in {"idle", "partsNote"}
  BY DEF WriteCase, StagesKept, SavesKeepStage
<1>2. SameStage(case')
  BY <1>1 DEF WriteCase, Column, SameStage
<1>3. recorded' = recorded /\ fresh' = fresh
  BY DEF WriteCase
<1>4. /\ pc'[r] \in {"idle", "partsNote"}
      /\ \A q \in Requests : q # r => pc'[q] = pc[q] /\ mem'[q] = mem[q]
  BY <1>1, GotoOne, HoldOne DEF WriteCase
<1>5. SavesKeepStage(r)'
  BY <1>4 DEF SavesKeepStage
<1>6. ASSUME NEW q \in Requests, q # r PROVE SavesKeepStage(q)'
  BY <1>2, <1>3, <1>4, <1>6 DEF StagesKept, SavesKeepStage, SameStage, StageCoherent
<1>7. QED
  BY <1>2, <1>3, <1>5, <1>6 DEF StagesKept, StageCoherent, SameStage

\* Every step keeps the stages.
LEMMA StagesKeptStep == TypeOK /\ StagesKept /\ [Next]_vars => StagesKept'
<1> SUFFICES ASSUME TypeOK, StagesKept, NoReopens, [Next]_vars
             PROVE  StagesKept'
  BY DEF StagesKept
<1>1. CASE UNCHANGED vars
  BY <1>1 DEF vars, StagesKept, SavesKeepStage, SameStage, StageCoherent
<1>2. CASE Clock
  BY <1>2 DEF Clock, PinExpires, LockoutEnds, StagesKept, SavesKeepStage, SameStage,
     StageCoherent
<1>3. ASSUME NEW r \in Requests,
             \/ StatusCalls(r) \/ OfferCalls(r) \/ PickupCalls(r)
             \/ Continue(r) \/ Abort(r)
      PROVE  StagesKept'
  <2>1. CASE StatusCalls(r)
    BY <2>1, StatusCallsKeepStages
  <2>2. CASE ChangeStatusCommit(r) \/ SaveCase(r) \/ WriteCase(r)
    BY <2>2, CommitKeepsStages, SaveCaseKeepsStages, WriteCaseKeepsStages
  <2>3. CASE OfferCalls(r) \/ PickupCalls(r)
    BY <2>3, OfferCallsAside, PickupCallsAside, AsideKeepsStages
  <2>4. CASE Continue(r) /\ ~ChangeStatusCommit(r) /\ ~SaveCase(r) /\ ~WriteCase(r)
    BY <2>4, ContinueAside, AsideKeepsStages
  <2>5. CASE Abort(r)
    BY <2>5, ReturnAside, AsideKeepsStages DEF Abort, tables
  <2>6. QED
    BY <1>3, <2>1, <2>2, <2>3, <2>4, <2>5
<1>4. QED
  BY <1>1, <1>2, <1>3 DEF Next

(* While reopen is not called, an entity that can still be saved agrees with the
   case row in the stage columns, so no save moves a case. *)
THEOREM StagesStayKept == Spec => []StagesKept
<1>1. Init => TypeOK /\ StagesKept
  <2> SUFFICES ASSUME Init PROVE StagesKept
    BY InitType
  <2>1. case = NewCase /\ recorded = OPENED /\ \A r \in Requests : pc[r] = "idle"
    BY DEF Init
  <2>2. QED
    BY <2>1, NewCaseCoherent DEF StagesKept, SavesKeepStage, NewCase
<1>2. TypeOK /\ StagesKept /\ [Next]_vars => (TypeOK /\ StagesKept)'
  BY TypeStep, StagesKeptStep
<1>3. QED
  BY <1>1, <1>2, PTL DEF Spec

(* The stage columns of the case row agree with one another. *)
THEOREM StagesStayCoherent == Spec => []StagesCoherent
<1>1. StagesKept => StagesCoherent
  BY DEF StagesKept, StagesCoherent
<1>2. QED
  BY <1>1, StagesStayKept, PTL

(* The newest status move of the history is the status of the case. *)
THEOREM TimelineStaysMatched == Spec => []TimelineMatches
<1>1. StagesKept => TimelineMatches
  BY DEF StagesKept, TimelineMatches
<1>2. QED
  BY <1>1, StagesStayKept, PTL
=============================================================================
