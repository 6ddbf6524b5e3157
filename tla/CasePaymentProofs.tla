-------------------------- MODULE CasePaymentProofs --------------------------
(***************************************************************************)
(* Offers become paid only by requests that confirm a payment, and a       *)
(* payable case is completed only after one did. What the lock on the case *)
(* row keeps: collections find the case as it was seen, technicians take   *)
(* no case back, and a type has one offer.                                 *)
(***************************************************************************)
EXTENDS CaseDeskProofs, FiniteSetTheorems, WellFoundedInduction

USE DEF Steps, CaseStatusLevel, OPENED, INVESTIGATING, PENDING, COMPLETED

(* What a step of r leaves of the other requests, and what r itself holds. *)
OthersWait(r) ==
  \A q \in Requests : q # r => pc'[q] = pc[q] /\ mem'[q] = mem[q]
HoldsConfirmed(r) ==
  mem'[r].offer.status = "paid" => Confirming(r)'

\* No offer becomes paid.
NonePaid ==
  \A o \in Offers :
    offers'[o].status = "paid"
      => offers[o].status = "paid" /\ offers'[o].type = offers[o].type

\* A new offer is not paid, so its insertion pays none.
LEMMA InsertPaysNone ==
  ASSUME TypeOK, NEW offer \in CasePayment, offer.status # "paid", Insert(offer)
  PROVE  NonePaid
  BY DEF Insert, NonePaid, TypeOK

\* A step that pays no offer keeps paid offers confirmed.
LEMMA NonePaidKeeps ==
  ASSUME TypeOK, NonePaid, PayablePaid => paidEver, paidEver => paidEver'
  PROVE  PayablePaid' => paidEver'
  BY DEF NonePaid, PayablePaid, OffersOf, Live

\* An idle request or one that works on the case holds no paid offer.
LEMMA NotConfirming ==
  ASSUME PaidIsConfirmed, NEW r \in Requests,
         pc[r] \notin {"confirmOffer", "writeOffer", "insertAgain"}
  PROVE  mem[r].offer.status # "paid"
  BY DEF PaidIsConfirmed, Confirming

\* An answered request holds no paid offer.
LEMMA ReturnHoldsConfirmed ==
  ASSUME TypeOK, NEW r \in Requests, Return(r)
  PROVE  OthersWait(r) /\ HoldsConfirmed(r)
  BY GotoOne, HoldOne DEF Return, OthersWait, HoldsConfirmed, Blank, Absent

\* A loaded offer is held as paid only to confirm it.
LEMMA LoadOfferHoldsConfirmed ==
  ASSUME TypeOK, NEW r \in Requests, NEW o \in Offers, NEW entity \in CasePayment,
         NEW step \in Steps, LoadOffer(r, o, entity, step),
         entity.status = "paid" => step = "confirmOffer"
  PROVE  OthersWait(r) /\ HoldsConfirmed(r) /\ UNCHANGED <<tables, ghosts>>
<1> DEFINE keyed == [Blank EXCEPT !.key = o]
           held == [keyed EXCEPT !.offer = entity]
<1>1. keyed \in Memory
  BY BlankType, MaxOffersAssumption DEF Memory, Offers
<1>2. held.offer = entity
  <2> HIDE DEF keyed
  <2> QED BY <1>1 DEF Memory
<1>3. Hold(r, held) /\ Goto(r, step)
  BY DEF LoadOffer
<1> HIDE DEF held
<1>4. QED
  BY <1>2, <1>3, GotoOne, HoldOne
  DEF LoadOffer, OthersWait, HoldsConfirmed, Confirming

\* Every call on an offer holds it so; the table is left alone.
LEMMA OfferCallsHoldConfirmed ==
  ASSUME TypeOK, NEW r \in Requests, OfferCalls(r)
  PROVE  OthersWait(r) /\ HoldsConfirmed(r) /\ UNCHANGED <<tables, ghosts>>
<1>1. CASE \E type \in Results, amount \in Amounts : CreateOffer(r, type, amount)
  <2> PICK type \in Results, amount \in Amounts : CreateOffer(r, type, amount)
    BY <1>1
  <2> DEFINE offer == [type |-> type, status |-> "pending", amount |-> amount]
             held == [Blank EXCEPT !.offer = offer]
  <2>1. held.offer.status = "pending"
    BY DEF Blank
  <2>2. Hold(r, held) /\ Goto(r, "insertOffer")
    BY DEF CreateOffer
  <2> HIDE DEF held
  <2>3. QED
    BY <2>1, <2>2, GotoOne, HoldOne DEF CreateOffer, OthersWait, HoldsConfirmed
<1>2. ASSUME NEW o \in Live,
             \/ \E amount \in Amounts : UpdateOffer(r, o, amount)
             \/ MarkAsPaid(r, o)
             \/ MarkAsFailed(r, o)
             \/ SendPaymentReminder(r, o)
             \/ InitiatePayment(r, o)
             \/ HandleCallback(r, o, "completed")
             \/ HandleCallback(r, o, "failed")
             \/ Remove(r, o)
      PROVE  OthersWait(r) /\ HoldsConfirmed(r) /\ UNCHANGED <<tables, ghosts>>
  <2>1. o \in Offers /\ "paid" \in PaymentStatus /\ "failed" \in PaymentStatus
        /\ offers[o] \in CasePayment
    BY DEF Live, PaymentStatus, TypeOK
  <2>2. CASE \E amount \in Amounts : UpdateOffer(r, o, amount)
    <3> PICK amount \in Amounts : UpdateOffer(r, o, amount)
      BY <2>2
    <3>1. [offers[o] EXCEPT !.amount = amount].status # "paid"
      BY <2>1 DEF UpdateOffer, CasePayment
    <3>2. QED
      BY <2>1, <3>1, OfferChangeType, LoadOfferHoldsConfirmed DEF UpdateOffer
  <2>3. ASSUME MarkAsPaid(r, o)
        PROVE  OthersWait(r) /\ HoldsConfirmed(r) /\ UNCHANGED <<tables, ghosts>>
    BY <2>1, <2>3, OfferChangeType, LoadOfferHoldsConfirmed DEF MarkAsPaid
  <2>4. ASSUME MarkAsFailed(r, o)
        PROVE  OthersWait(r) /\ HoldsConfirmed(r) /\ UNCHANGED <<tables, ghosts>>
    <3>1. [offers[o] EXCEPT !.status = "failed"].status # "paid"
      BY <2>1 DEF CasePayment
    <3>2. QED
      BY <2>1, <2>4, <3>1, OfferChangeType, LoadOfferHoldsConfirmed DEF MarkAsFailed
  <2>5. CASE SendPaymentReminder(r, o) \/ InitiatePayment(r, o)
    BY <2>1, <2>5, LoadOfferHoldsConfirmed DEF SendPaymentReminder, InitiatePayment
  <2>6. CASE HandleCallback(r, o, "completed") \/ HandleCallback(r, o, "failed")
    BY <2>3, <2>4, <2>6 DEF HandleCallback
  <2>7. CASE Remove(r, o)
    BY <2>1, <2>7, RowTypes, LoadOfferHoldsConfirmed DEF Remove, Absent
  <2>8. QED
    BY <1>2, <2>2, <2>3, <2>4, <2>5, <2>6, <2>7
<1>3. QED
  BY <1>1, <1>2 DEF OfferCalls

\* A request of pickup.service holds no offer.
LEMMA LoadCompletedHoldsConfirmed ==
  ASSUME TypeOK, NEW r \in Requests, NEW step, LoadCompleted(r, step)
  PROVE  OthersWait(r) /\ HoldsConfirmed(r) /\ UNCHANGED <<tables, ghosts>>
<1> DEFINE held == [Blank EXCEPT !.snapshot = pickup]
<1>1. held.offer.status = "absent"
  BY DEF Blank, Absent
<1>2. Hold(r, held) /\ Goto(r, step) /\ UNCHANGED <<tables, ghosts>>
  BY DEF LoadCompleted
<1> HIDE DEF held
<1>3. QED
  BY <1>1, <1>2, GotoOne, HoldOne DEF OthersWait, HoldsConfirmed

\* Nor does any call of pickup.service that starts.
LEMMA PickupCallsHoldConfirmed ==
  ASSUME TypeOK, NEW r \in Requests, PickupCalls(r)
  PROVE  OthersWait(r) /\ HoldsConfirmed(r) /\ UNCHANGED <<tables, ghosts>>
<1>1. \E step \in Steps : LoadCompleted(r, step)
  BY DEF PickupCalls, Issue, Verify, CollectWithoutPin
<1>2. QED
  BY <1>1, LoadCompletedHoldsConfirmed

\* Nor does a request that loaded a case.
LEMMA LoadCaseHoldsConfirmed ==
  ASSUME TypeOK, NEW r \in Requests, NEW row, NEW then, LoadCase(r, row, then)
  PROVE  OthersWait(r) /\ HoldsConfirmed(r) /\ UNCHANGED <<tables, ghosts>>
<1> DEFINE held == [Blank EXCEPT !.row = row, !.seen = Live, !.then = then]
<1>1. held.offer.status = "absent"
  BY DEF Blank, Absent
<1>2. Hold(r, held) /\ Goto(r, "save") /\ UNCHANGED <<tables, ghosts>>
  BY DEF LoadCase
<1> HIDE DEF held
<1>3. QED
  BY <1>1, <1>2, GotoOne, HoldOne DEF OthersWait, HoldsConfirmed

\* changeStatus completes a payable case only with a paid offer in the table.
LEMMA ChangeStatusSettles ==
  ASSUME TypeOK, PaidIsConfirmed, NEW r \in Requests, NEW technician,
         NEW to \in CaseStatusLevel, NEW newResult \in Results \cup {NoResult},
         NEW offer \in OfferArguments, NEW noted, NEW wantPin \in BOOLEAN,
         ChangeStatus(r, technician, to, newResult, offer, noted, wantPin)
  PROVE  /\ OthersWait(r) /\ HoldsConfirmed(r) /\ UNCHANGED <<tables, ghosts>>
         /\ Settled(mem'[r].row)
<1> DEFINE result == EffectiveResult(to, newResult)
<1>1. result = PAYABLE /\ to = COMPLETED => PayablePaid
  BY DEF ChangeStatus, PaymentsAllow, CompletesPaid
<1>2. mem'[r].row.status = to /\ mem'[r].row.result = result
  BY ChangeStatusRow, ChangedRowFields
<1>3. mem'[r].offer.status # "paid"
  BY ChangeStatusRow
<1>4. OthersWait(r)
  BY GotoOne DEF ChangeStatus, OthersWait, Hold, TypeOK
<1>5. UNCHANGED <<tables, ghosts>>
  BY DEF ChangeStatus
<1> HIDE DEF result
<1>6. QED
  BY <1>1, <1>2, <1>3, <1>4, <1>5 DEF Settled, PaidIsConfirmed, HoldsConfirmed

\* A status change holds at most a pending offer.
LEMMA StatusCallsHoldConfirmed ==
  ASSUME TypeOK, PaidIsConfirmed, NEW r \in Requests, StatusCalls(r)
  PROVE  OthersWait(r) /\ HoldsConfirmed(r) /\ UNCHANGED <<offers, paidEver>>
<1>1. CASE \E technician \in (IF Managers THEN BOOLEAN ELSE {TRUE}) :
           \E to \in CaseStatusLevel, result \in Results \cup {NoResult} :
           \E offer \in OfferArguments, noted, wantPin \in BOOLEAN :
             ChangeStatus(r, technician, to, result, offer, noted, wantPin)
  BY <1>1, ChangeStatusSettles DEF tables, ghosts
<1>2. CASE \E row, then : LoadCase(r, row, then)
  BY <1>2, LoadCaseHoldsConfirmed DEF tables, ghosts
<1>3. CASE AddInternalNote(r)
  BY <1>3, ReturnHoldsConfirmed DEF AddInternalNote, CreateHistoryEntry, ghosts
<1>4. QED
  BY <1>1, <1>2, <1>3
  DEF StatusCalls, Update, Reopen, StartPartsWaiting, ReceivePartsWaiting

(* The steps that write an offer. *)
LEMMA OverwrittenFields ==
  ASSUME NEW offer \in CasePayment, NEW r
  PROVE  /\ Overwritten(offer, r).type = offer.type
         /\ Overwritten(offer, r).status
              = IF "status" \in mem[r].dirty THEN mem[r].offer.status
                ELSE offer.status
<1> DEFINE status == IF "status" \in mem[r].dirty THEN mem[r].offer.status
                     ELSE offer.status
           amount == IF "amount" \in mem[r].dirty THEN mem[r].offer.amount
                     ELSE offer.amount
<1>1. Overwritten(offer, r) = [offer EXCEPT !.status = status, !.amount = amount]
  BY DEF Overwritten
<1> HIDE DEF status, amount
<1>2. Overwritten(offer, r).type = offer.type /\ Overwritten(offer, r).status = status
  BY <1>1 DEF CasePayment
<1>3. QED
  BY <1>2 DEF status

\* A write makes an offer paid only for the request that confirms it.
LEMMA WritesPayOnlyConfirmed ==
  ASSUME TypeOK, PaidIsConfirmed, NEW r \in Requests,
         WriteOffer(r) \/ InsertAgain(r), ~Confirming(r)
  PROVE  NonePaid
<1>1. mem[r].offer.status # "paid"
  BY DEF PaidIsConfirmed
<1>2. CASE WriteOffer(r)
  <2> DEFINE key == mem[r].key
  <2>1. ASSUME NEW o \in Offers, o # key \/ key \notin Live
        PROVE  offers'[o] = offers[o]
    BY <1>2, <2>1 DEF WriteOffer, TypeOK
  <2>2. CASE key \in Live
    <3>1. key \in Offers /\ offers[key] \in CasePayment
      BY <2>2 DEF Live, TypeOK
    <3>2. offers'[key] = Overwritten(offers[key], r)
      BY <1>2, <2>2, <3>1 DEF WriteOffer, TypeOK
    <3>3. /\ Overwritten(offers[key], r).type = offers[key].type
          /\ Overwritten(offers[key], r).status
               = IF "status" \in mem[r].dirty THEN mem[r].offer.status
                 ELSE offers[key].status
      BY <3>1, OverwrittenFields
    <3>4. offers'[key].status = "paid" => offers[key].status = "paid"
      BY <1>1, <3>2, <3>3
    <3>5. QED
      BY <2>1, <3>2, <3>3, <3>4 DEF NonePaid
  <2>3. QED
    BY <2>1, <2>2 DEF NonePaid
<1>3. CASE InsertAgain(r)
  BY <1>1, <1>3 DEF InsertAgain, NonePaid, TypeOK
<1>4. QED
  BY <1>2, <1>3

\* An accepted request drops what it holds, or keeps it on the way to the row.
LEMMA ContinueHoldsConfirmed ==
  ASSUME TypeOK, PaidIsConfirmed, NEW r \in Requests, Continue(r)
  PROVE  OthersWait(r) /\ HoldsConfirmed(r)
<1>1. CASE Return(r)
  BY <1>1, ReturnHoldsConfirmed
<1>2. CASE ChangeStatusCommit(r) \/ WriteCase(r)
  <2>1. Hold(r, Blank) /\ \E step : Goto(r, step)
    BY <1>2 DEF ChangeStatusCommit, WriteCase
  <2>2. QED
    BY <2>1, GotoOne, HoldOne DEF OthersWait, HoldsConfirmed, Blank, Absent
<1>3. CASE Issue(r)
  <2>1. LoadCompleted(r, "issuing")
    BY <1>3 DEF Issue
  <2>2. QED
    BY <2>1, LoadCompletedHoldsConfirmed
<1>4. CASE ResetForReopen(r)
  <2>1. mem' = mem /\ \E step : Goto(r, step)
    BY <1>4 DEF ResetForReopen
  <2>2. mem[r].offer.status # "paid"
    BY <1>4, NotConfirming DEF ResetForReopen
  <2>3. QED
    BY <2>1, <2>2, GotoOne DEF OthersWait, HoldsConfirmed
<1>5. CASE SaveCase(r)
  <2> DEFINE changed == Changed(mem[r].row, case, CaseColumns)
             held == [mem[r] EXCEPT !.dirty = changed]
  <2>1. held.offer = mem[r].offer
    BY DEF TypeOK, Memory
  <2>2. mem[r].offer.status # "paid"
    BY <1>5, NotConfirming DEF SaveCase
  <2>3. Hold(r, held) /\ Goto(r, "write")
    BY <1>5 DEF SaveCase
  <2> HIDE DEF held
  <2>4. QED
    BY <2>1, <2>2, <2>3, GotoOne, HoldOne DEF OthersWait, HoldsConfirmed
<1>6. CASE SaveOffer(r)
  <2> DEFINE changed == Changed(mem[r].offer, offers[mem[r].key], OfferColumns)
             held == [mem[r] EXCEPT !.then = pc[r], !.dirty = changed]
             step == IF mem[r].key \in Live THEN "writeOffer" ELSE "insertAgain"
  <2>1. held.offer = mem[r].offer /\ held.then = pc[r]
    <3> HIDE DEF changed
    <3> QED BY DEF TypeOK, Memory
  <2>2. mem[r].offer.status = "paid" => pc[r] = "confirmOffer"
    BY <1>6 DEF SaveOffer, PaidIsConfirmed, Confirming
  <2>3. Hold(r, held) /\ Goto(r, step) /\ step \in {"writeOffer", "insertAgain"}
    BY <1>6 DEF SaveOffer
  <2> HIDE DEF held, step
  <2>4. QED
    BY <2>1, <2>2, <2>3, GotoOne, HoldOne DEF OthersWait, HoldsConfirmed, Confirming
<1>7. QED
  BY <1>1, <1>2, <1>3, <1>4, <1>5, <1>6
  DEF Continue, IssueRefused, SaveCaseFails, ReopenNote, PartsNote, CreateHistoryEntry,
      InsertOffer, WriteOffer, InsertAgain, DeleteOffer, PickupSaveFails,
      IssueAlreadyCollected, IssueCommit, VerifyRefused, VerifyWrong, VerifyRight,
      CollectRefused, CollectCommit

\* The steps of an accepted request that write no paid offer.
LEMMA ContinuePaysNone ==
  ASSUME TypeOK, PaidIsConfirmed, NEW r \in Requests, Continue(r),
         ~WriteOffer(r), ~InsertAgain(r)
  PROVE  NonePaid /\ paidEver' = paidEver
<1>1. CASE ChangeStatusCommit(r) \/ InsertOffer(r)
  <2>1. mem[r].offer.status # "paid" /\ mem[r].offer \in CasePayment
    BY <1>1, NotConfirming DEF ChangeStatusCommit, InsertOffer, TypeOK, Memory
  <2>2. (offers' = offers \/ Insert(mem[r].offer)) /\ paidEver' = paidEver
    BY <1>1 DEF ChangeStatusCommit, InsertOffer, ghosts
  <2>3. QED
    BY <2>1, <2>2, InsertPaysNone DEF NonePaid
<1>2. CASE DeleteOffer(r)
  BY <1>2 DEF DeleteOffer, NonePaid, Removed, Absent, TypeOK, ghosts
<1>3. CASE UNCHANGED <<offers, paidEver>>
  BY <1>3 DEF NonePaid
<1>4. QED
  BY <1>1, <1>2, <1>3
  DEF Continue, Issue, LoadCompleted, ResetForReopen, SaveCase, WriteCase, SaveOffer,
      IssueRefused, SaveCaseFails, ReopenNote, PartsNote, CreateHistoryEntry,
      PickupSaveFails, IssueAlreadyCollected, IssueCommit, VerifyRefused, VerifyWrong,
      VerifyRight, CollectRefused, CollectCommit, tables, ghosts

\* What every step of a request does to the payments.
LEMMA RequestPays ==
  ASSUME TypeOK, PaidIsConfirmed, NEW r \in Requests,
         \/ StatusCalls(r) \/ OfferCalls(r) \/ PickupCalls(r)
         \/ Continue(r) \/ Abort(r)
  PROVE  /\ OthersWait(r) /\ HoldsConfirmed(r)
         /\ \/ NonePaid /\ paidEver' = paidEver
            \/ WriteOffer(r) \/ InsertAgain(r)
<1>1. CASE StatusCalls(r)
  BY <1>1, StatusCallsHoldConfirmed DEF NonePaid
<1>2. CASE OfferCalls(r) \/ PickupCalls(r)
  BY <1>2, OfferCallsHoldConfirmed, PickupCallsHoldConfirmed DEF NonePaid, tables, ghosts
<1>3. CASE Continue(r)
  BY <1>3, ContinueHoldsConfirmed, ContinuePaysNone
<1>4. CASE Abort(r)
  BY <1>4, ReturnHoldsConfirmed DEF Abort, NonePaid, tables, ghosts
<1>5. QED
  BY <1>1, <1>2, <1>3, <1>4

\* Every step keeps paid offers confirmed.
LEMMA PaidIsConfirmedStep ==
  TypeOK /\ PaidIsConfirmed /\ [Next]_vars => PaidIsConfirmed'
<1> SUFFICES ASSUME TypeOK, PaidIsConfirmed, [Next]_vars
             PROVE  PaidIsConfirmed'
  OBVIOUS
<1>1. CASE UNCHANGED vars
  BY <1>1 DEF vars, PaidIsConfirmed, PayablePaid, OffersOf, Live, Confirming
<1>2. CASE Clock
  BY <1>2 DEF Clock, PinExpires, LockoutEnds, ghosts, PaidIsConfirmed, PayablePaid,
     OffersOf, Live, Confirming
<1>3. ASSUME NEW r \in Requests,
             \/ StatusCalls(r) \/ OfferCalls(r) \/ PickupCalls(r)
             \/ Continue(r) \/ Abort(r)
      PROVE  PaidIsConfirmed'
  <2>1. OthersWait(r) /\ HoldsConfirmed(r)
    BY <1>3, RequestPays
  <2>2. \A q \in Requests : (mem[q].offer.status = "paid" => Confirming(q))'
    BY <2>1 DEF OthersWait, HoldsConfirmed, PaidIsConfirmed, Confirming
  <2>3. NonePaid /\ paidEver' = paidEver => (PayablePaid' => paidEver')
    BY NonePaidKeeps DEF PaidIsConfirmed
  <2>4. WriteOffer(r) \/ InsertAgain(r) => (PayablePaid' => paidEver')
    BY DEF WriteOffer, InsertAgain
  <2>5. PayablePaid' => paidEver'
    BY <1>3, <2>3, <2>4, RequestPays
  <2>6. QED
    BY <2>2, <2>5 DEF PaidIsConfirmed
<1>4. QED
  BY <1>1, <1>2, <1>3 DEF Next

(* A payable offer in the table is paid only after it was confirmed, and a request
   holds a paid offer only while it confirms it. *)
THEOREM PaidStaysConfirmed == Spec => []PaidIsConfirmed
<1>1. Init => PaidIsConfirmed
  BY DEF Init, PaidIsConfirmed, PayablePaid, OffersOf, Live, PaymentStatus, Absent, Blank
<1>2. TypeOK /\ PaidIsConfirmed /\ [Next]_vars => PaidIsConfirmed'
  BY PaidIsConfirmedStep
<1>3. QED
  BY <1>1, <1>2, TypeCorrect, PTL DEF Spec

(* An offer becomes paid only in the save of a request that confirms its
   payment, never in a reminder, an edit or a payment initiation. *)
LEMMA PaidByConfirmationStep ==
  ASSUME TypeOK, PaidIsConfirmed, [Next]_vars, NEW o \in Offers,
         offers'[o].status = "paid", offers[o].status # "paid"
  PROVE  \E r \in Requests : Confirming(r) /\ mem[r].key = o
<1>1. offers' # offers
  OBVIOUS
<1>2. PICK r \in Requests :
        \/ StatusCalls(r) \/ OfferCalls(r) \/ PickupCalls(r)
        \/ Continue(r) \/ Abort(r)
  BY <1>1 DEF Next, vars, Clock, PinExpires, LockoutEnds
<1>3. ~NonePaid
  BY DEF NonePaid
<1>4. WriteOffer(r) \/ InsertAgain(r)
  BY <1>2, <1>3, RequestPays
<1>5. Confirming(r)
  BY <1>3, <1>4, WritesPayOnlyConfirmed
<1>6. mem[r].key = o
  BY <1>4 DEF WriteOffer, InsertAgain, TypeOK
<1>7. QED
  BY <1>5, <1>6

(* For every number of requests, offers and amounts: an offer becomes paid only
   by a request that confirms the payment, never by a late save of a reminder, an
   edit or a payment initiation. *)
THEOREM PaidOnlyConfirmed == Spec => PaidOnlyByConfirmation
<1>1. TypeOK /\ PaidIsConfirmed /\ [Next]_vars
        => [\A o \in Offers :
              offers'[o].status = "paid" /\ offers[o].status # "paid"
                => \E r \in Requests : Confirming(r) /\ mem[r].key = o]_vars
  BY PaidByConfirmationStep
<1>2. QED
  BY <1>1, TypeCorrect, PaidStaysConfirmed, PTL DEF Spec, PaidOnlyByConfirmation
-----------------------------------------------------------------------------
(* A completed payable case was paid. *)
LEMMA PaidEverStays ==
  ASSUME TypeOK, PaidIsConfirmed, [Next]_vars
  PROVE  paidEver => paidEver'
<1>1. CASE UNCHANGED paidEver
  BY <1>1
<1>2. ASSUME NEW r \in Requests,
             \/ StatusCalls(r) \/ OfferCalls(r) \/ PickupCalls(r)
             \/ Continue(r) \/ Abort(r)
      PROVE  paidEver => paidEver'
  BY <1>2, RequestPays DEF WriteOffer, InsertAgain
<1>3. QED
  BY <1>1, <1>2 DEF Next, Clock, PinExpires, LockoutEnds, ghosts, vars

\* Who writes the case row.
LEMMA CaseWriters ==
  ASSUME TypeOK, [Next]_vars
  PROVE  case' = case \/ \E r \in Requests : WriteCase(r) \/ ChangeStatusCommit(r)
<1>1. ASSUME NEW r \in Requests, StatusCalls(r) PROVE case' = case
  <2>1. CASE \E technician \in (IF Managers THEN BOOLEAN ELSE {TRUE}) :
             \E to \in CaseStatusLevel, result \in Results \cup {NoResult} :
             \E offer \in OfferArguments, noted, wantPin \in BOOLEAN :
               ChangeStatus(r, technician, to, result, offer, noted, wantPin)
    <3>1. UNCHANGED tables
      BY <2>1 DEF ChangeStatus
    <3>2. QED
      BY <3>1 DEF tables
  <2>2. CASE \E row, then : LoadCase(r, row, then)
    BY <2>2 DEF LoadCase, tables
  <2>3. CASE AddInternalNote(r)
    BY <2>3 DEF AddInternalNote, CreateHistoryEntry
  <2>4. QED
    BY <1>1, <2>1, <2>2, <2>3
    DEF StatusCalls, Update, Reopen, StartPartsWaiting, ReceivePartsWaiting
<1>2. ASSUME NEW r \in Requests, Continue(r), ~WriteCase(r), ~ChangeStatusCommit(r)
      PROVE  case' = case
  BY <1>2
  DEF Continue, Issue, LoadCompleted, ResetForReopen, SaveCase, SaveOffer,
      IssueRefused, SaveCaseFails, ReopenNote, PartsNote, CreateHistoryEntry,
      InsertOffer, WriteOffer, InsertAgain, DeleteOffer, PickupSaveFails,
      IssueAlreadyCollected, IssueCommit, VerifyRefused, VerifyWrong,
      VerifyRight, CollectRefused, CollectCommit, tables
<1>3. ASSUME NEW r \in Requests, OfferCalls(r) \/ PickupCalls(r) \/ Abort(r)
      PROVE  case' = case
  BY <1>3, OfferCallsHoldConfirmed, PickupCallsHoldConfirmed DEF Abort, tables
<1>4. QED
  BY <1>1, <1>2, <1>3 DEF Next, Clock, PinExpires, LockoutEnds, vars

\* The row a status change writes, and every other row a case gets.
LEMMA CaseRowStep ==
  ASSUME TypeOK, StagesKept, NoReopens, [Next]_vars
  PROVE  \/ SameStage(case')
         \/ \E r \in Requests : ChangeStatusCommit(r) /\ case' = mem[r].row
<1>1. CASE case' = case
  BY <1>1 DEF SameStage
<1>2. ASSUME NEW r \in Requests, WriteCase(r)
      PROVE  SameStage(case')
  <2>1. mem[r].dirty \subseteq {"partsWaiting"}
    BY <1>2 DEF WriteCase, StagesKept, SavesKeepStage
  <2>2. QED
    BY <1>2, <2>1 DEF WriteCase, Column, SameStage
<1>3. ASSUME NEW r \in Requests, ChangeStatusCommit(r)
      PROVE  case' = mem[r].row
  BY <1>3 DEF ChangeStatusCommit
<1>4. QED
  BY <1>1, <1>2, <1>3, CaseWriters

\* A request reaches the commit of a status change only from changeStatus.
LEMMA StatusEntered ==
  ASSUME TypeOK, StagesKept, PaidIsConfirmed, NoReopens, [Next]_vars,
         NEW r \in Requests, pc'[r] = "status"
  PROVE  \/ pc[r] = "status" /\ mem'[r] = mem[r]
         \/ Settled(mem'[r].row) /\ UNCHANGED paidEver
<1>1. CASE UNCHANGED <<pc, mem>>
  BY <1>1
<1>2. ASSUME NEW q \in Requests,
             \/ StatusCalls(q) \/ OfferCalls(q) \/ PickupCalls(q)
             \/ Continue(q) \/ Abort(q), q # r
      PROVE  pc[r] = "status" /\ mem'[r] = mem[r]
  BY <1>2, RequestPays DEF OthersWait
<1>3. CASE StatusCalls(r)
  <2>1. CASE \E technician \in (IF Managers THEN BOOLEAN ELSE {TRUE}) :
             \E to \in CaseStatusLevel, result \in Results \cup {NoResult} :
             \E offer \in OfferArguments, noted, wantPin \in BOOLEAN :
               ChangeStatus(r, technician, to, result, offer, noted, wantPin)
    BY <2>1, ChangeStatusSettles DEF ghosts
  <2>2. CASE \E row, then : LoadCase(r, row, then)
    BY <2>2, GotoOne DEF LoadCase
  <2>3. CASE AddInternalNote(r)
    BY <2>3, GotoOne DEF AddInternalNote, CreateHistoryEntry, Return
  <2>4. QED
    BY <1>3, <2>1, <2>2, <2>3
    DEF StatusCalls, Update, Reopen, StartPartsWaiting, ReceivePartsWaiting
<1>4. CASE OfferCalls(r)
  BY <1>4, OfferCallsAside DEF Aside
<1>5. CASE PickupCalls(r)
  BY <1>5, PickupCallsAside DEF Aside
<1>6. CASE Continue(r) /\ ~ChangeStatusCommit(r) /\ ~SaveCase(r) /\ ~WriteCase(r)
  BY <1>6, ContinueAside DEF Aside
<1>7. CASE ChangeStatusCommit(r) \/ SaveCase(r) \/ WriteCase(r) \/ Abort(r)
  <2>1. pc[r] = "write" => mem[r].then \in {"idle", "partsNote"}
    BY DEF StagesKept, SavesKeepStage
  <2>2. \E step \in {"reset", "issue", "idle", "write", "partsNote"} : Goto(r, step)
    BY <1>7, <2>1 DEF ChangeStatusCommit, SaveCase, WriteCase, Abort, Return
  <2>3. QED
    BY <2>2, GotoOne
<1>8. QED
  BY <1>1, <1>2, <1>3, <1>4, <1>5, <1>6, <1>7
  DEF Next, Clock, PinExpires, LockoutEnds, vars

\* Every step keeps the case row and the rows about to be written settled.
LEMMA RowsSettledStep ==
  TypeOK /\ StagesKept /\ PaidIsConfirmed /\ RowsSettled /\ [Next]_vars => RowsSettled'
<1> SUFFICES ASSUME TypeOK, StagesKept, PaidIsConfirmed, RowsSettled, [Next]_vars,
                    NoReopens
             PROVE  RowsSettled'
  BY DEF RowsSettled
<1>1. paidEver => paidEver'
  BY PaidEverStays
<1>2. Settled(case)'
  BY <1>1, CaseRowStep DEF RowsSettled, Settled, SameStage, ChangeStatusCommit
<1>3. ASSUME NEW r \in Requests, pc'[r] = "status"
      PROVE  Settled(mem[r].row)'
  BY <1>1, <1>3, StatusEntered DEF RowsSettled, Settled
<1>4. QED
  BY <1>2, <1>3 DEF RowsSettled

(* While reopen is not called, a completed payable case has had a payable offer
   confirmed, whatever saves come between the check and the commit. *)
THEOREM CompletedPayableWasAlwaysPaid == Spec => []CompletedPayableWasPaid
<1>1. Init => RowsSettled
  BY DEF Init, RowsSettled, Settled, NewCase
<1>2. TypeOK /\ StagesKept /\ PaidIsConfirmed /\ RowsSettled /\ [Next]_vars
        => RowsSettled'
  BY RowsSettledStep
<1>3. RowsSettled => CompletedPayableWasPaid
  BY DEF RowsSettled, CompletedPayableWasPaid
<1>4. QED
  BY <1>1, <1>2, <1>3, TypeCorrect, StagesStayKept, PaidStaysConfirmed, PTL DEF Spec
-----------------------------------------------------------------------------
(* What the lock on the case row keeps. *)

\* A request at a step that needs the lock has it, and no save leads to such a step.
LockHeld(r) ==
  /\ pc[r] \in {"status", "collecting"} => lock = r
  /\ pc[r] \in {"save", "write"} => mem[r].then \in {"idle", "partsNote", "reopenReset"}

ChangesStatus(r) ==
  \E technician \in IF Managers THEN BOOLEAN ELSE {TRUE} :
  \E to \in CaseStatusLevel, result \in Results \cup {NoResult} :
  \E offer \in OfferArguments, noted, wantPin \in BOOLEAN :
    ChangeStatus(r, technician, to, result, offer, noted, wantPin)

\* Where a call of cases.service begins.
LEMMA StatusCallsEnter ==
  ASSUME TypeOK, NEW r \in Requests, StatusCalls(r)
  PROVE  \/ ChangesStatus(r) /\ pc'[r] = "status"
         \/ /\ pc'[r] = "save" /\ UNCHANGED lock
            /\ mem'[r].then \in {"idle", "partsNote", "reopenReset"}
         \/ pc'[r] = "idle" /\ UNCHANGED lock
<1>1. CASE ChangesStatus(r)
  <2>1. Goto(r, "status")
    BY <1>1 DEF ChangesStatus, ChangeStatus
  <2>2. QED
    BY <1>1, <2>1, GotoOne
<1>2. ASSUME NEW row, NEW then \in {"idle", "partsNote", "reopenReset"},
             LoadCase(r, row, then)
      PROVE  pc'[r] = "save" /\ UNCHANGED lock /\ mem'[r].then = then
  <2> DEFINE held == [Blank EXCEPT !.row = row, !.seen = Live, !.then = then]
  <2>1. held.then = then
    BY DEF Blank
  <2>2. Hold(r, held) /\ Goto(r, "save") /\ UNCHANGED lock
    BY <1>2 DEF LoadCase
  <2> HIDE DEF held
  <2>3. QED
    BY <2>1, <2>2, GotoOne, HoldOne
<1>3. CASE AddInternalNote(r)
  BY <1>3, GotoOne DEF AddInternalNote, CreateHistoryEntry, Return
<1>4. CASE \E row : \E then \in {"idle", "partsNote", "reopenReset"} :
             LoadCase(r, row, then)
  BY <1>2, <1>4
<1>5. QED
  BY <1>1, <1>3, <1>4
  DEF StatusCalls, ChangesStatus, Update, Reopen, StartPartsWaiting, ReceivePartsWaiting

\* Where a call on an offer or of pickup.service begins.
LEMMA OtherCallsEnter ==
  ASSUME TypeOK, NEW r \in Requests, OfferCalls(r) \/ PickupCalls(r)
  PROVE  \/ CollectWithoutPin(r) /\ pc'[r] = "collecting"
         \/ /\ pc'[r] \notin {"status", "save", "write", "collecting"}
            /\ UNCHANGED lock
<1>1. CASE \E type \in Results, amount \in Amounts : CreateOffer(r, type, amount)
  BY <1>1, GotoOne DEF CreateOffer
<1>2. ASSUME NEW o, NEW entity, NEW step \in {"saveOffer", "confirmOffer", "deleteOffer"},
             LoadOffer(r, o, entity, step)
      PROVE  pc'[r] = step /\ UNCHANGED lock
  BY <1>2, GotoOne DEF LoadOffer
<1>3. CASE OfferCalls(r)
  BY <1>1, <1>2, <1>3
  DEF OfferCalls, UpdateOffer, MarkAsPaid, MarkAsFailed, SendPaymentReminder,
      InitiatePayment, HandleCallback, Remove
<1>4. CASE PickupCalls(r)
  BY <1>4, GotoOne DEF PickupCalls, Issue, Verify, CollectWithoutPin, LoadCompleted
<1>5. QED
  BY <1>3, <1>4

\* A call is accepted from an idle request.
LEMMA CallsAreIdle ==
  ASSUME NEW r \in Requests, StatusCalls(r) \/ OfferCalls(r) \/ PickupCalls(r)
  PROVE  pc[r] = "idle"
<1>1. ChangesStatus(r) => pc[r] = "idle"
  BY DEF ChangesStatus, ChangeStatus
<1>2. ASSUME Update(r) \/ Reopen(r) \/ StartPartsWaiting(r) \/ ReceivePartsWaiting(r)
      PROVE  pc[r] = "idle"
  BY <1>2 DEF Update, Reopen, StartPartsWaiting, ReceivePartsWaiting, LoadCase
<1>3. AddInternalNote(r) => pc[r] = "idle"
  BY DEF AddInternalNote
<1>4. StatusCalls(r) => pc[r] = "idle"
  BY <1>1, <1>2, <1>3 DEF StatusCalls, ChangesStatus
<1>5. OfferCalls(r) => pc[r] = "idle"
  BY DEF OfferCalls, CreateOffer, LoadOffer, UpdateOffer, MarkAsPaid, MarkAsFailed,
         SendPaymentReminder, InitiatePayment, HandleCallback, Remove
<1>6. PickupCalls(r) => pc[r] = "idle"
  BY DEF PickupCalls, Verify, CollectWithoutPin
<1>7. QED
  BY <1>4, <1>5, <1>6

\* An accepted request never takes the lock.
LEMMA ContinueReleases ==
  ASSUME TypeOK, NEW r \in Requests, LockHeld(r), Continue(r) \/ Abort(r)
  PROVE  /\ UNCHANGED lock \/ UnlockCase(r)
         /\ pc'[r] \notin {"status", "collecting"}
         /\ pc'[r] \in {"save", "write"} => mem'[r].then = mem[r].then /\ SaveCase(r)
<1>1. CASE Return(r)
  <2>1. pc'[r] = "idle"
    BY <1>1, GotoOne DEF Return
  <2>2. UNCHANGED lock \/ UnlockCase(r)
    BY <1>1
    DEF Continue, Abort, ChangeStatusCommit, Issue, LoadCompleted, ResetForReopen,
        SaveCase, WriteCase, SaveOffer, IssueRefused, SaveCaseFails, ReopenNote,
        PartsNote, CreateHistoryEntry, InsertOffer, WriteOffer, InsertAgain,
        DeleteOffer, PickupSaveFails, IssueAlreadyCollected, IssueCommit,
        VerifyRefused, VerifyWrong, VerifyRight, CollectRefused, CollectCommit
  <2>3. QED
    BY <2>1, <2>2
<1>2. CASE ChangeStatusCommit(r)
  BY <1>2, GotoOne DEF ChangeStatusCommit
<1>3. CASE Issue(r) \/ ResetForReopen(r) \/ SaveOffer(r)
  BY <1>3, GotoOne DEF Issue, LoadCompleted, ResetForReopen, SaveOffer
<1>4. CASE WriteCase(r)
  BY <1>4, GotoOne DEF WriteCase, LockHeld
<1>5. CASE SaveCase(r)
  <2> DEFINE changed == Changed(mem[r].row, case, CaseColumns)
             held == [mem[r] EXCEPT !.dirty = changed]
  <2>1. held.then = mem[r].then
    BY DEF TypeOK, Memory
  <2>2. Hold(r, held) /\ Goto(r, "write") /\ UNCHANGED lock
    BY <1>5 DEF SaveCase
  <2> HIDE DEF held
  <2>3. QED
    BY <1>5, <2>1, <2>2, GotoOne, HoldOne
<1>6. QED
  BY <1>1, <1>2, <1>3, <1>4, <1>5
  DEF Continue, Abort, IssueRefused, SaveCaseFails, ReopenNote, PartsNote,
      CreateHistoryEntry, InsertOffer, WriteOffer, InsertAgain, DeleteOffer,
      PickupSaveFails, IssueAlreadyCollected, IssueCommit, VerifyRefused, VerifyWrong,
      VerifyRight, CollectRefused, CollectCommit

\* Every step leaves the lock with the request that needs it.
LEMMA LockHeldStep ==
  ASSUME TypeOK, PaidIsConfirmed, \A r \in Requests : LockHeld(r), [Next]_vars
  PROVE  \A r \in Requests : LockHeld(r)'
<1>1. CASE UNCHANGED <<pc, mem, lock>>
  BY <1>1 DEF LockHeld
<1>2. ASSUME NEW r \in Requests,
             \/ StatusCalls(r) \/ OfferCalls(r) \/ PickupCalls(r)
             \/ Continue(r) \/ Abort(r)
      PROVE  \A q \in Requests : LockHeld(q)'
  <2>1. \/ UNCHANGED lock \/ UnlockCase(r) \/ LockCase(r)
    <3>1. ChangesStatus(r) => LockCase(r)
      BY DEF ChangesStatus, ChangeStatus
    <3>2. CollectWithoutPin(r) => LockCase(r)
      BY DEF CollectWithoutPin
    <3>3. QED
      BY <1>2, <3>1, <3>2, StatusCallsEnter, OtherCallsEnter, ContinueReleases
  <2>2. LockHeld(r)'
    <3>1. ChangesStatus(r) \/ CollectWithoutPin(r) => lock' = r
      <4>1. ChangesStatus(r) => LockCase(r)
        BY DEF ChangesStatus, ChangeStatus
      <4>2. CollectWithoutPin(r) => LockCase(r)
        BY DEF CollectWithoutPin
      <4>3. QED
        BY <4>1, <4>2 DEF LockCase
    <3>2. CASE StatusCalls(r)
      BY <3>1, <3>2, StatusCallsEnter DEF LockHeld
    <3>3. CASE OfferCalls(r) \/ PickupCalls(r)
      BY <3>1, <3>3, OtherCallsEnter DEF LockHeld
    <3>4. CASE Continue(r) \/ Abort(r)
      BY <3>4, ContinueReleases DEF LockHeld, SaveCase
    <3>5. QED
      BY <1>2, <3>2, <3>3, <3>4
  <2>3. ASSUME NEW q \in Requests, q # r PROVE LockHeld(q)'
    <3>1. pc'[q] = pc[q] /\ mem'[q] = mem[q]
      BY <1>2, <2>3, RequestPays DEF OthersWait
    <3>2. lock = q => lock' = q
      BY <2>1, <2>3, NobodyAssumption DEF UnlockCase, LockCase, Free
    <3>3. QED
      BY <3>1, <3>2 DEF LockHeld
  <2>4. QED
    BY <2>2, <2>3
<1>3. QED
  BY <1>1, <1>2 DEF Next, vars, Clock, PinExpires, LockoutEnds

(* The request between the halves of changeStatus, or of a collection without a
   PIN, holds the lock on the case row. *)
LEMMA LockStaysHeld == Spec => [](\A r \in Requests : LockHeld(r))
<1>1. Init => \A r \in Requests : LockHeld(r)
  BY DEF Init, LockHeld
<1>2. /\ TypeOK /\ PaidIsConfirmed /\ (\A r \in Requests : LockHeld(r)) /\ [Next]_vars
      => (\A r \in Requests : LockHeld(r))'
  BY LockHeldStep
<1>3. QED
  BY <1>1, <1>2, TypeCorrect, PaidStaysConfirmed, PTL DEF Spec

\* While a request holds the lock nobody else writes the case row.
LEMMA CaseUnderLock ==
  ASSUME TypeOK, [Next]_vars, \A q \in Requests : LockHeld(q),
         NEW r \in Requests, lock = r, ~ChangeStatusCommit(r)
  PROVE  case' = case
BY CaseWriters, NobodyAssumption DEF WriteCase, Free, ChangeStatusCommit, LockHeld

\* What a collection without a PIN found under the lock.
FoundCompleted(r) ==
  pc[r] = "collecting" =>
    /\ case.status = COMPLETED
    /\ ~case.pinRequired
    /\ case.result = PAYABLE => paidEver

\* Every step leaves it as it was found.
LEMMA FoundCompletedStep ==
  ASSUME TypeOK, PaidIsConfirmed, [Next]_vars, \A q \in Requests : LockHeld(q),
         NEW r \in Requests, FoundCompleted(r)
  PROVE  FoundCompleted(r)'
<1>1. CASE pc'[r] # "collecting"
  BY <1>1 DEF FoundCompleted
<1>2. CASE pc[r] = "collecting" /\ pc'[r] = "collecting"
  <2>1. lock = r /\ ~ChangeStatusCommit(r)
    BY <1>2 DEF LockHeld, ChangeStatusCommit
  <2>2. case' = case /\ (paidEver => paidEver')
    BY <2>1, CaseUnderLock, PaidEverStays
  <2>3. QED
    BY <1>2, <2>2 DEF FoundCompleted
<1>3. CASE pc[r] # "collecting" /\ pc'[r] = "collecting"
  <2>1. ~UNCHANGED pc
    BY <1>3
  <2>2. PICK q \in Requests :
          \/ StatusCalls(q) \/ OfferCalls(q) \/ PickupCalls(q)
          \/ Continue(q) \/ Abort(q)
    BY <2>1 DEF Next, vars, Clock, PinExpires, LockoutEnds
  <2>3. q = r
    BY <1>3, <2>2, RequestPays DEF OthersWait
  <2>4. CollectWithoutPin(r)
    BY <1>3, <2>2, <2>3, StatusCallsEnter, OtherCallsEnter, ContinueReleases
  <2>5. QED
    BY <2>4
    DEF CollectWithoutPin, CompletedCase, LoadCompleted, FoundCompleted,
        PaidIsConfirmed, tables, ghosts
<1>4. QED
  BY <1>1, <1>2, <1>3

(* A collection without a PIN gives out the device of a case that is completed,
   needs no PIN and was paid if payable, when it commits and not only when it
   looked. *)
THEOREM CollectsCompleted == Spec => CollectsCompletedOnly
<1> DEFINE Found == \A r \in Requests : FoundCompleted(r)
           Held == \A r \in Requests : LockHeld(r)
<1>1. Init => Found
  BY DEF Init, FoundCompleted
<1>2. TypeOK /\ PaidIsConfirmed /\ Held /\ Found /\ [Next]_vars => Found'
  BY FoundCompletedStep
<1>3. Found => [\A r \in Requests :
                  pc[r] = "collecting" /\ handovers' > handovers
                    => /\ case.status = COMPLETED
                       /\ ~case.pinRequired
                       /\ case.result = PAYABLE => paidEver]_vars
  BY DEF FoundCompleted
<1> HIDE DEF Found, Held
<1>4. Spec => []Held
  BY LockStaysHeld DEF Held
<1>5. QED
  BY <1>1, <1>2, <1>3, <1>4, TypeCorrect, PaidStaysConfirmed, PTL
  DEF Spec, CollectsCompletedOnly
-----------------------------------------------------------------------------
(* Technicians take no case back. *)

\* The row a technician is about to write.
GoesForward(r) == ~Managers /\ pc[r] = "status" => mem[r].row.status >= case.status

\* A technician's status change goes forward, or repeats the stage it found.
LEMMA TechnicianGoesForward ==
  ASSUME TypeOK, ~Managers, NEW r \in Requests, ChangesStatus(r)
  PROVE  mem'[r].row.status >= case.status /\ case' = case
<1>1. ASSUME NEW technician, technician = TRUE, NEW to \in CaseStatusLevel,
             NEW result \in Results \cup {NoResult}, NEW offer \in OfferArguments,
             NEW noted \in BOOLEAN, NEW wantPin \in BOOLEAN,
             ChangeStatus(r, technician, to, result, offer, noted, wantPin)
      PROVE  mem'[r].row.status >= case.status /\ case' = case
  <2>1. mem'[r].row = ChangedRow(to, EffectiveResult(to, result), wantPin)
    BY <1>1, ChangeStatusRow
  <2>2. ChangedRow(to, EffectiveResult(to, result), wantPin).status = to
    BY ChangedRowFields
  <2>3. to >= case.status
    BY <1>1
    DEF ChangeStatus, TechnicianMay, RepairingOffer, SameCall, TypeOK, ServiceCase
  <2>4. UNCHANGED tables
    BY <1>1 DEF ChangeStatus
  <2>5. QED
    BY <2>1, <2>2, <2>3, <2>4 DEF tables
<1>2. PICK technician \in (IF Managers THEN BOOLEAN ELSE {TRUE}) :
        \E to \in CaseStatusLevel, result \in Results \cup {NoResult} :
        \E offer \in OfferArguments, noted, wantPin \in BOOLEAN :
          ChangeStatus(r, technician, to, result, offer, noted, wantPin)
  BY Zenon DEF ChangesStatus
<1>3. technician = TRUE
  BY Zenon
<1>4. QED
  BY <1>1, <1>2, <1>3, Zenon

\* Every step leaves it ahead of the case.
LEMMA GoesForwardStep ==
  ASSUME TypeOK, PaidIsConfirmed, [Next]_vars, \A q \in Requests : LockHeld(q),
         NEW r \in Requests, GoesForward(r)
  PROVE  GoesForward(r)'
<1> SUFFICES ASSUME ~Managers, pc'[r] = "status"
             PROVE  mem'[r].row.status >= case'.status
  BY DEF GoesForward
<1>1. CASE UNCHANGED <<pc, mem, case>>
  BY <1>1 DEF GoesForward
<1>2. ASSUME NEW q \in Requests,
             \/ StatusCalls(q) \/ OfferCalls(q) \/ PickupCalls(q)
             \/ Continue(q) \/ Abort(q)
      PROVE  mem'[r].row.status >= case'.status
  <2>1. CASE q # r
    <3>1. pc[r] = "status" /\ mem'[r] = mem[r]
      BY <1>2, <2>1, RequestPays DEF OthersWait
    <3>2. ~ChangeStatusCommit(r)
      BY GotoOne DEF ChangeStatusCommit
    <3>3. case' = case
      BY <3>1, <3>2, CaseUnderLock DEF LockHeld
    <3>4. QED
      BY <3>1, <3>3 DEF GoesForward
  <2>2. CASE q = r
    <3>1. ChangesStatus(r)
      BY <1>2, <2>2, StatusCallsEnter, OtherCallsEnter, ContinueReleases
    <3>2. QED
      BY <3>1, TechnicianGoesForward
  <2>3. QED
    BY <2>1, <2>2
<1>3. QED
  BY <1>1, <1>2 DEF Next, vars, Clock, PinExpires, LockoutEnds

\* So no step takes a technicians' case back.
LEMMA ForwardStep ==
  ASSUME TypeOK, StagesKept, [Next]_vars, ~Managers,
         \A r \in Requests : GoesForward(r)
  PROVE  case'.status >= case.status
<1>1. NoReopens
  BY DEF NoReopens
<1>2. CASE SameStage(case')
  BY <1>2 DEF SameStage, TypeOK, ServiceCase
<1>3. ASSUME NEW r \in Requests, ChangeStatusCommit(r), case' = mem[r].row
      PROVE  case'.status >= case.status
  BY <1>3 DEF GoesForward, ChangeStatusCommit
<1>4. QED
  BY <1>1, <1>2, <1>3, CaseRowStep

(* With technicians at the desk no step takes a case back, the saves of entities
   read before a status change included. *)
THEOREM TechniciansGoForward == Spec => OnlyManagersMoveBack
<1> DEFINE Forward == \A r \in Requests : GoesForward(r)
           Held == \A r \in Requests : LockHeld(r)
<1>1. Init => Forward
  BY DEF Init, GoesForward
<1>2. TypeOK /\ PaidIsConfirmed /\ Held /\ Forward /\ [Next]_vars => Forward'
  BY GoesForwardStep
<1>3. TypeOK /\ StagesKept /\ Forward /\ [Next]_vars
        => [~Managers => case'.status >= case.status]_vars
  BY ForwardStep
<1> HIDE DEF Forward, Held
<1>4. Spec => []Held
  BY LockStaysHeld DEF Held
<1>5. QED
  BY <1>1, <1>2, <1>3, <1>4, TypeCorrect, PaidStaysConfirmed, StagesStayKept, PTL
  DEF Spec, OnlyManagersMoveBack
-----------------------------------------------------------------------------
(* One offer of each type. *)

\* What requests may still do to the offers if only changeStatus makes them.
OfferWork(r) ==
  /\ pc[r] \notin {"insertOffer", "insertAgain", "deleteOffer"}
  /\ pc[r] \in {"saveOffer", "confirmOffer", "writeOffer"}
       => mem[r].key \in Live /\ mem[r].offer.status \in PaymentStatus
  /\ pc[r] = "status"
       => \/ mem[r].offer = NoOffer
          \/ mem[r].offer.status = "pending" /\ OffersOf(mem[r].offer.type) = {}

\* A step that leaves the offers of every type as they are.
SameKinds ==
  Live' = Live /\ \A o \in Live : offers'[o].type = offers[o].type

\* A status change adds an offer only of a type that has none.
LEMMA ChangesStatusWork ==
  ASSUME TypeOK, NEW r \in Requests, ChangesStatus(r)
  PROVE  /\ offers' = offers
         /\ \/ mem'[r].offer = NoOffer
            \/ /\ mem'[r].offer.status = "pending"
               /\ OffersOf(mem'[r].offer.type) = {}
               /\ RoomForOffer
<1>1. ASSUME NEW technician, NEW to \in CaseStatusLevel,
             NEW newResult \in Results \cup {NoResult}, NEW offer \in OfferArguments,
             NEW noted \in BOOLEAN, NEW wantPin \in BOOLEAN,
             ChangeStatus(r, technician, to, newResult, offer, noted, wantPin)
      PROVE  /\ offers' = offers
             /\ \/ mem'[r].offer = NoOffer
                \/ /\ mem'[r].offer.status = "pending"
                   /\ OffersOf(mem'[r].offer.type) = {}
                   /\ RoomForOffer
  <2> DEFINE result == EffectiveResult(to, newResult)
             row == ChangedRow(to, result, wantPin)
             made == IF ~CreatesOffer(to, result, offer) THEN NoOffer
                     ELSE IF offer # NoOffer THEN offer
                     ELSE [Absent EXCEPT !.status = "pending"]
             held == [Blank EXCEPT !.row = row, !.offer = made]
  <2>1. mem' = [mem EXCEPT ![r] = held]
    BY <1>1 DEF ChangeStatus, Hold
  <2>2. held.offer = made
    <3> HIDE DEF row, made
    <3> QED BY DEF Blank
  <2>3. made = NoOffer \/ (made.status = "pending" /\ OffersOf(made.type) = {})
    <3>1. CASE ~CreatesOffer(to, result, offer)
      BY <3>1
    <3>2. CASE CreatesOffer(to, result, offer) /\ offer # NoOffer
      <4>1. made = offer
        BY <3>2
      <4>2. offer.status = "pending"
        BY <3>2 DEF OfferArguments
      <4>3. offer.type = result
        BY <1>1, <3>2 DEF ChangeStatus, OfferFits
      <4>4. OffersOf(result) = {}
        BY <3>2 DEF CreatesOffer
      <4> HIDE DEF made, result
      <4>5. QED
        BY <4>1, <4>2, <4>3, <4>4
    <3>3. CASE CreatesOffer(to, result, offer) /\ offer = NoOffer
      <4>1. made.type = COVERED /\ made.status = "pending"
        BY <3>3 DEF Absent
      <4>2. OffersOf(COVERED) = {}
        BY <3>3 DEF CreatesOffer
      <4> HIDE DEF made
      <4>3. QED
        BY <4>1, <4>2
    <3>4. QED
      BY <3>1, <3>2, <3>3
  <2>4. mem'[r] = held
    <3> HIDE DEF held
    <3> QED BY <2>1 DEF TypeOK
  <2>5. UNCHANGED tables
    BY <1>1 DEF ChangeStatus
  <2>6. made = NoOffer \/ RoomForOffer
    <3>1. CreatesOffer(to, result, offer) => RoomForOffer
      BY <1>1 DEF ChangeStatus
    <3>2. QED
      BY <3>1
  <2>7. QED
    <3> HIDE DEF held, made
    <3> QED BY <2>2, <2>3, <2>4, <2>5, <2>6 DEF tables
<1>2. PICK technician \in (IF Managers THEN BOOLEAN ELSE {TRUE}) :
        \E to \in CaseStatusLevel, result \in Results \cup {NoResult} :
        \E offer \in OfferArguments, noted, wantPin \in BOOLEAN :
          ChangeStatus(r, technician, to, result, offer, noted, wantPin)
  BY Zenon DEF ChangesStatus
<1>3. QED
  BY <1>1, <1>2, ZenonT(60)

\* A loaded offer is one of the case's.
LEMMA LoadOfferWork ==
  ASSUME TypeOK, NEW r \in Requests, NEW o \in Offers, NEW entity \in CasePayment,
         NEW step \in {"saveOffer", "confirmOffer"}, LoadOffer(r, o, entity, step),
         entity.status \in PaymentStatus
  PROVE  OfferWork(r)'
<1> DEFINE keyed == [Blank EXCEPT !.key = o]
           held == [keyed EXCEPT !.offer = entity]
<1>1. keyed \in Memory /\ keyed.key = o
  BY BlankType, MaxOffersAssumption DEF Memory, Offers
<1>2. held.offer = entity /\ held.key = o
  <2> HIDE DEF keyed
  <2> QED BY <1>1 DEF Memory
<1>3. Hold(r, held) /\ Goto(r, step) /\ o \in Live /\ offers' = offers
  BY DEF LoadOffer, tables
<1> HIDE DEF held
<1>4. pc'[r] = step /\ mem'[r] = held
  BY <1>3, GotoOne, HoldOne
<1>5. QED
  BY <1>2, <1>3, <1>4 DEF OfferWork, Live

\* Every call on an offer but the creation and the removal loads one.
LEMMA OfferCallsWork ==
  ASSUME TypeOK, OnlyStatusMakesOffers, NEW r \in Requests, OfferCalls(r)
  PROVE  OfferWork(r)'
<1>1. PICK o \in Live :
        \/ \E amount \in Amounts : UpdateOffer(r, o, amount)
        \/ MarkAsPaid(r, o) \/ MarkAsFailed(r, o)
        \/ SendPaymentReminder(r, o) \/ InitiatePayment(r, o)
        \/ HandleCallback(r, o, "completed") \/ HandleCallback(r, o, "failed")
  BY DEF OfferCalls, OnlyStatusMakesOffers
<1>2. /\ o \in Offers /\ offers[o] \in CasePayment /\ offers[o].status \in PaymentStatus
      /\ "paid" \in PaymentStatus /\ "failed" \in PaymentStatus
  BY DEF Live, PaymentStatus, TypeOK
<1>3. ASSUME NEW status \in {"paid", "failed"}
      PROVE  [offers[o] EXCEPT !.status = status].status \in PaymentStatus
  BY <1>2 DEF CasePayment
<1>4. ASSUME NEW amount \in Amounts
      PROVE  [offers[o] EXCEPT !.amount = amount].status \in PaymentStatus
  BY <1>2 DEF CasePayment
<1>5. ASSUME NEW amount \in Amounts, UpdateOffer(r, o, amount) PROVE OfferWork(r)'
  BY <1>2, <1>4, <1>5, OfferChangeType, LoadOfferWork DEF UpdateOffer
<1>6. MarkAsPaid(r, o) => OfferWork(r)'
  BY <1>2, <1>3, OfferChangeType, LoadOfferWork DEF MarkAsPaid
<1>7. MarkAsFailed(r, o) => OfferWork(r)'
  BY <1>2, <1>3, OfferChangeType, LoadOfferWork DEF MarkAsFailed
<1>8. SendPaymentReminder(r, o) \/ InitiatePayment(r, o) => OfferWork(r)'
  BY <1>2, LoadOfferWork DEF SendPaymentReminder, InitiatePayment
<1>9. QED
  BY <1>1, <1>5, <1>6, <1>7, <1>8 DEF HandleCallback

\* An accepted request goes on with it, or is done with offers.
LEMMA ContinueWork ==
  ASSUME TypeOK, NEW r \in Requests, LockHeld(r), OfferWork(r), Continue(r) \/ Abort(r)
  PROVE  OfferWork(r)'
<1>1. CASE SaveOffer(r)
  <2> DEFINE changed == Changed(mem[r].offer, offers[mem[r].key], OfferColumns)
             held == [mem[r] EXCEPT !.then = pc[r], !.dirty = changed]
  <2>1. held.offer = mem[r].offer /\ held.key = mem[r].key
    <3> HIDE DEF changed
    <3> QED BY DEF TypeOK, Memory
  <2>2. mem[r].key \in Live /\ mem[r].offer.status \in PaymentStatus
    BY <1>1 DEF SaveOffer, OfferWork
  <2>3. Hold(r, held) /\ Goto(r, "writeOffer") /\ offers' = offers
    BY <1>1, <2>2 DEF SaveOffer, tables
  <2> HIDE DEF held
  <2>4. pc'[r] = "writeOffer" /\ mem'[r] = held
    BY <2>3, GotoOne, HoldOne
  <2>5. QED
    BY <2>1, <2>2, <2>3, <2>4 DEF OfferWork, Live
<1>2. ASSUME pc'[r] \in {"idle", "reset", "issue", "write", "partsNote", "reopenReset",
                         "reopenNote", "issuing"}
      PROVE  OfferWork(r)'
  BY <1>2 DEF OfferWork
<1>3. CASE Return(r)
  BY <1>2, <1>3, GotoOne DEF Return
<1>4. CASE ChangeStatusCommit(r)
  <2>1. \E step \in {"reset", "issue", "idle"} : Goto(r, step)
    BY <1>4 DEF ChangeStatusCommit
  <2>2. QED
    BY <1>2, <2>1, GotoOne
<1>5. CASE Issue(r)
  BY <1>2, <1>5, GotoOne DEF Issue, LoadCompleted
<1>6. CASE ResetForReopen(r)
  <2>1. \E step \in {"idle", "reopenNote"} : Goto(r, step)
    BY <1>6 DEF ResetForReopen
  <2>2. QED
    BY <1>2, <2>1, GotoOne
<1>7. CASE SaveCase(r)
  BY <1>2, <1>7, GotoOne DEF SaveCase
<1>8. CASE WriteCase(r)
  BY <1>2, <1>8, GotoOne DEF WriteCase, LockHeld
<1>9. QED
  BY <1>1, <1>3, <1>4, <1>5, <1>6, <1>7, <1>8
  DEF Continue, Abort, IssueRefused, SaveCaseFails, ReopenNote, PartsNote,
      CreateHistoryEntry, InsertOffer, WriteOffer, InsertAgain, DeleteOffer,
      PickupSaveFails, IssueAlreadyCollected, IssueCommit, VerifyRefused, VerifyWrong,
      VerifyRight, CollectRefused, CollectCommit

\* What every step of a request does to the offers.
LEMMA OffersStep ==
  ASSUME TypeOK, NEW r \in Requests, OfferWork(r),
         \/ StatusCalls(r) \/ OfferCalls(r) \/ PickupCalls(r)
         \/ Continue(r) \/ Abort(r)
  PROVE  \/ SameKinds
         \/ /\ pc[r] = "status" /\ ChangeStatusCommit(r)
            /\ mem[r].offer # NoOffer /\ Insert(mem[r].offer)
<1>1. CASE UNCHANGED offers
  BY <1>1 DEF SameKinds, Live
<1>2. CASE StatusCalls(r) \/ OfferCalls(r) \/ PickupCalls(r) \/ Abort(r)
  <2>1. ChangesStatus(r) => UNCHANGED offers
    BY ChangesStatusWork
  <2>2. ASSUME NEW row, NEW then, LoadCase(r, row, then) PROVE UNCHANGED offers
    BY <2>2 DEF LoadCase, tables
  <2>3. StatusCalls(r) => UNCHANGED offers
    <3>1. AddInternalNote(r) => UNCHANGED offers
      BY DEF AddInternalNote, CreateHistoryEntry
    <3>2. QED
      BY <2>1, <2>2, <3>1
      DEF StatusCalls, ChangesStatus, Update, Reopen, StartPartsWaiting,
          ReceivePartsWaiting
  <2>4. QED
    BY <1>1, <1>2, <2>3, OfferCallsHoldConfirmed, PickupCallsHoldConfirmed
    DEF Abort, tables
<1>3. CASE ChangeStatusCommit(r)
  BY <1>1, <1>3 DEF ChangeStatusCommit
<1>4. CASE WriteOffer(r)
  <2> DEFINE key == mem[r].key
  <2>1. /\ key \in Live /\ mem[r].offer.status \in PaymentStatus
        /\ key \in Offers /\ offers[key] \in CasePayment
        /\ offers[key].status \in PaymentStatus
    BY <1>4 DEF WriteOffer, OfferWork, Live, TypeOK
  <2>2. offers' = [offers EXCEPT ![key] = Overwritten(offers[key], r)]
    BY <1>4, <2>1 DEF WriteOffer
  <2>3. /\ Overwritten(offers[key], r).type = offers[key].type
        /\ Overwritten(offers[key], r).status \in PaymentStatus
    BY <2>1, OverwrittenFields
  <2>4. ASSUME NEW o \in Offers
        PROVE  /\ offers'[o].type = offers[o].type
               /\ offers'[o].status \in PaymentStatus
                    <=> offers[o].status \in PaymentStatus
    <3> HIDE DEF key
    <3> QED BY <2>1, <2>2, <2>3 DEF TypeOK
  <2>5. QED
    BY <2>4 DEF SameKinds, Live
<1>5. CASE /\ Continue(r) /\ ~ChangeStatusCommit(r) /\ ~WriteOffer(r)
           /\ ~InsertOffer(r) /\ ~InsertAgain(r) /\ ~DeleteOffer(r)
  <2>1. UNCHANGED offers
    BY <1>5
    DEF Continue, Issue, LoadCompleted, ResetForReopen, SaveCase, WriteCase, SaveOffer,
        IssueRefused, SaveCaseFails, ReopenNote, PartsNote, CreateHistoryEntry,
        PickupSaveFails, IssueAlreadyCollected, IssueCommit, VerifyRefused, VerifyWrong,
        VerifyRight, CollectRefused, CollectCommit, tables
  <2>2. QED
    BY <1>1, <2>1
<1>6. ~InsertOffer(r) /\ ~InsertAgain(r) /\ ~DeleteOffer(r)
  BY DEF InsertOffer, InsertAgain, DeleteOffer, OfferWork
<1>7. QED
  BY <1>2, <1>3, <1>4, <1>5, <1>6

\* An inserted offer is one more, and keeps the others.
LEMMA InsertKinds ==
  ASSUME TypeOK, NEW offer \in CasePayment, offer.status \in PaymentStatus, Insert(offer)
  PROVE  \E o \in Offers : /\ o \notin Live /\ Live' = Live \cup {o}
                           /\ offers'[o] = offer
                           /\ \A p \in Live : offers'[p] = offers[p]
<1>1. PICK o \in Offers : /\ offers[o].status = "absent"
                          /\ offers' = [offers EXCEPT ![o] = offer]
  BY DEF Insert
<1>2. o \notin Live
  BY <1>1 DEF Live, PaymentStatus
<1>3. QED
  BY <1>1, <1>2 DEF Live, TypeOK

OneOfferInv ==
  OnlyStatusMakesOffers => OneOfferPerType /\ \A r \in Requests : OfferWork(r)

\* Every step keeps one offer of each type.
LEMMA OneOfferInvStep ==
  ASSUME TypeOK, PaidIsConfirmed, [Next]_vars, \A q \in Requests : LockHeld(q), OneOfferInv
  PROVE  OneOfferInv'
<1> SUFFICES ASSUME OnlyStatusMakesOffers
             PROVE  OneOfferPerType' /\ \A q \in Requests : OfferWork(q)'
  BY DEF OneOfferInv
<1>1. CASE UNCHANGED <<pc, mem, offers>>
  BY <1>1 DEF OneOfferInv, OneOfferPerType, OfferWork, OffersOf, Live
<1>2. ASSUME NEW r \in Requests,
             \/ StatusCalls(r) \/ OfferCalls(r) \/ PickupCalls(r)
             \/ Continue(r) \/ Abort(r)
      PROVE  OneOfferPerType' /\ \A q \in Requests : OfferWork(q)'
  <2>1. OfferWork(r)'
    <3>1. CASE StatusCalls(r)
      <4>1. CASE ChangesStatus(r) /\ pc'[r] = "status"
        <5>1. offers' = offers => \A type : OffersOf(type)' = OffersOf(type)
          BY DEF OffersOf, Live
        <5>2. QED
          BY <4>1, <5>1, ChangesStatusWork DEF OfferWork, OffersOf, Live
      <4>2. CASE pc'[r] \in {"save", "idle"}
        BY <4>2 DEF OfferWork
      <4>3. QED
        BY <3>1, <4>1, <4>2, StatusCallsEnter
    <3>2. CASE OfferCalls(r)
      BY <3>2, OfferCallsWork
    <3>3. CASE PickupCalls(r)
      BY <3>3, GotoOne
      DEF PickupCalls, Issue, Verify, CollectWithoutPin, LoadCompleted, OfferWork
    <3>4. CASE Continue(r) \/ Abort(r)
      BY <3>4, ContinueWork DEF OneOfferInv
    <3>5. QED
      BY <1>2, <3>1, <3>2, <3>3, <3>4
  <2>2. CASE SameKinds
    <3>1. OneOfferPerType'
      BY <2>2 DEF SameKinds, OneOfferInv, OneOfferPerType
    <3>2. ASSUME NEW q \in Requests, q # r PROVE OfferWork(q)'
      <4>1. pc'[q] = pc[q] /\ mem'[q] = mem[q] /\ OfferWork(q)
        BY <1>2, <3>2, RequestPays DEF OthersWait, OneOfferInv
      <4>2. QED
        BY <2>2, <4>1 DEF OfferWork, SameKinds, OffersOf
    <3>3. QED
      BY <2>1, <3>1, <3>2
  <2>3. CASE /\ pc[r] = "status" /\ ChangeStatusCommit(r)
             /\ mem[r].offer # NoOffer /\ Insert(mem[r].offer)
    <3>1. /\ mem[r].offer \in CasePayment
          /\ mem[r].offer.status \in PaymentStatus /\ OffersOf(mem[r].offer.type) = {}
      BY <2>3 DEF OneOfferInv, OfferWork, PaymentStatus, TypeOK, Memory
    <3>2. PICK o \in Offers : /\ o \notin Live /\ Live' = Live \cup {o}
                              /\ offers'[o] = mem[r].offer
                              /\ \A p \in Live : offers'[p] = offers[p]
      BY <2>3, <3>1, InsertKinds
    <3>3. OneOfferPerType'
      BY <3>1, <3>2 DEF OneOfferInv, OneOfferPerType, OffersOf
    <3>4. ASSUME NEW q \in Requests, q # r PROVE OfferWork(q)'
      <4>1. pc'[q] = pc[q] /\ mem'[q] = mem[q] /\ OfferWork(q)
        BY <1>2, <3>4, RequestPays DEF OthersWait, OneOfferInv
      <4>2. pc[q] # "status"
        BY <2>3, <3>4 DEF LockHeld
      <4>3. QED
        BY <3>2, <4>1, <4>2 DEF OfferWork
    <3>5. QED
      BY <2>1, <3>3, <3>4
  <2>4. QED
    BY <1>2, <2>2, <2>3, OffersStep DEF OneOfferInv
<1>3. QED
  BY <1>1, <1>2 DEF Next, vars, Clock, PinExpires, LockoutEnds, ghosts

(* Status changes running at once leave one offer of each type, for any number of
   requests: the look for an offer and its insertion are under one lock. *)
THEOREM OneOfferOfEachType == Spec => []OneOfferPerType
<1> DEFINE Held == \A r \in Requests : LockHeld(r)
<1>1. Init => OneOfferInv
  BY DEF Init, OneOfferInv, OneOfferPerType, OfferWork, Live, Absent, PaymentStatus
<1>2. TypeOK /\ PaidIsConfirmed /\ Held /\ OneOfferInv /\ [Next]_vars => OneOfferInv'
  BY OneOfferInvStep
<1>3. OneOfferInv => OneOfferPerType
  BY DEF OneOfferInv, OneOfferPerType
<1> HIDE DEF Held
<1>4. Spec => []Held
  BY LockStaysHeld DEF Held
<1>5. QED
  BY <1>1, <1>2, <1>3, <1>4, TypeCorrect, PaidStaysConfirmed, PTL DEF Spec
-----------------------------------------------------------------------------
(* Requests wait for the lock on the case row only; who holds it can go on. *)

\* The row that comes next in case_payments.
NextKey(o) ==
  /\ offers[o].status = "absent"
  /\ \A p \in Offers : p < o => offers[p].status # "absent"

\* The holder is between the halves of changeStatus or of a collection, and the
\* row it is to insert there is still to be had.
HoldersCanGoOn ==
  /\ lock # Nobody => pc[lock] \in {"status", "collecting"}
  /\ \A r \in Inserting : \E o \in Offers : NextKey(o)

\* Only a request at a step that needs the lock has it.
LockUsed(r) == lock = r => pc[r] \in {"status", "collecting"}

\* A request knows the key of a row that was inserted once, and the offer it is
\* about to insert or to save is one.
OfferKept(r) ==
  /\ pc[r] \in {"saveOffer", "confirmOffer", "writeOffer", "insertAgain", "deleteOffer"}
       => mem[r].key \in Offers /\ offers[mem[r].key].status # "absent"
  /\ pc[r] \in {"saveOffer", "confirmOffer", "writeOffer", "insertAgain"}
       => mem[r].offer.status \in PaymentStatus
  /\ pc[r] = "status" => mem[r].offer = NoOffer \/ mem[r].offer.status = "pending"
  /\ pc[r] = "insertOffer" => mem[r].offer.status = "pending"

AbsentOffers == {o \in Offers : offers[o].status = "absent"}
OffersSetAside == Cardinality(AbsentOffers) >= Cardinality(Inserting)

\* A step takes the lock for a request that needs it, gives it up or leaves it.
LEMMA LockMoves ==
  ASSUME TypeOK, NEW r \in Requests, LockHeld(r),
         \/ StatusCalls(r) \/ OfferCalls(r) \/ PickupCalls(r)
         \/ Continue(r) \/ Abort(r)
  PROVE  \/ pc[r] = "idle" /\ UNCHANGED lock
         \/ lock' = r /\ pc'[r] \in {"status", "collecting"}
         \/ pc[r] \notin {"idle", "status", "collecting"} /\ UNCHANGED lock
         \/ UnlockCase(r)
<1>1. ChangesStatus(r) => LockCase(r)
  BY DEF ChangesStatus, ChangeStatus
<1>2. CollectWithoutPin(r) => LockCase(r)
  BY DEF CollectWithoutPin
<1>3. CASE StatusCalls(r) \/ OfferCalls(r) \/ PickupCalls(r)
  BY <1>1, <1>2, <1>3, CallsAreIdle, StatusCallsEnter, OtherCallsEnter DEF LockCase
<1>4. CASE (Continue(r) \/ Abort(r)) /\ pc[r] \in {"status", "collecting"}
  BY <1>4
  DEF Continue, Abort, ChangeStatusCommit, Issue, IssueRefused, ResetForReopen, SaveCase,
      SaveCaseFails, WriteCase, ReopenNote, PartsNote, InsertOffer, SaveOffer, WriteOffer,
      InsertAgain, DeleteOffer, PickupSaveFails, IssueAlreadyCollected, IssueCommit,
      VerifyRefused, VerifyWrong, VerifyRight, CollectRefused, CollectCommit
<1>5. CASE (Continue(r) \/ Abort(r)) /\ pc[r] \notin {"status", "collecting"}
  BY <1>5, ContinueReleases
<1>6. QED
  BY <1>3, <1>4, <1>5

\* So no request keeps the lock when it is done with it.
LEMMA LockUsedStep ==
  ASSUME TypeOK, PaidIsConfirmed, [Next]_vars,
         \A q \in Requests : LockHeld(q), \A q \in Requests : LockUsed(q)
  PROVE  \A q \in Requests : LockUsed(q)'
<1>1. CASE UNCHANGED <<pc, lock>>
  BY <1>1 DEF LockUsed
<1>2. ASSUME NEW r \in Requests,
             \/ StatusCalls(r) \/ OfferCalls(r) \/ PickupCalls(r)
             \/ Continue(r) \/ Abort(r)
      PROVE  \A q \in Requests : LockUsed(q)'
  <2>1. \A q \in Requests : q # r => pc'[q] = pc[q]
    BY <1>2, RequestPays DEF OthersWait
  <2>2. CASE lock' = r /\ pc'[r] \in {"status", "collecting"}
    BY <2>2 DEF LockUsed
  <2>3. CASE UnlockCase(r)
    BY <2>1, <2>3, NobodyAssumption DEF UnlockCase, LockUsed
  <2>4. CASE pc[r] \notin {"status", "collecting"} /\ UNCHANGED lock
    BY <2>1, <2>4 DEF LockUsed
  <2>5. QED
    BY <1>2, <2>2, <2>3, <2>4, LockMoves
<1>3. QED
  BY <1>1, <1>2 DEF Next, vars, Clock, PinExpires, LockoutEnds

\* An offer that is loaded is in the table.
LEMMA LoadOfferKept ==
  ASSUME TypeOK, NEW r \in Requests, NEW o \in Live, NEW entity \in CasePayment,
         NEW step \in {"saveOffer", "confirmOffer", "deleteOffer"},
         LoadOffer(r, o, entity, step),
         step # "deleteOffer" => entity.status \in PaymentStatus
  PROVE  OfferKept(r)' /\ offers' = offers /\ pc'[r] = step
<1> DEFINE keyed == [Blank EXCEPT !.key = o]
           held == [keyed EXCEPT !.offer = entity]
<1>1. keyed \in Memory /\ keyed.key = o /\ o \in Offers
  BY BlankType, MaxOffersAssumption DEF Memory, Offers, Live
<1>2. held.offer = entity /\ held.key = o
  <2> HIDE DEF keyed
  <2> QED BY <1>1 DEF Memory
<1>3. Hold(r, held) /\ Goto(r, step) /\ offers' = offers
  BY DEF LoadOffer, tables
<1> HIDE DEF held
<1>4. pc'[r] = step /\ mem'[r] = held
  BY <1>3, GotoOne, HoldOne
<1>5. offers[o].status # "absent"
  BY DEF Live, PaymentStatus
<1>6. QED
  BY <1>1, <1>2, <1>3, <1>4, <1>5 DEF OfferKept

\* Every call on an offer holds a row of the table, or one there is room for.
LEMMA OfferCallsKept ==
  ASSUME TypeOK, NEW r \in Requests, OfferCalls(r)
  PROVE  /\ OfferKept(r)' /\ offers' = offers
         /\ \/ pc'[r] = "insertOffer" /\ RoomForOffer
            \/ pc'[r] \notin {"status", "insertOffer"}
<1>1. CASE \E type \in Results, amount \in Amounts : CreateOffer(r, type, amount)
  <2>1. PICK type \in Results, amount \in Amounts : CreateOffer(r, type, amount)
    BY <1>1
  <2> DEFINE offer == [type |-> type, status |-> "pending", amount |-> amount]
             held == [Blank EXCEPT !.offer = offer]
  <2>2. held.offer = offer
    <3> HIDE DEF offer
    <3> QED BY BlankType DEF Memory
  <2>3. offer.status = "pending"
    OBVIOUS
  <2>4. Hold(r, held) /\ Goto(r, "insertOffer") /\ offers' = offers /\ RoomForOffer
    BY <2>1 DEF CreateOffer, tables
  <2> HIDE DEF held, offer
  <2>5. QED
    BY <2>2, <2>3, <2>4, GotoOne, HoldOne DEF OfferKept
<1>2. ASSUME NEW o \in Live,
             \/ \E amount \in Amounts : UpdateOffer(r, o, amount)
             \/ MarkAsPaid(r, o) \/ MarkAsFailed(r, o)
             \/ SendPaymentReminder(r, o) \/ InitiatePayment(r, o)
             \/ HandleCallback(r, o, "completed") \/ HandleCallback(r, o, "failed")
             \/ Remove(r, o)
      PROVE  OfferKept(r)' /\ offers' = offers /\ pc'[r] \notin {"status", "insertOffer"}
  <2>1. /\ o \in Offers /\ offers[o] \in CasePayment /\ offers[o].status \in PaymentStatus
        /\ "paid" \in PaymentStatus /\ "failed" \in PaymentStatus
    BY DEF Live, PaymentStatus, TypeOK
  <2>2. ASSUME NEW entity \in CasePayment, entity.status \in PaymentStatus,
               NEW step \in {"saveOffer", "confirmOffer"}, LoadOffer(r, o, entity, step)
        PROVE  OfferKept(r)' /\ offers' = offers /\ pc'[r] \notin {"status", "insertOffer"}
    BY <2>2, LoadOfferKept
  <2>3. ASSUME NEW status \in {"paid", "failed"}
        PROVE  [offers[o] EXCEPT !.status = status].status \in PaymentStatus
    BY <2>1 DEF CasePayment
  <2>4. ASSUME NEW amount \in Amounts
        PROVE  [offers[o] EXCEPT !.amount = amount].status \in PaymentStatus
    BY <2>1 DEF CasePayment
  <2>5. CASE \E amount \in Amounts : UpdateOffer(r, o, amount)
    BY <2>1, <2>2, <2>4, <2>5, OfferChangeType DEF UpdateOffer
  <2>6. CASE MarkAsPaid(r, o) \/ HandleCallback(r, o, "completed")
    BY <2>1, <2>2, <2>3, <2>6, OfferChangeType DEF MarkAsPaid, HandleCallback
  <2>7. CASE MarkAsFailed(r, o) \/ HandleCallback(r, o, "failed")
    BY <2>1, <2>2, <2>3, <2>7, OfferChangeType DEF MarkAsFailed, HandleCallback
  <2>8. CASE SendPaymentReminder(r, o) \/ InitiatePayment(r, o)
    BY <2>1, <2>2, <2>8 DEF SendPaymentReminder, InitiatePayment
  <2>9. CASE Remove(r, o)
    BY <2>9, RowTypes, LoadOfferKept DEF Remove
  <2>10. QED
    BY <1>2, <2>5, <2>6, <2>7, <2>8, <2>9
<1>3. QED
  BY <1>1, <1>2 DEF OfferCalls

\* An accepted request keeps the offer it holds until it is done with it.
LEMMA ContinueKept ==
  ASSUME TypeOK, NEW r \in Requests, LockHeld(r), OfferKept(r), Continue(r) \/ Abort(r)
  PROVE  OfferKept(r)' /\ pc'[r] \notin {"status", "insertOffer"}
<1>1. CASE SaveOffer(r)
  <2> DEFINE changed == Changed(mem[r].offer, offers[mem[r].key], OfferColumns)
             held == [mem[r] EXCEPT !.then = pc[r], !.dirty = changed]
  <2>1. held.offer = mem[r].offer /\ held.key = mem[r].key
    <3> HIDE DEF changed
    <3> QED BY DEF TypeOK, Memory
  <2>2. \E step \in {"writeOffer", "insertAgain"} : Goto(r, step)
    BY <1>1 DEF SaveOffer
  <2>3. Hold(r, held) /\ offers' = offers /\ pc[r] \in {"saveOffer", "confirmOffer"}
    BY <1>1 DEF SaveOffer, tables
  <2> HIDE DEF held
  <2>4. pc'[r] \in {"writeOffer", "insertAgain"} /\ mem'[r] = held
    BY <2>2, <2>3, GotoOne, HoldOne
  <2>5. QED
    BY <2>1, <2>3, <2>4 DEF OfferKept
<1>2. ASSUME pc'[r] \in {"idle", "reset", "issue", "write", "partsNote", "reopenReset",
                         "reopenNote", "issuing"}
      PROVE  OfferKept(r)' /\ pc'[r] \notin {"status", "insertOffer"}
  BY <1>2 DEF OfferKept
<1>3. CASE Return(r)
  BY <1>2, <1>3, GotoOne DEF Return
<1>4. CASE ChangeStatusCommit(r)
  <2>1. \E step \in {"reset", "issue", "idle"} : Goto(r, step)
    BY <1>4 DEF ChangeStatusCommit
  <2>2. QED
    BY <1>2, <2>1, GotoOne
<1>5. CASE Issue(r)
  BY <1>2, <1>5, GotoOne DEF Issue, LoadCompleted
<1>6. CASE ResetForReopen(r)
  <2>1. \E step \in {"idle", "reopenNote"} : Goto(r, step)
    BY <1>6 DEF ResetForReopen
  <2>2. QED
    BY <1>2, <2>1, GotoOne
<1>7. CASE SaveCase(r)
  BY <1>2, <1>7, GotoOne DEF SaveCase
<1>8. CASE WriteCase(r)
  BY <1>2, <1>8, GotoOne DEF WriteCase, LockHeld
<1>9. QED
  BY <1>1, <1>3, <1>4, <1>5, <1>6, <1>7, <1>8
  DEF Continue, Abort, IssueRefused, SaveCaseFails, ReopenNote, PartsNote,
      CreateHistoryEntry, InsertOffer, WriteOffer, InsertAgain, DeleteOffer,
      PickupSaveFails, IssueAlreadyCollected, IssueCommit, VerifyRefused, VerifyWrong,
      VerifyRight, CollectRefused, CollectCommit

\* Only where there is room is an offer set aside for insertion.
LEMMA RequestKept ==
  ASSUME TypeOK, NEW r \in Requests, LockHeld(r), OfferKept(r),
         \/ StatusCalls(r) \/ OfferCalls(r) \/ PickupCalls(r)
         \/ Continue(r) \/ Abort(r)
  PROVE  /\ OfferKept(r)'
         /\ pc'[r] \in {"status", "insertOffer"}
              => offers' = offers /\ (RoomForOffer \/ mem'[r].offer = NoOffer)
<1>1. CASE StatusCalls(r)
  <2>1. CASE ChangesStatus(r) /\ pc'[r] = "status"
    <3>1. /\ offers' = offers /\ (RoomForOffer \/ mem'[r].offer = NoOffer)
          /\ mem'[r].offer = NoOffer \/ mem'[r].offer.status = "pending"
      BY <2>1, ChangesStatusWork
    <3>2. QED
      BY <2>1, <3>1 DEF OfferKept
  <2>2. CASE pc'[r] \in {"save", "idle"}
    BY <2>2 DEF OfferKept
  <2>3. QED
    BY <1>1, <2>1, <2>2, StatusCallsEnter
<1>2. CASE OfferCalls(r)
  BY <1>2, OfferCallsKept
<1>3. CASE PickupCalls(r)
  <2>1. \E step \in {"issuing", "verifying", "collecting"} : Goto(r, step)
    BY <1>3 DEF PickupCalls, Issue, Verify, CollectWithoutPin, LoadCompleted
  <2>2. QED
    BY <2>1, GotoOne DEF OfferKept
<1>4. CASE Continue(r) \/ Abort(r)
  BY <1>4, ContinueKept
<1>5. QED
  BY <1>1, <1>2, <1>3, <1>4

\* A step uses up a key only to insert an offer that was set aside for it.
LEMMA KeysStep ==
  ASSUME TypeOK, NEW r \in Requests, LockHeld(r), OfferKept(r),
         \/ StatusCalls(r) \/ OfferCalls(r) \/ PickupCalls(r)
         \/ Continue(r) \/ Abort(r)
  PROVE  \/ AbsentOffers' = AbsentOffers
         \/ /\ r \in Inserting /\ pc'[r] \notin {"status", "insertOffer"}
            /\ \E o \in AbsentOffers : AbsentOffers' = AbsentOffers \ {o}
<1>1. CASE UNCHANGED offers
  BY <1>1 DEF AbsentOffers
<1>2. ASSUME NEW offer \in CasePayment, offer.status # "absent", Insert(offer)
      PROVE  \E o \in AbsentOffers : AbsentOffers' = AbsentOffers \ {o}
  BY <1>2 DEF Insert, AbsentOffers, TypeOK
<1>3. ASSUME NEW key \in Offers, NEW offer \in CasePayment,
             offers[key].status # "absent", offer.status # "absent",
             offers' = [offers EXCEPT ![key] = offer]
      PROVE  AbsentOffers' = AbsentOffers
  BY <1>3 DEF AbsentOffers, TypeOK
<1>4. mem[r].offer \in CasePayment
  BY DEF TypeOK, Memory
<1>5. CASE ChangeStatusCommit(r)
  <2>1. CASE mem[r].offer = NoOffer
    BY <1>1, <1>5, <2>1 DEF ChangeStatusCommit
  <2>2. CASE mem[r].offer # NoOffer
    <3>1. mem[r].offer.status = "pending" /\ Insert(mem[r].offer) /\ r \in Inserting
      BY <1>5, <2>2 DEF ChangeStatusCommit, OfferKept, Inserting
    <3>2. pc'[r] \notin {"status", "insertOffer"}
      BY <1>5, ContinueKept DEF Continue
    <3>3. QED
      BY <1>2, <1>4, <3>1, <3>2
  <2>3. QED
    BY <2>1, <2>2
<1>6. CASE InsertOffer(r)
  <2>1. mem[r].offer.status = "pending" /\ Insert(mem[r].offer) /\ r \in Inserting
    BY <1>6 DEF InsertOffer, OfferKept, Inserting
  <2>2. pc'[r] \notin {"status", "insertOffer"}
    BY <1>6, ContinueKept DEF Continue
  <2>3. QED
    BY <1>2, <1>4, <2>1, <2>2
<1>7. CASE WriteOffer(r) \/ InsertAgain(r) \/ DeleteOffer(r)
  <2> DEFINE key == mem[r].key
  <2>1. /\ key \in Offers /\ offers[key].status # "absent" /\ offers[key] \in CasePayment
        /\ ~DeleteOffer(r) => mem[r].offer.status \in PaymentStatus
    BY <1>7 DEF OfferKept, WriteOffer, InsertAgain, DeleteOffer, TypeOK
  <2>2. CASE WriteOffer(r) /\ key \in Live
    <3>1. offers' = [offers EXCEPT ![key] = Overwritten(offers[key], r)]
      BY <2>2 DEF WriteOffer
    <3>2. /\ Overwritten(offers[key], r) \in CasePayment
          /\ Overwritten(offers[key], r).status # "absent"
      <4>1. mem[r].offer.status # "absent"
        BY <2>1, <2>2 DEF WriteOffer, OfferKept, DeleteOffer, PaymentStatus
      <4> HIDE DEF key
      <4>2. QED
        BY <2>1, <4>1, OverwrittenFields, OverwrittenType
    <3>3. QED
      <4> HIDE DEF key
      <4> QED BY <1>3, <2>1, <3>1, <3>2
  <2>3. CASE InsertAgain(r) /\ key \notin Live
    <3>1. offers' = [offers EXCEPT ![key] = mem[r].offer]
      BY <2>3 DEF InsertAgain
    <3>2. mem[r].offer.status # "absent"
      BY <2>1, <2>3 DEF InsertAgain, OfferKept, PaymentStatus
    <3>3. QED
      <4> HIDE DEF key
      <4> QED BY <1>3, <1>4, <2>1, <3>1, <3>2
  <2>4. CASE DeleteOffer(r)
    <3>1. offers' = [offers EXCEPT ![key] = Removed]
      BY <2>4 DEF DeleteOffer
    <3>2. Removed \in CasePayment /\ Removed.status # "absent"
      BY RowTypes DEF Removed, Absent, CasePayment, ResultType, PaymentStatus
    <3>3. QED
      <4> HIDE DEF key
      <4> QED BY <1>3, <2>1, <3>1, <3>2
  <2>5. CASE (WriteOffer(r) /\ key \notin Live) \/ (InsertAgain(r) /\ key \in Live)
    <3>1. offers' = [offers EXCEPT ![key] = offers[key]]
      BY <2>5 DEF WriteOffer, InsertAgain
    <3>2. QED
      <4> HIDE DEF key
      <4> QED BY <1>3, <2>1, <3>1
  <2>6. QED
    BY <1>7, <2>2, <2>3, <2>4, <2>5
<1>8. CASE /\ Continue(r) \/ Abort(r)
           /\ ~ChangeStatusCommit(r) /\ ~InsertOffer(r) /\ ~WriteOffer(r)
           /\ ~InsertAgain(r) /\ ~DeleteOffer(r)
  <2>1. UNCHANGED offers
    BY <1>8
    DEF Continue, Abort, Issue, LoadCompleted, ResetForReopen, SaveCase, WriteCase,
        SaveOffer, IssueRefused, SaveCaseFails, ReopenNote, PartsNote,
        CreateHistoryEntry, PickupSaveFails, IssueAlreadyCollected, IssueCommit,
        VerifyRefused, VerifyWrong, VerifyRight, CollectRefused, CollectCommit, tables
  <2>2. QED
    BY <1>1, <2>1
<1>9. CASE StatusCalls(r)
  <2>1. ASSUME NEW row, NEW then, LoadCase(r, row, then) PROVE UNCHANGED offers
    BY <2>1 DEF LoadCase, tables
  <2>2. AddInternalNote(r) => UNCHANGED offers
    BY DEF AddInternalNote, CreateHistoryEntry
  <2>3. QED
    BY <1>1, <1>9, <2>1, <2>2, ChangesStatusWork
    DEF StatusCalls, ChangesStatus, Update, Reopen, StartPartsWaiting, ReceivePartsWaiting
<1>10. CASE OfferCalls(r)
  BY <1>1, <1>10, OfferCallsKept
<1>11. CASE PickupCalls(r)
  BY <1>1, <1>11
  DEF PickupCalls, Issue, Verify, CollectWithoutPin, LoadCompleted, tables
<1>12. QED
  BY <1>5, <1>6, <1>7, <1>8, <1>9, <1>10, <1>11

\* What a request holds stays in the table while others step.
LEMMA OfferKeptStep ==
  ASSUME TypeOK, PaidIsConfirmed, [Next]_vars,
         \A q \in Requests : LockHeld(q), \A q \in Requests : OfferKept(q)
  PROVE  \A q \in Requests : OfferKept(q)'
<1>1. CASE UNCHANGED <<pc, mem, offers>>
  BY <1>1 DEF OfferKept
<1>2. ASSUME NEW r \in Requests,
             \/ StatusCalls(r) \/ OfferCalls(r) \/ PickupCalls(r)
             \/ Continue(r) \/ Abort(r)
      PROVE  \A q \in Requests : OfferKept(q)'
  <2>1. OfferKept(r)'
    BY <1>2, RequestKept
  <2>2. AbsentOffers' \subseteq AbsentOffers
    BY <1>2, KeysStep
  <2>3. ASSUME NEW q \in Requests, q # r PROVE OfferKept(q)'
    <3>1. pc'[q] = pc[q] /\ mem'[q] = mem[q]
      BY <1>2, <2>3, RequestPays DEF OthersWait
    <3>2. QED
      BY <2>2, <3>1 DEF OfferKept, AbsentOffers
  <2>4. QED
    BY <2>1, <2>3
<1>3. QED
  BY <1>1, <1>2 DEF Next, vars, Clock, PinExpires, LockoutEnds, ghosts

\* The requests that insert are as finite as the requests, the keys always are.
LEMMA SetsAreFinite ==
  ASSUME IsFiniteSet(Requests)
  PROVE  /\ IsFiniteSet(Inserting) /\ IsFiniteSet(AbsentOffers)
         /\ Cardinality(Inserting) \in Nat /\ Cardinality(AbsentOffers) \in Nat
<1>1. IsFiniteSet(Offers)
  BY FS_Interval, MaxOffersAssumption DEF Offers
<1>2. Inserting \subseteq Requests /\ AbsentOffers \subseteq Offers
  BY DEF Inserting, AbsentOffers
<1>3. IsFiniteSet(Inserting) /\ IsFiniteSet(AbsentOffers)
  BY <1>1, <1>2, FS_Subset
<1>4. QED
  BY <1>3, FS_CardinalityType

\* Every step leaves a key for each request that will insert an offer.
LEMMA OffersSetAsideStep ==
  ASSUME IsFiniteSet(Requests), TypeOK, TypeOK', PaidIsConfirmed, [Next]_vars,
         \A q \in Requests : LockHeld(q), \A q \in Requests : OfferKept(q), OffersSetAside
  PROVE  OffersSetAside'
<1>1. CASE UNCHANGED <<pc, mem, offers>>
  BY <1>1 DEF OffersSetAside, Inserting, AbsentOffers
<1>2. ASSUME NEW r \in Requests,
             \/ StatusCalls(r) \/ OfferCalls(r) \/ PickupCalls(r)
             \/ Continue(r) \/ Abort(r)
      PROVE  OffersSetAside'
  <2>1. Inserting' \ {r} = Inserting \ {r}
    <3>1. \A q \in Requests : q # r => pc'[q] = pc[q] /\ mem'[q] = mem[q]
      BY <1>2, RequestPays DEF OthersWait
    <3>2. QED
      BY <3>1 DEF Inserting
  <2>2. /\ IsFiniteSet(Inserting) /\ IsFiniteSet(AbsentOffers)
        /\ Cardinality(Inserting) \in Nat /\ Cardinality(AbsentOffers) \in Nat
    BY SetsAreFinite
  <2>3. CASE AbsentOffers' = AbsentOffers /\ r \notin Inserting' \ Inserting
    <3>1. Inserting' \subseteq Inserting
      BY <2>1, <2>3
    <3>2. Cardinality(Inserting') \in Nat /\ Cardinality(Inserting') <= Cardinality(Inserting)
      BY <2>2, <3>1, FS_Subset, FS_CardinalityType
    <3>3. QED
      BY <2>2, <2>3, <3>2 DEF OffersSetAside
  <2>4. CASE AbsentOffers' = AbsentOffers /\ r \in Inserting' \ Inserting
    <3>1. RoomForOffer
      <4>1. pc'[r] \in {"status", "insertOffer"} /\ mem'[r].offer # NoOffer
        BY <2>4 DEF Inserting, NoOffer, Absent
      <4>2. QED
        BY <1>2, <4>1, RequestKept
    <3>2. Inserting' = Inserting \cup {r} /\ r \notin Inserting
      BY <2>1, <2>4
    <3>3. Cardinality(Inserting') = Cardinality(Inserting) + 1
      BY <2>2, <3>2, FS_AddElement
    <3>4. Cardinality(AbsentOffers) > Cardinality(Inserting)
      BY <3>1 DEF RoomForOffer, AbsentOffers
    <3>5. QED
      BY <2>2, <2>4, <3>3, <3>4 DEF OffersSetAside
  <2>5. ASSUME r \in Inserting, pc'[r] \notin {"status", "insertOffer"},
               NEW o \in AbsentOffers, AbsentOffers' = AbsentOffers \ {o}
        PROVE  OffersSetAside'
    <3>1. Inserting' = Inserting \ {r}
      BY <2>1, <2>5 DEF Inserting
    <3>2. /\ Cardinality(Inserting') = Cardinality(Inserting) - 1
          /\ Cardinality(AbsentOffers') = Cardinality(AbsentOffers) - 1
      BY <2>2, <2>5, <3>1, FS_RemoveElement
    <3>3. QED
      BY <2>2, <3>2 DEF OffersSetAside
  <2>6. QED
    BY <1>2, <2>3, <2>4, <2>5, KeysStep
<1>3. QED
  BY <1>1, <1>2 DEF Next, vars, Clock, PinExpires, LockoutEnds, ghosts

\* The order of keys, to have a least one.
Before == {pair \in Nat \X Nat : pair[1] < pair[2]}
LEMMA BeforeIsWellFounded == IsWellFoundedOn(Before, Nat)
  BY NatLessThanWellFounded DEF OpToRel, Before

\* Of the keys that are left one comes next.
LEMMA KeyIsLeft ==
  ASSUME IsFiniteSet(Requests), TypeOK, OffersSetAside, NEW r \in Inserting
  PROVE  \E o \in Offers : NextKey(o)
<1>1. Cardinality(Inserting) # 0
  BY SetsAreFinite, FS_EmptySet
<1>2. AbsentOffers # {}
  BY <1>1, SetsAreFinite, FS_EmptySet DEF OffersSetAside
<1>3. AbsentOffers \in SUBSET Nat
  BY MaxOffersAssumption DEF AbsentOffers, Offers
<1>4. PICK o \in AbsentOffers : \A p \in AbsentOffers : <<p, o>> \notin Before
  BY <1>2, <1>3, WFMin, BeforeIsWellFounded
<1>5. QED
  BY <1>3, <1>4, MaxOffersAssumption DEF Before, NextKey, AbsentOffers, Offers

(* No request waits for ever for one that is stuck: the lock on the case row is
   with a request that has steps left before it gives it back, whatever was refused,
   failed or died before, and it finds the row it is to insert. *)
THEOREM LockHoldersGoOn == IsFiniteSet(Requests) => (Spec => []HoldersCanGoOn)
<1>1. SUFFICES ASSUME IsFiniteSet(Requests) PROVE Spec => []HoldersCanGoOn
  OBVIOUS
<1> DEFINE Held == \A r \in Requests : LockHeld(r)
           Used == \A r \in Requests : LockUsed(r)
           Kept == \A r \in Requests : OfferKept(r)
<1>2. Init => Used /\ Kept /\ OffersSetAside
  <2>1. Init => Used /\ Kept
    BY NobodyAssumption DEF Init, LockUsed, OfferKept
  <2>2. Init => Inserting = {}
    BY DEF Init, Inserting
  <2>3. QED
    BY <1>1, <2>1, <2>2, SetsAreFinite, FS_EmptySet DEF OffersSetAside
<1>3. TypeOK /\ PaidIsConfirmed /\ Held /\ Used /\ [Next]_vars => Used'
  BY LockUsedStep
<1>4. TypeOK /\ PaidIsConfirmed /\ Held /\ Kept /\ [Next]_vars => Kept'
  BY OfferKeptStep
<1>5. /\ TypeOK /\ TypeOK' /\ PaidIsConfirmed /\ Held /\ Kept /\ OffersSetAside
      /\ [Next]_vars
      => OffersSetAside'
  BY <1>1, OffersSetAsideStep
<1>6. TypeOK /\ Used /\ OffersSetAside => HoldersCanGoOn
  BY <1>1, KeyIsLeft DEF HoldersCanGoOn, LockUsed, TypeOK
<1> HIDE DEF Held, Used, Kept
<1>7. Spec => []Held
  BY LockStaysHeld DEF Held
<1>8. QED
  BY <1>2, <1>3, <1>4, <1>5, <1>6, <1>7, TypeCorrect, PaidStaysConfirmed, PTL DEF Spec
=============================================================================
