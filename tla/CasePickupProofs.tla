-------------------------- MODULE CasePickupProofs ---------------------------
(***************************************************************************)
(* Handing devices back: technicians give a device out once and keep the   *)
(* promise of module Handover, a PIN that is issued once locks on a full   *)
(* count of wrong tries, and what was collected of a case that is open     *)
(* again is about to be cleared.                                           *)
(***************************************************************************)
EXTENDS CasePaymentProofs

USE DEF Steps, CaseStatusLevel, OPENED, INVESTIGATING, PENDING, COMPLETED

(* With technicians at the desk a device is handed back once. *)

\* Between the first read of a transaction of pickup.service and its end.
InPickup(r) == pc[r] \in {"issuing", "verifying", "collecting"}

\* A collection is never cleared, and counts as the one handover of its case.
GivenOnce ==
  ~Managers =>
    /\ handovers = IF pickup.collected THEN 1 ELSE 0
    /\ pickup.collected => case.status = COMPLETED
    /\ \A r \in Requests : InPickup(r) => case.status = COMPLETED
    /\ \A r \in Requests : pc[r] # "reset"

\* How a request comes to a step at which the pickup row is read or cleared.
LEMMA PickupEntered ==
  ASSUME TypeOK, PaidIsConfirmed, [Next]_vars, \A q \in Requests : LockHeld(q),
         NEW r \in Requests, pc'[r] # pc[r]
  PROVE  /\ InPickup(r)' => case.status = COMPLETED /\ case' = case
         /\ pc'[r] = "reset" => case.status = COMPLETED /\ case'.status < COMPLETED
<1>1. ~UNCHANGED pc
  OBVIOUS
<1>2. PICK q \in Requests :
        \/ StatusCalls(q) \/ OfferCalls(q) \/ PickupCalls(q)
        \/ Continue(q) \/ Abort(q)
  BY <1>1 DEF Next, vars, Clock, PinExpires, LockoutEnds
<1>3. q = r
  BY <1>2, RequestPays DEF OthersWait
<1>4. CASE StatusCalls(r)
  BY <1>4, StatusCallsEnter DEF InPickup
<1>5. CASE OfferCalls(r)
  <2>1. ASSUME NEW type \in Results, NEW amount \in Amounts, CreateOffer(r, type, amount)
        PROVE  pc'[r] \notin {"issuing", "verifying", "collecting", "reset"}
    BY <2>1, GotoOne DEF CreateOffer
  <2>2. ASSUME NEW o, NEW entity, NEW step \in {"saveOffer", "confirmOffer", "deleteOffer"},
               LoadOffer(r, o, entity, step)
        PROVE  pc'[r] \notin {"issuing", "verifying", "collecting", "reset"}
    BY <2>2, GotoOne DEF LoadOffer
  <2>3. QED
    BY <1>5, <2>1, <2>2
    DEF OfferCalls, UpdateOffer, MarkAsPaid, MarkAsFailed, SendPaymentReminder,
        InitiatePayment, HandleCallback, Remove, InPickup
<1>6. CASE PickupCalls(r) \/ Issue(r)
  BY <1>6, GotoOne
  DEF PickupCalls, Issue, Verify, CollectWithoutPin, CompletedCase, LoadCompleted, tables,
      InPickup
<1>7. CASE Return(r)
  BY <1>7, GotoOne DEF Return, InPickup
<1>8. CASE ChangeStatusCommit(r)
  BY <1>8, GotoOne DEF ChangeStatusCommit, InPickup
<1>9. CASE ResetForReopen(r) \/ SaveOffer(r) \/ SaveCase(r) \/ WriteCase(r)
  BY <1>9, GotoOne DEF ResetForReopen, SaveOffer, SaveCase, WriteCase, LockHeld, InPickup
<1>10. QED
  BY <1>2, <1>3, <1>4, <1>5, <1>6, <1>7, <1>8, <1>9
  DEF Continue, Abort, IssueRefused, SaveCaseFails, ReopenNote, PartsNote,
      CreateHistoryEntry, InsertOffer, WriteOffer, InsertAgain, DeleteOffer,
      PickupSaveFails, IssueAlreadyCollected, IssueCommit, VerifyRefused, VerifyWrong,
      VerifyRight, CollectRefused, CollectCommit

\* Who gives a device out, or clears that it was given out.
LEMMA CollectedSteps ==
  ASSUME TypeOK, [Next]_vars
  PROVE  \/ /\ pickup'.collected = pickup.collected
            /\ handovers' = handovers \/ CountHandovers
         \/ \E r \in Requests : pc[r] \in {"reset", "reopenReset"}
         \/ /\ \E r \in Requests : InPickup(r)
            /\ ~pickup.collected /\ pickup'.collected
            /\ handovers' = handovers + 1 /\ case' = case
<1>1. CASE UNCHANGED <<pickup, handovers>>
  BY <1>1
<1>2. CASE Clock
  BY <1>2 DEF Clock, PinExpires, LockoutEnds, TypeOK, CasePickup, ghosts
<1>3. ASSUME NEW r \in Requests, VerifyRight(r) \/ CollectCommit(r)
      PROVE  /\ InPickup(r)
             /\ ~pickup.collected /\ pickup'.collected
             /\ handovers' = handovers + 1 /\ case' = case
  BY <1>3 DEF VerifyRight, Verifiable, SavePickup, CollectCommit, Collectable, InPickup,
              TypeOK, CasePickup
<1>4. ASSUME NEW r \in Requests, IssueCommit(r) \/ VerifyWrong(r)
      PROVE  pickup'.collected = pickup.collected /\ handovers' = handovers
  BY <1>4 DEF IssueCommit, VerifyWrong, SavePickup, TypeOK, CasePickup
<1>5. ASSUME NEW r \in Requests, WriteCase(r) \/ ChangeStatusCommit(r)
      PROVE  pickup' = pickup /\ CountHandovers
  BY <1>5 DEF WriteCase, ChangeStatusCommit
<1>6. ASSUME NEW r \in Requests, ResetForReopen(r)
      PROVE  pc[r] \in {"reset", "reopenReset"}
  BY <1>6 DEF ResetForReopen
<1>7. ASSUME NEW r \in Requests, Continue(r), ~VerifyRight(r), ~CollectCommit(r),
             ~IssueCommit(r), ~VerifyWrong(r), ~WriteCase(r), ~ChangeStatusCommit(r),
             ~ResetForReopen(r)
      PROVE  UNCHANGED <<pickup, handovers>>
  BY <1>7
  DEF Continue, Issue, LoadCompleted, SaveCase, SaveOffer, IssueRefused, SaveCaseFails,
      ReopenNote, PartsNote, CreateHistoryEntry, InsertOffer, WriteOffer, InsertAgain,
      DeleteOffer, PickupSaveFails, IssueAlreadyCollected, VerifyRefused, CollectRefused,
      tables, ghosts
<1>8. ASSUME NEW r \in Requests,
             StatusCalls(r) \/ OfferCalls(r) \/ PickupCalls(r) \/ Abort(r)
      PROVE  UNCHANGED <<pickup, handovers>>
  <2>1. CASE ChangesStatus(r)
    <3>1. UNCHANGED <<tables, ghosts>>
      BY <2>1 DEF ChangesStatus, ChangeStatus
    <3>2. QED
      BY <3>1 DEF tables, ghosts
  <2>2. CASE \E row, then : LoadCase(r, row, then)
    BY <2>2 DEF LoadCase, tables, ghosts
  <2>3. CASE AddInternalNote(r)
    BY <2>3 DEF AddInternalNote, CreateHistoryEntry, ghosts
  <2>4. CASE StatusCalls(r)
    BY <2>1, <2>2, <2>3, <2>4
    DEF StatusCalls, ChangesStatus, Update, Reopen, StartPartsWaiting, ReceivePartsWaiting
  <2>5. CASE OfferCalls(r) \/ PickupCalls(r) \/ Abort(r)
    BY <2>5, OfferCallsHoldConfirmed, PickupCallsHoldConfirmed DEF Abort, tables, ghosts
  <2>6. QED
    BY <1>8, <2>4, <2>5
<1>9. QED
  BY <1>1, <1>2, <1>3, <1>4, <1>5, <1>6, <1>7, <1>8 DEF Next, vars

\* Every step keeps it, since no technician's step takes the case back.
LEMMA GivenOnceStep ==
  ASSUME TypeOK, TypeOK', PaidIsConfirmed, StagesKept, GivenOnce, [Next]_vars,
         \A r \in Requests : LockHeld(r) /\ GoesForward(r)
  PROVE  GivenOnce'
<1> SUFFICES ASSUME ~Managers
             PROVE  /\ handovers' = IF pickup'.collected THEN 1 ELSE 0
                    /\ pickup'.collected => case'.status = COMPLETED
                    /\ \A r \in Requests : InPickup(r)' => case'.status = COMPLETED
                    /\ \A r \in Requests : pc'[r] # "reset"
  BY DEF GivenOnce
<1>1. case'.status >= case.status
  BY ForwardStep
<1>2. case.status = COMPLETED => case'.status = COMPLETED
  BY <1>1 DEF TypeOK, ServiceCase
<1>3. \A r \in Requests : pc[r] \notin {"reset", "reopenReset"}
  BY DEF GivenOnce, StagesKept, SavesKeepStage, NoReopens
<1>4. ASSUME NEW r \in Requests
      PROVE  (InPickup(r)' => case'.status = COMPLETED) /\ pc'[r] # "reset"
  <2>1. CASE pc'[r] = pc[r]
    BY <1>2, <1>3, <2>1 DEF GivenOnce, InPickup
  <2>2. CASE pc'[r] # pc[r]
    BY <1>2, <2>2, PickupEntered
  <2>3. QED
    BY <2>1, <2>2
<1>5. CASE /\ pickup'.collected = pickup.collected
           /\ handovers' = handovers \/ CountHandovers
  BY <1>2, <1>4, <1>5 DEF GivenOnce, CountHandovers
<1>6. CASE /\ \E r \in Requests : InPickup(r)
           /\ ~pickup.collected /\ pickup'.collected
           /\ handovers' = handovers + 1 /\ case' = case
  BY <1>4, <1>6 DEF GivenOnce
<1>7. QED
  BY <1>3, <1>5, <1>6, CollectedSteps

LEMMA GivenStaysOnce == Spec => []GivenOnce
<1> DEFINE Kept == \A r \in Requests : LockHeld(r) /\ GoesForward(r)
<1>1. Init => GivenOnce
  BY DEF Init, GivenOnce, NoPickup, InPickup
<1>2. /\ TypeOK /\ TypeOK' /\ PaidIsConfirmed /\ StagesKept /\ Kept /\ GivenOnce
      /\ [Next]_vars
      => GivenOnce'
  BY GivenOnceStep
<1>3. Init => Kept
  BY DEF Init, LockHeld, GoesForward
<1>4. TypeOK /\ PaidIsConfirmed /\ Kept /\ [Next]_vars => Kept'
  BY LockHeldStep, GoesForwardStep
<1> HIDE DEF Kept
<1>5. QED
  BY <1>1, <1>2, <1>3, <1>4, TypeCorrect, PaidStaysConfirmed, StagesStayKept, PTL
  DEF Spec

(* 'collects exactly once', for technicians: the device of a completed case is
   given out once, with a PIN or without, whoever asks at the same time. *)
THEOREM TechniciansHandOverOnce == Spec => [](~Managers => HandedOverOnce)
<1>1. GivenOnce => (~Managers => HandedOverOnce)
  BY DEF GivenOnce, HandedOverOnce
<1>2. QED
  BY <1>1, GivenStaysOnce, PTL

(* The desk of technicians implements module Handover: a device is ready once
   its case is completed, given once, and never before. *)
THEOREM TechniciansKeepPromise == ~Managers => (Spec => KeepsPromise)
<1> SUFFICES ASSUME ~Managers
             PROVE  Spec => KeepsPromise
  OBVIOUS
<1>1. Init => Promise!Init
  BY DEF Init, Promise!Init, DeskStage, NewCase
<1>2. /\ TypeOK /\ TypeOK' /\ StagesKept /\ GivenOnce /\ GivenOnce' /\ [Next]_vars
      => [Promise!Next]_DeskStage
  <2> SUFFICES ASSUME TypeOK, TypeOK', StagesKept, GivenOnce, GivenOnce', [Next]_vars
               PROVE  [Promise!Next]_DeskStage
    OBVIOUS
  <2>1. \A r \in Requests : pc[r] \notin {"reset", "reopenReset"}
    BY DEF GivenOnce, StagesKept, SavesKeepStage, NoReopens
  <2>2. /\ pickup.collected => case.status = COMPLETED
        /\ pickup'.collected => case'.status = COMPLETED
    BY DEF GivenOnce
  <2>3. \/ pickup'.collected = pickup.collected
        \/ case' = case /\ ~pickup.collected /\ pickup'.collected
    BY <2>1, CollectedSteps
  <2>4. QED
    BY <2>2, <2>3
    DEF Promise!Next, Promise!Complete, Promise!Give, Promise!TakeBack, DeskStage,
        TypeOK, ServiceCase
<1>3. QED
  BY <1>1, <1>2, TypeCorrect, StagesStayKept, GivenStaysOnce, PTL
  DEF Spec, KeepsPromise, Promise!Spec
-----------------------------------------------------------------------------
(* A PIN that is issued once locks on a full count. *)

\* Who writes the pickup row.
LEMMA PickupWriters ==
  ASSUME TypeOK, [Next]_vars
  PROVE  \/ pickup' = pickup
         \/ \E r \in Requests : \/ IssueCommit(r) \/ VerifyWrong(r) \/ VerifyRight(r)
                                \/ CollectCommit(r) \/ ResetForReopen(r)
         \/ PinExpires \/ LockoutEnds
<1>1. ASSUME NEW r \in Requests, Continue(r), ~IssueCommit(r), ~VerifyWrong(r),
             ~VerifyRight(r), ~CollectCommit(r), ~ResetForReopen(r)
      PROVE  pickup' = pickup
  BY <1>1
  DEF Continue, ChangeStatusCommit, WriteCase, Issue, LoadCompleted, SaveCase, SaveOffer,
      IssueRefused, SaveCaseFails, ReopenNote, PartsNote, CreateHistoryEntry, InsertOffer,
      WriteOffer, InsertAgain, DeleteOffer, PickupSaveFails, IssueAlreadyCollected,
      VerifyRefused, CollectRefused, tables
<1>2. ASSUME NEW r \in Requests,
             StatusCalls(r) \/ OfferCalls(r) \/ PickupCalls(r) \/ Abort(r)
      PROVE  pickup' = pickup
  <2>1. CASE ChangesStatus(r)
    BY <2>1 DEF ChangesStatus, ChangeStatus, tables
  <2>2. CASE \E row, then : LoadCase(r, row, then)
    BY <2>2 DEF LoadCase, tables
  <2>3. CASE AddInternalNote(r)
    BY <2>3 DEF AddInternalNote, CreateHistoryEntry
  <2>4. CASE StatusCalls(r)
    BY <2>1, <2>2, <2>3, <2>4
    DEF StatusCalls, ChangesStatus, Update, Reopen, StartPartsWaiting, ReceivePartsWaiting
  <2>5. CASE OfferCalls(r) \/ PickupCalls(r) \/ Abort(r)
    BY <2>5, OfferCallsHoldConfirmed, PickupCallsHoldConfirmed DEF Abort, tables
  <2>6. QED
    BY <1>2, <2>4, <2>5
<1>3. QED
  BY <1>1, <1>2 DEF Next, Clock, vars

\* How a request comes to issue a PIN, and to verify one.
LEMMA PinStepsEntered ==
  ASSUME TypeOK, PaidIsConfirmed, [Next]_vars, NEW r \in Requests, LockHeld(r),
         pc'[r] # pc[r]
  PROVE  /\ pc'[r] = "issue" => /\ ChangeStatusCommit(r)
                                /\ case.status < COMPLETED /\ case'.pinRequired
         /\ pc'[r] = "issuing" => Issue(r) /\ (pc[r] = "issue" \/ "issue" \in Calls)
         /\ pc'[r] = "verifying" => Verify(r) /\ "verify" \in Calls
<1>1. ~UNCHANGED pc
  OBVIOUS
<1>2. PICK q \in Requests :
        \/ StatusCalls(q) \/ OfferCalls(q) \/ PickupCalls(q)
        \/ Continue(q) \/ Abort(q)
  BY <1>1 DEF Next, vars, Clock, PinExpires, LockoutEnds
<1>3. q = r
  BY <1>2, RequestPays DEF OthersWait
<1>4. CASE StatusCalls(r)
  BY <1>4, StatusCallsEnter
<1>5. CASE OfferCalls(r)
  <2>1. ASSUME NEW type \in Results, NEW amount \in Amounts, CreateOffer(r, type, amount)
        PROVE  pc'[r] = "insertOffer"
    BY <2>1, GotoOne DEF CreateOffer
  <2>2. ASSUME NEW o, NEW entity, NEW step \in {"saveOffer", "confirmOffer", "deleteOffer"},
               LoadOffer(r, o, entity, step)
        PROVE  pc'[r] \in {"saveOffer", "confirmOffer", "deleteOffer"}
    BY <2>2, GotoOne DEF LoadOffer
  <2>3. pc'[r] \in {"insertOffer", "saveOffer", "confirmOffer", "deleteOffer"}
    BY <1>5, <2>1, <2>2
    DEF OfferCalls, UpdateOffer, MarkAsPaid, MarkAsFailed, SendPaymentReminder,
        InitiatePayment, HandleCallback, Remove
  <2>4. QED
    BY <2>3
<1>6. CASE PickupCalls(r)
  <2>1. CASE "issue" \in Calls /\ Issue(r)
    BY <2>1, GotoOne DEF Issue, LoadCompleted
  <2>2. CASE "verify" \in Calls /\ Verify(r)
    BY <2>2, GotoOne DEF Verify, LoadCompleted
  <2>3. CASE CollectWithoutPin(r)
    BY <2>3, GotoOne DEF CollectWithoutPin, LoadCompleted
  <2>4. QED
    BY <1>6, <2>1, <2>2, <2>3 DEF PickupCalls
<1>7. CASE Return(r)
  BY <1>7, GotoOne DEF Return
<1>8. CASE ChangeStatusCommit(r)
  BY <1>8, GotoOne DEF ChangeStatusCommit
<1>9. CASE pc[r] = "issue" /\ Issue(r)
  BY <1>9, GotoOne DEF Issue, LoadCompleted
<1>10. CASE ResetForReopen(r) \/ SaveOffer(r) \/ SaveCase(r)
  BY <1>10, GotoOne DEF ResetForReopen, SaveOffer, SaveCase
<1>11. CASE WriteCase(r)
  BY <1>11, GotoOne DEF WriteCase, LockHeld
<1>12. QED
  BY <1>2, <1>3, <1>4, <1>5, <1>6, <1>7, <1>8, <1>9, <1>10, <1>11
  DEF Continue, Abort, IssueRefused, SaveCaseFails, ReopenNote, PartsNote,
      CreateHistoryEntry, InsertOffer, WriteOffer, InsertAgain, DeleteOffer,
      PickupSaveFails, IssueAlreadyCollected, IssueCommit, VerifyRefused, VerifyWrong,
      VerifyRight, CollectRefused, CollectCommit

\* A request on the way to issue the PIN of the case it has completed.
AwaitsPin(r) == pc[r] \in {"issue", "issuing"}
Unissued ==
  pickup.pin \in {"absent", "none"} /\ pickup.attempts = 0 /\ pickup.locked = "no"

(* With technicians a case is completed once, so its PIN is issued once unless
   the route `issue` is called, and into a row on which nobody has tried one. *)
IssuesOnce == ~Managers /\ "issue" \notin Calls
OneIssue ==
  IssuesOnce =>
    /\ \A r \in Requests : AwaitsPin(r) => case.status = COMPLETED
    /\ \A q, r \in Requests : AwaitsPin(q) /\ AwaitsPin(r) => q = r
    /\ case.status < COMPLETED \/ (\E r \in Requests : AwaitsPin(r)) => Unissued

\* Without a PIN to try, the row stays as it is until one is issued.
LEMMA UnissuedStep ==
  ASSUME TypeOK, [Next]_vars, Unissued,
         \A r \in Requests : ~IssueCommit(r) /\ ~ResetForReopen(r)
  PROVE  Unissued'
<1>1. ~ \E r \in Requests : VerifyWrong(r) \/ VerifyRight(r)
  BY DEF Unissued, VerifyWrong, VerifyRight, Verifiable
<1>2. ~PinExpires /\ ~LockoutEnds
  BY DEF Unissued, PinExpires, LockoutEnds
<1>3. ASSUME NEW r \in Requests, CollectCommit(r)
      PROVE  Unissued'
  BY <1>3 DEF CollectCommit, Unissued, TypeOK, CasePickup
<1>4. QED
  BY <1>1, <1>2, <1>3, PickupWriters DEF Unissued

LEMMA OneIssueStep ==
  ASSUME TypeOK, TypeOK', PaidIsConfirmed, StagesKept, GivenOnce, OneIssue, [Next]_vars,
         \A r \in Requests : LockHeld(r) /\ GoesForward(r)
  PROVE  OneIssue'
<1> SUFFICES ASSUME IssuesOnce
             PROVE  /\ \A r \in Requests : AwaitsPin(r)' => case'.status = COMPLETED
                    /\ \A q, r \in Requests : AwaitsPin(q)' /\ AwaitsPin(r)' => q = r
                    /\ case'.status < COMPLETED \/ (\E r \in Requests : AwaitsPin(r)')
                         => Unissued'
  BY DEF OneIssue
<1>1. case'.status >= case.status
  BY ForwardStep DEF IssuesOnce
<1>2. /\ case.status = COMPLETED => case'.status = COMPLETED
      /\ case'.status < COMPLETED => case.status < COMPLETED
  BY <1>1 DEF TypeOK, ServiceCase
<1>3. \A r \in Requests : ~ResetForReopen(r)
  BY DEF GivenOnce, StagesKept, SavesKeepStage, NoReopens, ResetForReopen, IssuesOnce
<1>4. ASSUME NEW r \in Requests, AwaitsPin(r)', ~AwaitsPin(r)
      PROVE  /\ ChangeStatusCommit(r) /\ case.status < COMPLETED
             /\ case'.status = COMPLETED
  <2>1. ChangeStatusCommit(r) /\ case.status < COMPLETED /\ case'.pinRequired
    BY <1>4, PinStepsEntered DEF AwaitsPin, IssuesOnce
  <2>2. StageCoherent(case')
    BY <2>1 DEF ChangeStatusCommit, StagesKept, SavesKeepStage, NoReopens, IssuesOnce
  <2>3. QED
    BY <2>1, <2>2 DEF StageCoherent
<1>5. ASSUME NEW q \in Requests, IssueCommit(q)
      PROVE  /\ case'.status = COMPLETED
             /\ \A r \in Requests : ~AwaitsPin(r)'
  <2>1. AwaitsPin(q) /\ case' = case
    BY <1>5 DEF IssueCommit, AwaitsPin
  <2>2. pc'[q] = "idle" /\ \A r \in Requests : r # q => pc'[r] = pc[r]
    BY <1>5, GotoOne DEF IssueCommit, Return
  <2>3. \A r \in Requests : r # q => ~AwaitsPin(r)
    BY <2>1 DEF OneIssue
  <2>4. QED
    BY <2>1, <2>2, <2>3 DEF OneIssue, AwaitsPin
<1>6. ASSUME NEW r \in Requests, AwaitsPin(r)' PROVE case'.status = COMPLETED
  BY <1>2, <1>4, <1>6 DEF OneIssue
<1>7. ASSUME NEW q \in Requests, NEW r \in Requests, AwaitsPin(q)', AwaitsPin(r)'
      PROVE  q = r
  <2>1. CASE AwaitsPin(q) /\ AwaitsPin(r)
    BY <2>1 DEF OneIssue
  <2>2. CASE ~AwaitsPin(q)
    <3>1. ChangeStatusCommit(q) /\ case.status < COMPLETED
      BY <1>4, <1>7, <2>2
    <3>2. ~AwaitsPin(r)
      BY <3>1 DEF OneIssue
    <3>3. q # r => pc'[r] = pc[r]
      BY <3>1, GotoOne DEF ChangeStatusCommit
    <3>4. QED
      BY <1>7, <3>2, <3>3 DEF AwaitsPin
  <2>3. CASE ~AwaitsPin(r)
    <3>1. ChangeStatusCommit(r) /\ case.status < COMPLETED
      BY <1>4, <1>7, <2>3
    <3>2. ~AwaitsPin(q)
      BY <3>1 DEF OneIssue
    <3>3. q # r => pc'[q] = pc[q]
      BY <3>1, GotoOne DEF ChangeStatusCommit
    <3>4. QED
      BY <1>7, <3>2, <3>3 DEF AwaitsPin
  <2>4. QED
    BY <2>1, <2>2, <2>3
<1>8. ASSUME case'.status < COMPLETED \/ (\E r \in Requests : AwaitsPin(r)')
      PROVE  Unissued'
  <2>1. \A q \in Requests : ~IssueCommit(q)
    BY <1>5, <1>8
  <2>2. case.status < COMPLETED \/ (\E r \in Requests : AwaitsPin(r))
    BY <1>2, <1>4, <1>8
  <2>3. Unissued
    BY <2>2 DEF OneIssue
  <2>4. QED
    BY <1>3, <2>1, <2>3, UnissuedStep
<1>9. QED
  BY <1>6, <1>7, <1>8

(* A lockout that is over was over already when the requests that verify a PIN
   now took their snapshots, for it ends while nobody verifies; so what they
   leave of the count is the count they saw. *)
PastAsSeen ==
  IssuesOnce =>
    \A r \in Requests :
      pc[r] = "verifying" /\ pickup.locked = "past"
        => /\ mem[r].snapshot.locked = "past"
           /\ mem[r].snapshot.attempts = pickup.attempts

\* What a save of the pickup row leaves in it.
LEMMA SavedFields ==
  ASSUME TypeOK, NEW r \in Requests, NEW held \in CasePickup, SavePickup(r, held)
  PROVE  /\ pickup'.pin = held.pin
         /\ pickup'.attempts = IF held.attempts = mem[r].snapshot.attempts
                                THEN pickup.attempts ELSE held.attempts
         /\ pickup'.locked = IF held.locked = "no" /\ mem[r].snapshot.locked = "no"
                              THEN pickup.locked ELSE held.locked
<1> DEFINE attempts == IF held.attempts = mem[r].snapshot.attempts
                       THEN pickup.attempts ELSE held.attempts
           locked == IF held.locked = "no" /\ mem[r].snapshot.locked = "no"
                     THEN pickup.locked ELSE held.locked
<1>1. pickup' = [held EXCEPT !.attempts = attempts, !.locked = locked]
  BY DEF SavePickup
<1> HIDE DEF attempts, locked
<1>2. pickup'.pin = held.pin /\ pickup'.attempts = attempts /\ pickup'.locked = locked
  BY <1>1 DEF CasePickup
<1>3. QED
  BY <1>2 DEF attempts, locked

\* The three writes that save an entity, field by field.
LEMMA PinWrites ==
  ASSUME TypeOK, NEW r \in Requests
  PROVE  /\ IssueCommit(r) =>
              /\ pickup'.attempts = IF mem[r].snapshot.attempts = 0
                                     THEN pickup.attempts ELSE 0
              /\ pickup'.locked = IF mem[r].snapshot.locked = "no"
                                   THEN pickup.locked ELSE "no"
         /\ VerifyWrong(r) =>
              LET full == LimitReached(FailedAttempts) IN
              /\ pickup'.attempts = IF FailedAttempts = mem[r].snapshot.attempts
                                     THEN pickup.attempts ELSE FailedAttempts
              /\ pickup'.locked = IF full THEN "ahead"
                                   ELSE IF mem[r].snapshot.locked = "no"
                                        THEN pickup.locked ELSE "no"
         /\ VerifyRight(r) =>
              /\ pickup'.pin = "none"
              /\ pickup'.locked = IF mem[r].snapshot.locked = "no"
                                   THEN pickup.locked ELSE "no"
<1>0. pickup \in CasePickup /\ pickup.attempts \in Nat
  BY DEF TypeOK, CasePickup
<1>1. ASSUME IssueCommit(r)
      PROVE  /\ pickup'.attempts = IF mem[r].snapshot.attempts = 0
                                    THEN pickup.attempts ELSE 0
             /\ pickup'.locked = IF mem[r].snapshot.locked = "no"
                                  THEN pickup.locked ELSE "no"
  <2> DEFINE held == [pickup EXCEPT !.pin = "active", !.attempts = 0, !.locked = "no"]
  <2>1. held \in CasePickup /\ held.attempts = 0 /\ held.locked = "no"
    BY <1>0 DEF CasePickup
  <2>2. SavePickup(r, held)
    BY <1>1 DEF IssueCommit
  <2> HIDE DEF held
  <2>3. QED
    BY <2>1, <2>2, SavedFields
<1>2. ASSUME VerifyWrong(r)
      PROVE  /\ pickup'.attempts = IF FailedAttempts = mem[r].snapshot.attempts
                                    THEN pickup.attempts ELSE FailedAttempts
             /\ pickup'.locked = IF LimitReached(FailedAttempts) THEN "ahead"
                                  ELSE IF mem[r].snapshot.locked = "no"
                                       THEN pickup.locked ELSE "no"
  <2> DEFINE locked == IF LimitReached(FailedAttempts) THEN "ahead" ELSE "no"
             held == [pickup EXCEPT !.attempts = FailedAttempts, !.locked = locked]
  <2>1. FailedAttempts \in Nat /\ locked \in {"no", "ahead"}
    BY <1>0 DEF FailedAttempts
  <2>2. SavePickup(r, held)
    BY <1>2 DEF VerifyWrong
  <2> HIDE DEF locked
  <2>3. held \in CasePickup /\ held.attempts = FailedAttempts /\ held.locked = locked
    BY <1>0, <2>1 DEF CasePickup
  <2> HIDE DEF held
  <2>4. QED
    BY <2>2, <2>3, SavedFields DEF locked
<1>3. ASSUME VerifyRight(r)
      PROVE  /\ pickup'.pin = "none"
             /\ pickup'.locked = IF mem[r].snapshot.locked = "no"
                                  THEN pickup.locked ELSE "no"
  <2> DEFINE held == [pickup EXCEPT !.pin = "none", !.locked = "no", !.collected = TRUE]
  <2>1. held \in CasePickup /\ held.pin = "none" /\ held.locked = "no"
    BY <1>0 DEF CasePickup
  <2>2. SavePickup(r, held)
    BY <1>3 DEF VerifyRight
  <2> HIDE DEF held
  <2>3. QED
    BY <2>1, <2>2, SavedFields
<1>4. QED
  BY <1>1, <1>2, <1>3

\* A request that verifies a PIN does so in one more step.
LEMMA VerifyingEnds ==
  ASSUME TypeOK, NEW r \in Requests, pc[r] = "verifying",
         \/ StatusCalls(r) \/ OfferCalls(r) \/ PickupCalls(r)
         \/ Continue(r) \/ Abort(r)
  PROVE  pc'[r] = "idle"
<1>1. CASE Return(r)
  BY <1>1, GotoOne DEF Return
<1>2. CASE Continue(r) \/ Abort(r)
  BY <1>1, <1>2
  DEF Continue, Abort, ChangeStatusCommit, Issue, IssueRefused, ResetForReopen, SaveCase,
      SaveCaseFails, WriteCase, ReopenNote, PartsNote, InsertOffer, SaveOffer, WriteOffer,
      InsertAgain, DeleteOffer, PickupSaveFails, IssueAlreadyCollected, IssueCommit,
      VerifyRefused, VerifyWrong, VerifyRight, CollectRefused, CollectCommit
<1>3. ~StatusCalls(r) /\ ~OfferCalls(r) /\ ~PickupCalls(r)
  BY CallsAreIdle
<1>4. QED
  BY <1>2, <1>3

\* It starts from the pickup row as it is.
LEMMA VerifySnapshot ==
  ASSUME TypeOK, NEW r \in Requests, Verify(r)
  PROVE  pickup' = pickup /\ mem'[r].snapshot = pickup
<1> DEFINE held == [Blank EXCEPT !.snapshot = pickup]
<1>1. held.snapshot = pickup
  BY DEF Blank
<1>2. Hold(r, held) /\ pickup' = pickup
  BY DEF Verify, LoadCompleted, tables
<1> HIDE DEF held
<1>3. QED
  BY <1>1, <1>2, HoldOne

\* No PIN is written into a row that has been tried on, and none cleared.
LEMMA PinRowStep ==
  ASSUME TypeOK, StagesKept, GivenOnce, OneIssue, IssuesOnce, [Next]_vars
  PROVE  /\ \A r \in Requests : ~ResetForReopen(r)
         /\ \A r \in Requests : IssueCommit(r) => Unissued
<1>1. \A r \in Requests : ~ResetForReopen(r)
  BY DEF GivenOnce, StagesKept, SavesKeepStage, NoReopens, ResetForReopen, IssuesOnce
<1>2. \A r \in Requests : IssueCommit(r) => Unissued
  BY DEF OneIssue, AwaitsPin, IssueCommit
<1>3. QED
  BY <1>1, <1>2

\* What a step leaves of a lockout that was over.
LEMMA PastStep ==
  ASSUME TypeOK, StagesKept, GivenOnce, OneIssue, PastAsSeen, IssuesOnce, [Next]_vars,
         pickup'.locked = "past"
  PROVE  \/ \A r \in Requests : pc[r] # "verifying" /\ pc'[r] # "verifying"
         \/ pickup.locked = "past" /\ pickup'.attempts = pickup.attempts
<1>1. CASE pickup' = pickup
  BY <1>1
<1>2. ASSUME NEW r \in Requests, CollectCommit(r)
      PROVE  pickup'.locked = pickup.locked /\ pickup'.attempts = pickup.attempts
  BY <1>2 DEF CollectCommit, TypeOK, CasePickup
<1>3. CASE PinExpires
  BY <1>3 DEF PinExpires, TypeOK, CasePickup
<1>4. CASE LockoutEnds
  BY <1>4 DEF LockoutEnds
<1>5. ASSUME NEW r \in Requests, VerifyWrong(r) \/ VerifyRight(r)
      PROVE  FALSE
  <2>1. pc[r] = "verifying" /\ pickup.locked \in {"no", "past"}
    BY <1>5 DEF VerifyWrong, VerifyRight, Verifiable, TypeOK, CasePickup
  <2>2. pickup'.locked \in {"ahead", "no", pickup.locked}
        /\ (pickup'.locked = "past" => mem[r].snapshot.locked = "no")
    BY <1>5, PinWrites
  <2>3. QED
    BY <2>1, <2>2 DEF PastAsSeen
<1>6. ASSUME NEW r \in Requests, IssueCommit(r)
      PROVE  FALSE
  BY <1>6, PinWrites, PinRowStep DEF Unissued
<1>7. QED
  BY <1>1, <1>2, <1>3, <1>4, <1>5, <1>6, PickupWriters, PinRowStep

LEMMA PastAsSeenStep ==
  ASSUME TypeOK, PaidIsConfirmed, StagesKept, GivenOnce, OneIssue, PastAsSeen, [Next]_vars,
         \A r \in Requests : LockHeld(r)
  PROVE  PastAsSeen'
<1> SUFFICES ASSUME IssuesOnce, NEW r \in Requests, pc'[r] = "verifying",
                    pickup'.locked = "past"
             PROVE  /\ mem'[r].snapshot.locked = "past"
                    /\ mem'[r].snapshot.attempts = pickup'.attempts
  BY DEF PastAsSeen
<1>1. CASE pc[r] = "verifying"
  <2>1. mem'[r] = mem[r]
    <3>1. CASE UNCHANGED mem
      BY <3>1
    <3>2. ASSUME NEW q \in Requests,
                 \/ StatusCalls(q) \/ OfferCalls(q) \/ PickupCalls(q)
                 \/ Continue(q) \/ Abort(q)
          PROVE  mem'[r] = mem[r]
      <4>1. CASE q # r
        BY <3>2, <4>1, RequestPays DEF OthersWait
      <4>2. CASE q = r
        BY <1>1, <3>2, <4>2, VerifyingEnds
      <4>3. QED
        BY <4>1, <4>2
    <3>3. QED
      BY <3>1, <3>2 DEF Next, vars, Clock, PinExpires, LockoutEnds
  <2>2. pickup.locked = "past" /\ pickup'.attempts = pickup.attempts
    BY <1>1, PastStep
  <2>3. QED
    BY <1>1, <2>1, <2>2 DEF PastAsSeen
<1>2. CASE pc[r] # "verifying"
  <2>1. Verify(r)
    BY <1>2, PinStepsEntered
  <2>2. pickup' = pickup /\ mem'[r].snapshot = pickup
    BY <2>1, VerifySnapshot
  <2>3. QED
    BY <2>2
<1>3. QED
  BY <1>1, <1>2

\* With the count below its limit, or the row locked, a PIN may be tried.
CountLocks ==
  pickup.pin = "active" /\ pickup.locked = "no" => pickup.attempts < MaxAttempts

LEMMA CountStep ==
  ASSUME TypeOK, StagesKept, GivenOnce, OneIssue, PastAsSeen, CountLocks, IssuesOnce,
         [Next]_vars
  PROVE  CountLocks'
<1>0. pickup.attempts \in Nat /\ MaxAttempts \in Nat \ {0}
  BY MaxAttemptsAssumption DEF TypeOK, CasePickup
<1>1. CASE pickup' = pickup
  BY <1>1 DEF CountLocks
<1>2. ASSUME NEW r \in Requests, CollectCommit(r)
      PROVE  CountLocks'
  BY <1>2 DEF CollectCommit, CountLocks, TypeOK, CasePickup
<1>3. CASE PinExpires \/ LockoutEnds
  BY <1>3 DEF PinExpires, LockoutEnds, CountLocks, TypeOK, CasePickup
<1>4. ASSUME NEW r \in Requests, VerifyRight(r)
      PROVE  CountLocks'
  BY <1>4, PinWrites DEF CountLocks
<1>5. ASSUME NEW r \in Requests, IssueCommit(r)
      PROVE  CountLocks'
  <2>1. pickup'.attempts = 0
    BY <1>5, PinWrites, PinRowStep DEF Unissued
  <2>2. QED
    BY <1>0, <2>1 DEF CountLocks
<1>6. ASSUME NEW r \in Requests, VerifyWrong(r), pickup'.locked = "no"
      PROVE  pickup'.attempts < MaxAttempts
  <2>1. /\ pc[r] = "verifying" /\ pickup.pin = "active"
        /\ pickup.locked \in {"no", "past"}
    BY <1>6 DEF VerifyWrong, Verifiable, TypeOK, CasePickup
  <2>2. FailedAttempts < MaxAttempts
    BY <1>0, <1>6, PinWrites DEF LimitReached, FailedAttempts
  <2>3. pickup'.attempts \in {pickup.attempts, FailedAttempts}
    BY <1>6, PinWrites
  <2>4. CASE pickup.locked = "no"
    BY <2>1, <2>2, <2>3, <2>4 DEF CountLocks
  <2>5. CASE pickup.locked = "past"
    <3>1. mem[r].snapshot.attempts = pickup.attempts
      BY <2>1, <2>5 DEF PastAsSeen
    <3>2. pickup'.attempts = FailedAttempts
      BY <1>6, <3>1, PinWrites
    <3>3. QED
      BY <2>2, <3>2
  <2>6. QED
    BY <2>1, <2>4, <2>5
<1>7. QED
  BY <1>1, <1>2, <1>3, <1>4, <1>5, <1>6, PickupWriters, PinRowStep DEF CountLocks

(* 'MAX_ATTEMPTS' (pickup.service): while the PIN is not issued again, no
   number of concurrent calls of verify leaves a PIN that may be tried on a
   full count, whatever their snapshots made their saves leave out. *)
THEOREM FullCountAlwaysLocks == Spec => []FullCountLocks
<1> DEFINE Kept == \A r \in Requests : LockHeld(r) /\ GoesForward(r)
           Counts == IssuesOnce => CountLocks
<1>1. Init => OneIssue /\ PastAsSeen /\ Counts
  BY DEF Init, OneIssue, AwaitsPin, Unissued, PastAsSeen, CountLocks, NoPickup, NewCase
<1>2. /\ TypeOK /\ TypeOK' /\ PaidIsConfirmed /\ StagesKept /\ GivenOnce /\ Kept
      /\ OneIssue /\ PastAsSeen /\ Counts /\ [Next]_vars
      => OneIssue' /\ PastAsSeen' /\ Counts'
  BY OneIssueStep, PastAsSeenStep, CountStep DEF IssuesOnce
<1>3. Counts => FullCountLocks
  BY DEF IssuesOnce, CountLocks, FullCountLocks
<1>4. Init => Kept
  BY DEF Init, LockHeld, GoesForward
<1>5. TypeOK /\ PaidIsConfirmed /\ Kept /\ [Next]_vars => Kept'
  BY LockHeldStep, GoesForwardStep
<1> HIDE DEF Kept, Counts
<1>6. QED
  BY <1>1, <1>2, <1>3, <1>4, <1>5, TypeCorrect, PaidStaysConfirmed, StagesStayKept,
     GivenStaysOnce, PTL
  DEF Spec
-----------------------------------------------------------------------------
(* A collection on an open case is about to be cleared. *)

(* The desks at which it is: a PIN issued or verified late, for a case moved
   back meanwhile, would be recorded on an open one; a request that dies leaves
   the row as it was; and next to `reopen`, which adds its history row last,
   other saves of the case may take it back and forth. *)
ClearsCollections ==
  /\ {"verify", "abort"} \cap Calls = {}
  /\ NoReopens \/ {"update", "parts"} \cap Calls = {}

\* Nobody gives a device out by a PIN, and only `reopen` saves a case.
OnlyReopenSaves ==
  ClearsCollections =>
    \A r \in Requests :
      /\ pc[r] # "verifying"
      /\ {"update", "parts"} \cap Calls = {} /\ pc[r] \in {"save", "write"}
           => mem[r].then = "reopenReset"

\* With neither update nor parts in use, it is `reopen` that loads a case.
LEMMA SaveEntered ==
  ASSUME TypeOK, NEW r \in Requests, {"update", "parts"} \cap Calls = {}, StatusCalls(r),
         pc'[r] \in {"save", "write"}
  PROVE  mem'[r].then = "reopenReset"
<1>1. CASE ChangesStatus(r)
  BY <1>1, GotoOne DEF ChangesStatus, ChangeStatus
<1>2. CASE Reopen(r)
  <2>1. PICK row : LoadCase(r, row, "reopenReset")
    BY <1>2 DEF Reopen
  <2> DEFINE held == [Blank EXCEPT !.row = row, !.seen = Live, !.then = "reopenReset"]
  <2>2. held.then = "reopenReset"
    BY DEF Blank
  <2>3. Hold(r, held)
    BY <2>1 DEF LoadCase
  <2> HIDE DEF held
  <2>4. QED
    BY <2>2, <2>3, HoldOne
<1>3. CASE AddInternalNote(r)
  BY <1>3, GotoOne DEF AddInternalNote, CreateHistoryEntry, Return
<1>4. QED
  BY <1>1, <1>2, <1>3 DEF StatusCalls, ChangesStatus

LEMMA OnlyReopenSavesStep ==
  ASSUME TypeOK, PaidIsConfirmed, OnlyReopenSaves, [Next]_vars,
         \A r \in Requests : LockHeld(r)
  PROVE  OnlyReopenSaves'
<1> SUFFICES ASSUME ClearsCollections, NEW r \in Requests
             PROVE  /\ pc'[r] # "verifying"
                    /\ {"update", "parts"} \cap Calls = {} /\ pc'[r] \in {"save", "write"}
                         => mem'[r].then = "reopenReset"
  BY DEF OnlyReopenSaves
<1>1. pc'[r] # "verifying"
  BY PinStepsEntered DEF OnlyReopenSaves, ClearsCollections
<1>2. ASSUME {"update", "parts"} \cap Calls = {}, pc'[r] \in {"save", "write"}
      PROVE  mem'[r].then = "reopenReset"
  <2>1. CASE UNCHANGED <<pc, mem>>
    BY <1>2, <2>1 DEF OnlyReopenSaves
  <2>2. ASSUME NEW q \in Requests,
               \/ StatusCalls(q) \/ OfferCalls(q) \/ PickupCalls(q)
               \/ Continue(q) \/ Abort(q)
        PROVE  mem'[r].then = "reopenReset"
    <3>1. CASE q # r
      BY <1>2, <2>2, <3>1, RequestPays DEF OthersWait, OnlyReopenSaves
    <3>2. CASE StatusCalls(r)
      BY <1>2, <3>2, SaveEntered
    <3>3. CASE OfferCalls(r) \/ PickupCalls(r)
      BY <1>2, <3>3, OtherCallsEnter
    <3>4. CASE Continue(r) \/ Abort(r)
      BY <1>2, <3>4, ContinueReleases DEF OnlyReopenSaves, SaveCase
    <3>5. QED
      BY <2>2, <3>1, <3>2, <3>3, <3>4
  <2>3. QED
    BY <2>1, <2>2 DEF Next, vars, Clock, PinExpires, LockoutEnds
<1>3. QED
  BY <1>1, <1>2

\* Who is about to clear the pickup row clears it, unless he dies.
LEMMA ResetStays ==
  ASSUME TypeOK, PaidIsConfirmed, [Next]_vars, "abort" \notin Calls,
         NEW r \in Requests, pc[r] \in {"reset", "reopenReset"}, ~ResetForReopen(r)
  PROVE  pc'[r] = pc[r]
<1>1. CASE UNCHANGED pc
  BY <1>1
<1>2. ASSUME NEW q \in Requests,
             \/ StatusCalls(q) \/ OfferCalls(q) \/ PickupCalls(q) \/ Continue(q)
      PROVE  pc'[r] = pc[r]
  <2>1. CASE q # r
    BY <1>2, <2>1, RequestPays DEF OthersWait
  <2>2. ~StatusCalls(r) /\ ~OfferCalls(r) /\ ~PickupCalls(r)
    BY CallsAreIdle
  <2>3. ~Continue(r)
    BY DEF Continue, ChangeStatusCommit, Issue, IssueRefused, SaveCase, SaveCaseFails,
       WriteCase, ReopenNote, PartsNote, InsertOffer, SaveOffer, WriteOffer, InsertAgain,
       DeleteOffer, PickupSaveFails, IssueAlreadyCollected, IssueCommit, VerifyRefused,
       VerifyWrong, VerifyRight, CollectRefused, CollectCommit
  <2>4. QED
    BY <1>2, <2>1, <2>2, <2>3
<1>3. QED
  BY <1>1, <1>2 DEF Next, vars, Clock, PinExpires, LockoutEnds

\* Who records a collection.
LEMMA CollectedBy ==
  ASSUME TypeOK, [Next]_vars, ~pickup.collected, pickup'.collected
  PROVE  \E r \in Requests : VerifyRight(r) \/ CollectCommit(r)
<1>1. ASSUME NEW r \in Requests, IssueCommit(r) \/ VerifyWrong(r)
      PROVE  pickup'.collected = pickup.collected
  BY <1>1 DEF IssueCommit, VerifyWrong, SavePickup, TypeOK, CasePickup
<1>2. ASSUME NEW r \in Requests, ResetForReopen(r)
      PROVE  ~pickup'.collected
  BY <1>2 DEF ResetForReopen, NoPickup
<1>3. CASE PinExpires \/ LockoutEnds
  BY <1>3 DEF PinExpires, LockoutEnds, TypeOK, CasePickup
<1>4. QED
  BY <1>1, <1>2, <1>3, PickupWriters

\* A case leaves COMPLETED by a request that goes on to clear its pickup row.
LEMMA MoveBackClears ==
  ASSUME TypeOK, StagesKept, OnlyReopenSaves, ClearsCollections, [Next]_vars,
         case.status = COMPLETED, case'.status < COMPLETED
  PROVE  \E r \in Requests : pc'[r] \in {"reset", "reopenReset"}
<1>1. PICK r \in Requests : WriteCase(r) \/ ChangeStatusCommit(r)
  BY CaseWriters
<1>2. CASE ChangeStatusCommit(r)
  BY <1>2, GotoOne DEF ChangeStatusCommit
<1>3. CASE WriteCase(r)
  <2>1. CASE NoReopens
    <3>1. PICK q \in Requests : ChangeStatusCommit(q)
      BY <2>1, CaseRowStep DEF SameStage
    <3>2. QED
      BY <3>1, GotoOne DEF ChangeStatusCommit
  <2>2. CASE {"update", "parts"} \cap Calls = {}
    BY <1>3, <2>2, GotoOne DEF WriteCase, OnlyReopenSaves
  <2>3. QED
    BY <2>1, <2>2 DEF ClearsCollections
<1>4. QED
  BY <1>1, <1>2, <1>3

LEMMA ClearedStep ==
  ASSUME TypeOK, TypeOK', PaidIsConfirmed, StagesKept, OnlyReopenSaves, ClearsCollections,
         OpenCollectionIsBeingCleared, [Next]_vars,
         \A r \in Requests : FoundCompleted(r)
  PROVE  OpenCollectionIsBeingCleared'
<1> SUFFICES ASSUME pickup'.collected, case'.status < COMPLETED
             PROVE  \E r \in Requests : pc'[r] \in {"reset", "reopenReset"}
  BY DEF OpenCollectionIsBeingCleared, Reopening
<1>1. CASE case.status = COMPLETED
  BY <1>1, MoveBackClears
<1>2. CASE case.status < COMPLETED /\ pickup.collected
  <2>1. PICK r \in Requests : pc[r] \in {"reset", "reopenReset"}
    BY <1>2 DEF OpenCollectionIsBeingCleared, Reopening
  <2>2. ~ResetForReopen(r)
    BY DEF ResetForReopen, NoPickup
  <2>3. QED
    BY <2>1, <2>2, ResetStays DEF ClearsCollections
<1>3. CASE case.status < COMPLETED /\ ~pickup.collected
  <2>1. PICK r \in Requests : VerifyRight(r) \/ CollectCommit(r)
    BY <1>3, CollectedBy
  <2>2. ~VerifyRight(r)
    BY DEF VerifyRight, OnlyReopenSaves
  <2>3. case.status = COMPLETED
    BY <2>1, <2>2 DEF CollectCommit, FoundCompleted
  <2>4. QED
    BY <1>3, <2>3
<1>4. QED
  BY <1>1, <1>2, <1>3 DEF TypeOK, ServiceCase

LEMMA ClearedAtSuchDesks ==
  ClearsCollections => (Spec => []OpenCollectionIsBeingCleared)
<1> SUFFICES ASSUME ClearsCollections
             PROVE  Spec => []OpenCollectionIsBeingCleared
  OBVIOUS
<1> DEFINE Held == \A r \in Requests : LockHeld(r)
           Found == \A r \in Requests : FoundCompleted(r)
<1>1. Init => Found /\ OnlyReopenSaves /\ OpenCollectionIsBeingCleared
  BY DEF Init, FoundCompleted, OnlyReopenSaves, OpenCollectionIsBeingCleared, NoPickup
<1>2. TypeOK /\ PaidIsConfirmed /\ Held /\ Found /\ [Next]_vars => Found'
  BY FoundCompletedStep
<1>3. TypeOK /\ PaidIsConfirmed /\ Held /\ OnlyReopenSaves /\ [Next]_vars
      => OnlyReopenSaves'
  BY OnlyReopenSavesStep
<1>4. /\ TypeOK /\ TypeOK' /\ PaidIsConfirmed /\ StagesKept /\ OnlyReopenSaves /\ Found
      /\ OpenCollectionIsBeingCleared /\ [Next]_vars
      => OpenCollectionIsBeingCleared'
  BY ClearedStep
<1> HIDE DEF Held, Found
<1>5. Spec => []Held
  BY LockStaysHeld DEF Held
<1>6. QED
  BY <1>1, <1>2, <1>3, <1>4, <1>5, TypeCorrect, PaidStaysConfirmed, StagesStayKept, PTL
  DEF Spec

(* At these desks, and at every desk of technicians, a collection recorded on a
   case that is open again is about to be cleared by a request that moved it
   back, whichever requests complete, collect, reopen and move back at once. *)
THEOREM OpenCollectionsAreCleared ==
  ClearsCollections \/ ~Managers => (Spec => []OpenCollectionIsBeingCleared)
<1>1. ASSUME ~Managers
      PROVE  Spec => []OpenCollectionIsBeingCleared
  <2>1. GivenOnce => OpenCollectionIsBeingCleared
    BY <1>1 DEF GivenOnce, OpenCollectionIsBeingCleared
  <2>2. QED
    BY <2>1, GivenStaysOnce, PTL
<1>2. QED
  BY <1>1, ClearedAtSuchDesks
=============================================================================
