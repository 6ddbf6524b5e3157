------------------------------ MODULE CaseDesk -------------------------------
(***************************************************************************)
(* A repair case with everything that works on it at once: the workflow    *)
(* (CaseStatus), the offers and their payments (CaseOffers) and the        *)
(* handover of the device (CasePickup).                                    *)
(***************************************************************************)
EXTENDS CaseStatus, CaseOffers, CasePickup

CONSTANTS
  Calls,    \* the routes in use
  Managers  \* whether the staff calling changeStatus may be managers

ASSUME ManagersAssumption == Managers \in BOOLEAN

OfferArguments ==
  {NoOffer} \cup [type : Results, status : {"pending"}, amount : Amounts]

StatusCalls(r) ==
  \/ /\ "changeStatus" \in Calls
     /\ \E technician \in IF Managers THEN BOOLEAN ELSE {TRUE} :
        \E to \in CaseStatusLevel, result \in Results \cup {NoResult} :
        \E offer \in OfferArguments, noted, wantPin \in BOOLEAN :
          ChangeStatus(r, technician, to, result, offer, noted, wantPin)
  \/ "update" \in Calls /\ Update(r)
  \/ "reopen" \in Calls /\ Managers /\ Reopen(r)
  \/ "parts" \in Calls /\ StartPartsWaiting(r)
  \/ "parts" \in Calls /\ ReceivePartsWaiting(r)
  \/ "note" \in Calls /\ AddInternalNote(r)

OfferCalls(r) ==
  \/ /\ "createOffer" \in Calls
     /\ \E type \in Results, amount \in Amounts : CreateOffer(r, type, amount)
  \/ \E o \in Live :
       \/ /\ "updateOffer" \in Calls
          /\ \E amount \in Amounts : UpdateOffer(r, o, amount)
       \/ "markAsPaid" \in Calls /\ MarkAsPaid(r, o)
       \/ "markAsFailed" \in Calls /\ MarkAsFailed(r, o)
       \/ "remind" \in Calls /\ SendPaymentReminder(r, o)
       \/ "initiate" \in Calls /\ InitiatePayment(r, o)
       \/ "callback" \in Calls /\ HandleCallback(r, o, "completed")
       \/ "callback" \in Calls /\ HandleCallback(r, o, "failed")
       \/ "removeOffer" \in Calls /\ Remove(r, o)

PickupCalls(r) ==
  \/ "issue" \in Calls /\ pc[r] = "idle" /\ Issue(r)
  \/ "verify" \in Calls /\ Verify(r)
  \/ "collect" \in Calls /\ CollectWithoutPin(r)

(* A request that has been accepted goes on by itself. *)
Continue(r) ==
  \/ ChangeStatusCommit(r)
  \/ pc[r] = "issue" /\ Issue(r)
  \/ IssueRefused(r)
  \/ ResetForReopen(r)
  \/ SaveCase(r)
  \/ SaveCaseFails(r)
  \/ WriteCase(r)
  \/ ReopenNote(r)
  \/ PartsNote(r)
  \/ InsertOffer(r)
  \/ SaveOffer(r)
  \/ WriteOffer(r)
  \/ InsertAgain(r)
  \/ DeleteOffer(r)
  \/ PickupSaveFails(r)
  \/ IssueAlreadyCollected(r)
  \/ IssueCommit(r)
  \/ VerifyRefused(r)
  \/ VerifyWrong(r)
  \/ VerifyRight(r)
  \/ CollectRefused(r)
  \/ CollectCommit(r)

Clock == "clock" \in Calls /\ (PinExpires \/ LockoutEnds)

Next ==
  \/ \E r \in Requests :
       \/ StatusCalls(r)
       \/ OfferCalls(r)
       \/ PickupCalls(r)
       \/ Continue(r)
       \/ "abort" \in Calls /\ Abort(r)
  \/ Clock

Spec == Init /\ [][Next]_vars

(* Every await is answered. A request that waits for the row lock competes
   with others, but InnoDB grants a lock in the order it was asked for. *)
Fairness == \A r \in Requests : SF_vars(Continue(r))
FairSpec == Spec /\ Fairness
-----------------------------------------------------------------------------
(* The route `reopen` is for managers. *)
NoReopens == "reopen" \notin Calls \/ ~Managers

(* While no case is reopened by `reopen`, only changeStatus moves a case: the
   saves of entities read earlier fail or leave the stage alone. So the stage
   columns agree: closed_at is set exactly on completed cases, a PIN is
   required only of completed ones, a result exists only from PENDING on and
   always on a completed case. *)
StageCoherent(row) ==
  /\ row.closed <=> row.status = COMPLETED
  /\ row.pinRequired => row.status = COMPLETED
  /\ row.result # NoResult => row.status >= PENDING
  /\ row.status = COMPLETED => row.result # NoResult
StagesCoherent == NoReopens => StageCoherent(case)

(* The newest status move in case_status_history is the status of the case:
   no stale save of a case takes back what a status change wrote. *)
TimelineMatches == NoReopens => recorded = case.status

(* Why: a status change adds a history row, which makes every entity loaded
   before it unfit to be saved, and an entity still fit to be saved agrees with
   the row in the stage columns. *)
SameStage(row) ==
  /\ row.status = case.status /\ row.result = case.result
  /\ row.closed = case.closed /\ row.pinRequired = case.pinRequired
SavesKeepStage(r) ==
  /\ pc[r] = "save" /\ r \in fresh => SameStage(mem[r].row)
  /\ pc[r] = "write" => mem[r].dirty \subseteq {"partsWaiting"}
  /\ pc[r] \in {"save", "write"} => mem[r].then \in {"idle", "partsNote"}
  /\ pc[r] = "status" => StageCoherent(mem[r].row)
  /\ pc[r] \notin {"reopenReset", "reopenNote"}
StagesKept ==
  NoReopens =>
    /\ StageCoherent(case)
    /\ recorded = case.status
    /\ \A r \in Requests : SavesKeepStage(r)

(* 'Payable cases can only be completed after payment is marked as paid'
   (changeStatus): a completed payable case has had a payable offer confirmed,
   whichever saves of the case and its offers come in between. *)
Settled(row) == row.status = COMPLETED /\ row.result = PAYABLE => paidEver
CompletedPayableWasPaid == NoReopens => Settled(case)

(* Why: the row a status change is about to write satisfies it too, and a paid
   offer is in the table because it was confirmed, or held by a request that is
   confirming it. *)
Confirming(r) ==
  \/ pc[r] = "confirmOffer"
  \/ pc[r] \in {"writeOffer", "insertAgain"} /\ mem[r].then = "confirmOffer"
PaidIsConfirmed ==
  /\ PayablePaid => paidEver
  /\ \A r \in Requests : mem[r].offer.status = "paid" => Confirming(r)
RowsSettled ==
  NoReopens =>
    /\ Settled(case)
    /\ \A r \in Requests : pc[r] = "status" => Settled(mem[r].row)

(* While a PIN is not issued again, whatever concurrent calls of verify count
   from what their snapshots showed, the wrong PIN that brings failed_attempts
   to MAX_ATTEMPTS locks the row: no PIN can be tried on a full count. *)
FullCountLocks ==
  ~Managers /\ "issue" \notin Calls =>
    (pickup.pin = "active" /\ pickup.locked = "no" => pickup.attempts < MaxAttempts)

(* Status changes running at once leave one offer of each type: the offer is
   looked up under the lock on the case row (changeStatus). createOffer locks
   nothing, and a save may insert a removed offer again beside a new one. *)
OnlyStatusMakesOffers == {"createOffer", "removeOffer"} \cap Calls = {}
OneOfferPerType ==
  OnlyStatusMakesOffers =>
    \A o, p \in Live : offers[o].type = offers[p].type => o = p

(* 'Technicians can only move status forward' (changeStatus): with technicians
   at the desk no step takes a case back, the saves of entities read before a
   status change included. *)
OnlyManagersMoveBack ==
  [][~Managers => case'.status >= case.status]_vars

(* 'collects exactly once': the device of a completed case is given out once. *)
HandedOverOnce == handovers <= 1

(* An offer becomes paid only by a request that confirms the payment: no
   reminder, edit or payment initiation that saves a row it read earlier
   brings back a payment that has failed. *)
PaidOnlyByConfirmation ==
  [][\A o \in Offers :
       offers'[o].status = "paid" /\ offers[o].status # "paid"
         => \E r \in Requests : Confirming(r) /\ mem[r].key = o]_vars

(* collectWithoutPin gives out only devices of cases that are completed,
   need no PIN and, if payable, were paid, at the moment it commits and not
   only when it looked. *)
CollectsCompletedOnly ==
  [][\A r \in Requests :
       pc[r] = "collecting" /\ handovers' > handovers
         => /\ case.status = COMPLETED
            /\ ~case.pinRequired
            /\ case.result = PAYABLE => paidEver]_vars

(* Why: the case row is locked from the look at the case to the commit. *)
CollectsUnderLock ==
  /\ \A r \in Requests : pc[r] \in {"status", "collecting"} => lock = r
  /\ \A r \in Requests : pc[r] = "collecting" => case.status = COMPLETED /\ ~case.pinRequired

(* A collection recorded on a case that is open again is about to be cleared
   by the request that reopened it. *)
Reopening == \E r \in Requests : pc[r] \in {"reset", "reopenReset"}
OpenCollectionIsBeingCleared ==
  pickup.collected /\ case.status < COMPLETED => Reopening

(* What the desk promises the owner of the device (module Handover). *)
DeskStage ==
  IF case.status < COMPLETED THEN "repair"
  ELSE IF pickup.collected THEN "given" ELSE "ready"
Promise == INSTANCE Handover WITH stage <- DeskStage
KeepsPromise == Promise!Spec

(* Every request is answered. *)
EveryRequestReturns == \A r \in Requests : pc[r] # "idle" ~> pc[r] = "idle"
=============================================================================
