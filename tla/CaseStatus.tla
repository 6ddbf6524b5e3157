----------------------------- MODULE CaseStatus ------------------------------
(***************************************************************************)
(* cases.service: the handlers that move a repair case through its stages. *)
(* Messages (SMS, staff notifications) and the audit log leave the tables  *)
(* of CaseStore alone and are left out.                                    *)
(***************************************************************************)
EXTENDS CaseStore

NoOffer == Absent

EffectiveResult(to, newResult) ==
  IF to < PENDING THEN NoResult
  ELSE IF newResult # NoResult THEN newResult ELSE case.result

(* An offer must be for the result and agree with the one already made. *)
OfferFits(to, result, offer) ==
  /\ to >= PENDING
  /\ offer.type = result
  /\ OffersOf(result) # {} =>
       offers[FirstOf(OffersOf(result))].amount = offer.amount

(* The same call as before: with the offer there it was already carried out,
   without it the offer is added to a case that lacks it. *)
SameCall(to, result, offer, noted) ==
  to = case.status /\ result = case.result /\ offer # NoOffer /\ ~noted
Replayed(to, result, offer, noted) ==
  SameCall(to, result, offer, noted) /\ OffersOf(result) # {}
RepairingOffer(to, result, offer, noted) ==
  SameCall(to, result, offer, noted) /\ OffersOf(result) = {}

(* What a technician who is not a manager may do. *)
TechnicianMayOnceOpen(to, repairing) == case.status # COMPLETED
TechnicianMay(to, repairing) ==
  case.status # COMPLETED /\ (to > case.status \/ repairing)

(* What the payments found under the lock allow. *)
CompletesUnpaid(to, result) == TRUE
CompletesPaid(to, result) == result = PAYABLE /\ to = COMPLETED => PayablePaid
PaymentsAllow(to, result, offer) ==
  /\ \A o \in Live : offers[o].status = "paid" => offers[o].type = result
  /\ result \in {PAYABLE, REPLACEABLE} => OffersOf(result) # {} \/ offer # NoOffer
  /\ CompletesPaid(to, result)

CreatesOffer(to, result, offer) ==
  /\ OffersOf(result) = {}
  /\ result # NoResult
  /\ offer # NoOffer \/ (result = COVERED /\ to = COMPLETED)

Completes(to) == to = COMPLETED /\ case.status # COMPLETED
ChangedRowStillClosed(to, result, wantPin) ==
  [case EXCEPT !.status = to, !.result = result,
               !.pinRequired = IF Completes(to) THEN wantPin ELSE @ /\ to = COMPLETED,
               !.closed = @ \/ Completes(to)]
ChangedRow(to, result, wantPin) ==
  [case EXCEPT !.status = to, !.result = result,
               !.pinRequired = IF Completes(to) THEN wantPin ELSE @ /\ to = COMPLETED,
               !.closed = (@ \/ Completes(to)) /\ to = COMPLETED]

(* changeStatus, first half of its transaction: the case row is locked, then
   the payments are read without a lock, then everything is decided. *)
ChangeStatus(r, technician, to, newResult, offer, noted, wantPin) ==
  LET result == EffectiveResult(to, newResult)
      creates == CreatesOffer(to, result, offer)
  IN /\ pc[r] = "idle"
     /\ LockCase(r)
     /\ offer # NoOffer => OfferFits(to, result, offer)
     /\ technician => TechnicianMay(to, RepairingOffer(to, result, offer, noted))
     /\ ~Replayed(to, result, offer, noted)
     /\ case.partsWaiting => to = INVESTIGATING
     /\ to = COMPLETED => result # NoResult
     /\ PaymentsAllow(to, result, offer)
     /\ creates => RoomForOffer
     /\ Goto(r, "status")
     /\ Hold(r, [Blank EXCEPT
          !.row = ChangedRow(to, result, wantPin),
          !.offer = IF ~creates THEN NoOffer
                    ELSE IF offer # NoOffer THEN offer
                    ELSE [Absent EXCEPT !.status = "pending"]])
     /\ UNCHANGED <<tables, ghosts, fresh>>

(* changeStatus, second half: the case, its offer and the history row are
   written and committed together. Clearing the pickup of a reopened case and
   issuing the PIN of a completed one come after the commit. *)
ChangeStatusCommit(r) ==
  /\ pc[r] = "status"
  /\ case' = mem[r].row
  /\ recorded' = mem[r].row.status
  /\ IF mem[r].offer = NoOffer THEN UNCHANGED offers ELSE Insert(mem[r].offer)
  /\ NewHistoryRow
  /\ UnlockCase(r)
  /\ Goto(r, CASE case.status = COMPLETED /\ case'.status < COMPLETED -> "reset"
               [] case.status < COMPLETED /\ case'.pinRequired -> "issue"
               [] OTHER -> "idle")
  /\ Hold(r, Blank)
  /\ CountHandovers
  /\ UNCHANGED <<pickup, paidEver>>

(* findOne() followed by a change of the entity in memory. *)
LoadCase(r, row, then) ==
  /\ pc[r] = "idle"
  /\ Goto(r, "save")
  /\ Hold(r, [Blank EXCEPT !.row = row, !.seen = Live, !.then = then])
  /\ fresh' = fresh \cup {r}
  /\ UNCHANGED <<tables, ghosts, lock>>

(* update: edits only columns the workflow does not look at, but saves them
   all. *)
UpdateOfStatusToo(r) ==
  \E status \in CaseStatusLevel : LoadCase(r, [case EXCEPT !.status = status], "idle")
Update(r) == LoadCase(r, case, "idle")

Reopen(r) ==
  /\ case.status = COMPLETED
  /\ LoadCase(r, [case EXCEPT !.status = PENDING, !.closed = FALSE,
                              !.pinRequired = FALSE], "reopenReset")

StartPartsWaiting(r) ==
  /\ case.status = INVESTIGATING
  /\ ~case.partsWaiting
  /\ LoadCase(r, [case EXCEPT !.partsWaiting = TRUE], "partsNote")

ReceivePartsWaiting(r) ==
  /\ case.partsWaiting
  /\ LoadCase(r, [case EXCEPT !.partsWaiting = FALSE], "partsNote")

(* casesRepository.save(case_): the comparison... *)
CaseColumns == {"status", "result", "closed", "pinRequired", "partsWaiting"}
SaveCase(r) ==
  /\ pc[r] = "save"
  /\ RelationsComplete(r)
  /\ Goto(r, "write")
  /\ Hold(r, [mem[r] EXCEPT !.dirty = Changed(mem[r].row, case, CaseColumns)])
  /\ fresh' = fresh \ {r}
  /\ UNCHANGED <<tables, ghosts, lock>>

SaveCaseFails(r) ==
  /\ pc[r] = "save"
  /\ ~RelationsComplete(r)
  /\ Return(r)
  /\ fresh' = fresh \ {r}
  /\ UNCHANGED <<tables, ghosts, lock>>

(* ...and the update, which waits for the lock on the row. *)
Column(r, c) == IF c \in mem[r].dirty THEN mem[r].row[c] ELSE case[c]
WriteCase(r) ==
  /\ pc[r] = "write"
  /\ Free
  /\ case' = [status |-> Column(r, "status"), result |-> Column(r, "result"),
               closed |-> Column(r, "closed"),
               pinRequired |-> Column(r, "pinRequired"),
               partsWaiting |-> Column(r, "partsWaiting")]
  /\ Goto(r, mem[r].then)
  /\ Hold(r, Blank)
  /\ CountHandovers
  /\ UNCHANGED <<recorded, offers, pickup, lock, fresh, paidEver>>

(* createHistoryEntry: the foreign key waits for the lock on the case row. *)
CreateHistoryEntry(r, status) ==
  /\ Free
  /\ recorded' = status
  /\ NewHistoryRow
  /\ Return(r)
  /\ UNCHANGED <<case, offers, pickup, lock, ghosts>>

ReopenNote(r) == pc[r] = "reopenNote" /\ CreateHistoryEntry(r, PENDING)
PartsNote(r) == pc[r] = "partsNote" /\ CreateHistoryEntry(r, recorded)

AddInternalNote(r) == pc[r] = "idle" /\ CreateHistoryEntry(r, recorded)
=============================================================================
