----------------------------- MODULE CasePickup ------------------------------
(***************************************************************************)
(* pickup.service: handing the repaired device back, with a PIN or without *)
(* one. The transactions lock the pickup row. completedCase() is their      *)
(* first plain read, so InnoDB lets every later plain read of the          *)
(* transaction see the tables as they were then; locking reads and updates *)
(* see the newest rows.                                                    *)
(***************************************************************************)
EXTENDS CaseStore

(* completedCase(), as far as it lets a request go on. *)
PaidCase ==
  case.result = PAYABLE => PayablePaid
CompletedCase ==
  /\ case.status = COMPLETED
  /\ case.result = PAYABLE => PayablePaid

LoadCompleted(r, step) ==
  /\ Goto(r, step)
  /\ Hold(r, [Blank EXCEPT !.snapshot = pickup])
  /\ UNCHANGED <<tables, ghosts, fresh>>

(* issue, called by a route or by changeStatus after its commit. *)
Issue(r) ==
  /\ pc[r] \in {"idle", "issue"}
  /\ CompletedCase
  /\ case.pinRequired
  /\ LoadCompleted(r, "issuing")
  /\ UNCHANGED lock

(* changeStatus turns a refusal into a warning and returns. *)
IssueRefused(r) ==
  /\ pc[r] = "issue"
  /\ ~(CompletedCase /\ case.pinRequired)
  /\ Return(r)
  /\ UNCHANGED <<tables, ghosts, lock, fresh>>

(* manager.save(pickup) compares the entity with the row its snapshot shows:
   without a row there it inserts one, and fails if there is one by now. An
   insertion waits for the lock on the case row. *)
InsertsTwice(r) == mem[r].snapshot.pin = "absent" /\ pickup.pin # "absent"
MaySave(r) == ~InsertsTwice(r) /\ (pickup.pin = "absent" => lock \in {Nobody, r})

(* With a row, columns equal to the snapshot are not updated. New dates always
   differ, and pin_hash, which is not selected, counts as different. *)
SavePickup(r, held) ==
  pickup' = [held EXCEPT
    !.attempts = IF @ = mem[r].snapshot.attempts THEN pickup.attempts ELSE @,
    !.locked = IF @ = "no" /\ mem[r].snapshot.locked = "no"
               THEN pickup.locked ELSE @]

PickupSaveFails(r) ==
  /\ pc[r] \in {"issuing", "verifying", "collecting"}
  /\ InsertsTwice(r)
  /\ UnlockCase(r)
  /\ Return(r)
  /\ UNCHANGED <<tables, ghosts, fresh>>

IssueAlreadyCollected(r) ==
  /\ pc[r] = "issuing"
  /\ pickup.collected
  /\ Return(r)
  /\ UNCHANGED <<tables, ghosts, lock, fresh>>

IssueCommit(r) ==
  /\ pc[r] = "issuing"
  /\ ~pickup.collected
  /\ MaySave(r)
  /\ SavePickup(r, [pickup EXCEPT !.pin = "active", !.attempts = 0, !.locked = "no"])
  /\ Return(r)
  /\ UNCHANGED <<case, recorded, offers, lock, fresh, paidEver, handovers>>

Verify(r) ==
  /\ pc[r] = "idle"
  /\ CompletedCase
  /\ case.pinRequired
  /\ LoadCompleted(r, "verifying")
  /\ UNCHANGED lock

(* The PIN is compared only while the pickup row allows it. *)
Verifiable ==
  pickup.pin = "active" /\ ~pickup.collected /\ pickup.locked # "ahead"

VerifyRefused(r) ==
  /\ pc[r] = "verifying"
  /\ ~Verifiable
  /\ Return(r)
  /\ UNCHANGED <<tables, ghosts, lock, fresh>>

LimitPassed(attempts) == attempts > MaxAttempts
LimitReached(attempts) == attempts >= MaxAttempts
AttemptsLeft == pickup.attempts - 1
FailedAttempts == (IF pickup.locked # "no" THEN 0 ELSE pickup.attempts) + 1

VerifyWrong(r) ==
  /\ pc[r] = "verifying"
  /\ Verifiable
  /\ MaySave(r)
  /\ SavePickup(r, [pickup EXCEPT
       !.attempts = FailedAttempts,
       !.locked = IF LimitReached(FailedAttempts) THEN "ahead" ELSE "no"])
  /\ Return(r)
  /\ UNCHANGED <<case, recorded, offers, lock, fresh, paidEver, handovers>>

VerifyRight(r) ==
  /\ pc[r] = "verifying"
  /\ Verifiable
  /\ MaySave(r)
  /\ SavePickup(r, [pickup EXCEPT !.pin = "none", !.locked = "no", !.collected = TRUE])
  /\ handovers' = handovers + 1
  /\ Return(r)
  /\ UNCHANGED <<case, recorded, offers, lock, fresh, paidEver>>

(* collectWithoutPin locks the case row before it reads anything. *)
CollectWithoutPin(r) ==
  /\ pc[r] = "idle"
  /\ LockCase(r)
  /\ CompletedCase
  /\ ~case.pinRequired
  /\ LoadCompleted(r, "collecting")

CollectableAgain == TRUE
Collectable == ~pickup.collected
RefusedUnderLock(r) ==
  pc[r] = "collecting" /\ ~Collectable /\ Return(r) /\ UNCHANGED <<tables, ghosts, lock, fresh>>
CollectRefused(r) ==
  /\ pc[r] = "collecting"
  /\ ~Collectable
  /\ UnlockCase(r)
  /\ Return(r)
  /\ UNCHANGED <<tables, ghosts, fresh>>

CollectCommit(r) ==
  /\ pc[r] = "collecting"
  /\ Collectable
  /\ MaySave(r)
  /\ pickup' = [pickup EXCEPT !.collected = TRUE,
                              !.pin = IF @ = "absent" THEN "none" ELSE @]
  /\ handovers' = handovers + 1
  /\ UnlockCase(r)
  /\ Return(r)
  /\ UNCHANGED <<case, recorded, offers, fresh, paidEver>>

(* resetForReopen, after the status move it belongs to has been committed: one
   UPDATE of every column, if there is a row. *)
ResetForReopen(r) ==
  /\ pc[r] \in {"reset", "reopenReset"}
  /\ pickup' = [NoPickup EXCEPT !.pin = IF pickup.pin = "absent" THEN @ ELSE "none"]
  /\ Goto(r, IF pc[r] = "reset" THEN "idle" ELSE "reopenNote")
  /\ UNCHANGED <<case, recorded, offers, lock, mem, fresh, paidEver, handovers>>

(* Time: a PIN lives 30 days, a lockout lasts 15 minutes, which is longer than
   a request may wait for a row lock (50 seconds). *)
PinExpires ==
  /\ pickup.pin = "active"
  /\ pickup' = [pickup EXCEPT !.pin = "expired"]
  /\ UNCHANGED <<case, recorded, offers, lock, pc, mem, fresh, ghosts>>

LockoutEnds ==
  /\ pickup.locked = "ahead"
  /\ \A r \in Requests : pc[r] \notin {"issuing", "verifying"}
  /\ pickup' = [pickup EXCEPT !.locked = "past"]
  /\ UNCHANGED <<case, recorded, offers, lock, pc, mem, fresh, paidEver, handovers>>
=============================================================================
