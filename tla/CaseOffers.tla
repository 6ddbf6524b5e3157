----------------------------- MODULE CaseOffers ------------------------------
(***************************************************************************)
(* payments.service and bog.service: the offers of a case and the payments *)
(* made on them. Every handler reads a row, awaits something, and saves    *)
(* the entity it holds; no handler locks.                                  *)
(***************************************************************************)
EXTENDS CaseStore

(* createOffer: the case and the offers of this type are looked up... *)
CreateOffer(r, type, amount) ==
  /\ pc[r] = "idle"
  /\ case.status \in {PENDING, COMPLETED}
  /\ type = PAYABLE => case.status = PENDING
  /\ OffersOf(type) = {}
  /\ RoomForOffer
  /\ Goto(r, "insertOffer")
  /\ Hold(r, [Blank EXCEPT
       !.offer = [type |-> type, status |-> "pending", amount |-> amount]])
  /\ UNCHANGED <<tables, ghosts, lock, fresh>>

(* ...and the new row is inserted; its foreign key waits for the lock on the
   case row, not for anything that was read. *)
InsertOffer(r) ==
  /\ pc[r] = "insertOffer"
  /\ Free
  /\ Insert(mem[r].offer)
  /\ Return(r)
  /\ UNCHANGED <<case, recorded, pickup, lock, fresh, ghosts>>

(* findOne() of a payment and a change of the entity in memory. *)
LoadOffer(r, o, entity, step) ==
  /\ pc[r] = "idle"
  /\ o \in Live
  /\ Goto(r, step)
  /\ Hold(r, [Blank EXCEPT !.key = o, !.offer = entity])
  /\ UNCHANGED <<tables, ghosts, lock, fresh>>

(* update *)
UpdateOffer(r, o, amount) ==
  /\ offers[o].status # "paid"
  /\ LoadOffer(r, o, [offers[o] EXCEPT !.amount = amount], "saveOffer")

MarkAsPaid(r, o) ==
  /\ offers[o].type = PAYABLE
  /\ offers[o].status # "paid"
  /\ LoadOffer(r, o, [offers[o] EXCEPT !.status = "paid"], "confirmOffer")

MarkAsFailed(r, o) ==
  /\ offers[o].type = PAYABLE
  /\ LoadOffer(r, o, [offers[o] EXCEPT !.status = "failed"], "saveOffer")

(* The entity is held while the SMS gateway answers; last_reminder_sent_at is
   the column it changes, the others are saved as they were read. *)
SendAnyReminder(r, o) ==
  /\ offers[o].type = PAYABLE
  /\ LoadOffer(r, o, offers[o], "saveOffer")
SendPaymentReminder(r, o) ==
  /\ offers[o].type = PAYABLE
  /\ offers[o].status = "pending"
  /\ LoadOffer(r, o, offers[o], "saveOffer")

(* The same around the call to the bank; bog_transaction_id is the column. *)
InitiatePayment(r, o) ==
  /\ offers[o].status = "pending"
  /\ LoadOffer(r, o, offers[o], "saveOffer")

(* The bank calls back whenever it wants, as often as it wants. *)
HandleCallback(r, o, outcome) ==
  \/ outcome = "completed" /\ MarkAsPaid(r, o)
  \/ outcome = "failed" /\ MarkAsFailed(r, o)

(* paymentsRepository.save(payment): the row is read and compared... *)
OfferColumns == {"status", "amount"}
SaveOffer(r) ==
  /\ pc[r] \in {"saveOffer", "confirmOffer"}
  /\ Goto(r, IF mem[r].key \in Live THEN "writeOffer" ELSE "insertAgain")
  /\ Hold(r, [mem[r] EXCEPT
       !.then = pc[r],
       !.dirty = Changed(mem[r].offer, offers[mem[r].key], OfferColumns)])
  /\ UNCHANGED <<tables, ghosts, lock, fresh>>

(* ...then the columns that differed are updated, in a row that may be gone... *)
Overwritten(offer, r) ==
  [offer EXCEPT
     !.status = IF "status" \in mem[r].dirty THEN mem[r].offer.status ELSE @,
     !.amount = IF "amount" \in mem[r].dirty THEN mem[r].offer.amount ELSE @]
WriteOffer(r) ==
  /\ pc[r] = "writeOffer"
  /\ offers' = [offers EXCEPT ![mem[r].key] =
                  IF mem[r].key \in Live THEN Overwritten(@, r) ELSE @]
  /\ paidEver' = (paidEver \/ PayablePaid')
  /\ Return(r)
  /\ UNCHANGED <<case, recorded, pickup, lock, fresh, handovers>>

(* ...and a row that was gone already is inserted again, unless another request
   has done so (the key is taken). The insertion waits for the case row. *)
InsertAgain(r) ==
  /\ pc[r] = "insertAgain"
  /\ Free
  /\ offers' = [offers EXCEPT ![mem[r].key] =
                  IF mem[r].key \in Live THEN @ ELSE mem[r].offer]
  /\ paidEver' = (paidEver \/ PayablePaid')
  /\ Return(r)
  /\ UNCHANGED <<case, recorded, pickup, lock, fresh, handovers>>

Remove(r, o) ==
  /\ offers[o].status = "pending"
  /\ LoadOffer(r, o, Absent, "deleteOffer")

DeleteOffer(r) ==
  /\ pc[r] = "deleteOffer"
  /\ offers' = [offers EXCEPT ![mem[r].key] = Removed]
  /\ Return(r)
  /\ UNCHANGED <<case, recorded, pickup, lock, fresh, ghosts>>
=============================================================================
