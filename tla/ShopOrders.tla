----------------------------- MODULE ShopOrders ------------------------------
(***************************************************************************)
(* One order of the web shop and its card payment: the row of shop_orders, *)
(* the row of shop_payment_attempts, the order the bank keeps, and the      *)
(* requests that work on them (shop.service, shop-payments.service).       *)
(*                                                                         *)
(* No handler takes a lock. Each loads entities, awaits something, and     *)
(* saves them; save() reads the row again and updates the columns that     *)
(* differ from the entity.                                                 *)
(***************************************************************************)
EXTENDS Integers

CONSTANTS
  Requests,   \* the HTTP calls that may be served at the same time
  MaxCrashes  \* bound: requests that die half way

ASSUME MaxCrashesAssumption == MaxCrashes \in Nat

VARIABLES
  row,       \* whether shop_orders has the order: not yet, stored, deleted
  order,     \* its columns
  source,    \* its column `source`, which no handler changes
  attempt,   \* the row of shop_payment_attempts
  bank,      \* how far the order is at the bank
  pc, mem,   \* the next step of every request and the entities it holds
  recorded,  \* history variable: the order was once saved as paid or refunded
  crashes    \* requests that died

vars == <<row, order, source, attempt, bank, pc, mem, recorded, crashes>>
tables == <<row, order, source, attempt, recorded>>
-----------------------------------------------------------------------------
(* ShopOrderStatus; "new" is draft and cancelled too: no rule tells them apart. *)
ShopOrderStatus == {"new", "processing", "completed"}
PaymentStatus == {"unpaid", "pending", "paid", "failed", "refunded"}

(* `online`: payment_method is online. `deleted`: deleted_at is set. *)
ShopOrder ==
  [status : ShopOrderStatus, payment : PaymentStatus,
   online : BOOLEAN, deleted : BOOLEAN]

(* `linked`: provider_order_id is set. "refunded" is refunded_partially too;
   "none": there is no attempt. *)
ShopPaymentAttempt ==
  [status : {"none", "created", "pending", "paid", "failed", "refunded"},
   linked : BOOLEAN]

(* The bank makes an order, the customer gets the link to it ("open"), pays or
   is rejected (as is an order nobody pays), and may be given back the money. *)
BankStates == {"none", "created", "open", "completed", "rejected", "refunded"}

(* The states the bank calls back with, late ones and repeated ones included. *)
Announced ==
  CASE bank = "none" -> {}
    [] bank \in {"created", "open"} -> {"processing"}
    [] bank \in {"completed", "rejected"} -> {"processing", bank}
    [] bank = "refunded" -> {"processing", "completed", "refunded"}

NewOrder(online) ==
  [status |-> IF online THEN "new" ELSE "processing",
   payment |-> IF online THEN "pending" ELSE "unpaid",
   online |-> online, deleted |-> FALSE]
NoAttempt == [status |-> "none", linked |-> FALSE]

Steps ==
  {"idle", "createAttempt", "callBank", "redirect", "callbackOrder", "poll",
   "receipt", "remove", "saveOrder", "writeOrder", "saveAttempt", "writeAttempt"}
OrderColumns == {"status", "payment", "online", "deleted"}
AttemptColumns == {"status", "linked"}

(* The entities, the state a callback announces, what save() has found (the
   columns that differ, or no row), and the step after it. *)
Memory ==
  [order : ShopOrder, attempt : ShopPaymentAttempt, state : BankStates,
   dirty : SUBSET (OrderColumns \union AttemptColumns), insert : BOOLEAN,
   then : {"idle", "redirect", "saveOrder", "saveAttempt"}]
Blank ==
  [order |-> NewOrder(TRUE), attempt |-> NoAttempt, state |-> "none",
   dirty |-> {}, insert |-> FALSE, then |-> "idle"]

Init ==
  /\ row = "none"
  /\ order = NewOrder(TRUE)
  /\ source = "none"
  /\ attempt = NoAttempt
  /\ bank = "none"
  /\ pc = [r \in Requests |-> "idle"]
  /\ mem = [r \in Requests |-> Blank]
  /\ recorded = FALSE
  /\ crashes = 0

Goto(r, step) == pc' = [pc EXCEPT ![r] = step]
Hold(r, held) == mem' = [mem EXCEPT ![r] = held]
Return(r) == Goto(r, "idle") /\ Hold(r, Blank)
Stored == row = "stored"
-----------------------------------------------------------------------------
(* createPublicOrder: the order is inserted; an online one is then started at
   the bank. *)
CreatePublicOrder(r, online) ==
  /\ pc[r] = "idle"
  /\ row = "none"
  /\ row' = "stored"
  /\ order' = NewOrder(online)
  /\ source' = IF online THEN "bog" ELSE "onsite"
  /\ IF online
     THEN /\ Goto(r, "createAttempt")
          /\ Hold(r, [Blank EXCEPT !.order = NewOrder(online)])
     ELSE Return(r)
  /\ UNCHANGED <<attempt, bank, recorded, crashes>>

(* start: the attempt is inserted, unless online payment has been switched off
   or the order (foreign key) was deleted by now. *)
CreateAttempt(r) ==
  /\ pc[r] = "createAttempt"
  /\ Stored
  /\ attempt' = [status |-> "created", linked |-> FALSE]
  /\ Goto(r, "callBank")
  /\ Hold(r, [mem[r] EXCEPT !.attempt = [status |-> "created", linked |-> FALSE]])
  /\ UNCHANGED <<row, order, source, bank, recorded, crashes>>
OnlineUnavailable(r) ==
  /\ pc[r] = "createAttempt"
  /\ Return(r)
  /\ UNCHANGED <<tables, bank, crashes>>

(* The bank answers with a link. *)
LinkForgotten(held) == [held EXCEPT !.status = "pending"]
Linked(held) == [held EXCEPT !.status = "pending", !.linked = TRUE]
BankAnswers(r) ==
  /\ pc[r] = "callBank"
  /\ bank' = "created"
  /\ Goto(r, "saveAttempt")
  /\ Hold(r, [mem[r] EXCEPT !.attempt = Linked(mem[r].attempt), !.then = "redirect"])
  /\ UNCHANGED <<tables, crashes>>

(* The catch block: the attempt and the order as they were loaded are saved as
   failed. *)
StartFails(r) ==
  /\ Goto(r, "saveAttempt")
  /\ Hold(r, [mem[r] EXCEPT !.attempt.status = "failed", !.order.payment = "failed",
                            !.then = "saveOrder"])
  /\ UNCHANGED <<tables, crashes>>

(* The bank was not reached, or its answer was lost or malformed. *)
BankFails(r) ==
  /\ pc[r] = "callBank"
  /\ bank' \in {"none", "created"}
  /\ StartFails(r)

(* The event is logged and the customer is sent to the bank, or the log or the
   save of the attempt before it fails. *)
Redirect(r) ==
  /\ pc[r] = "redirect"
  /\ bank' = IF bank = "created" THEN "open" ELSE bank
  /\ Return(r)
  /\ UNCHANGED <<tables, crashes>>
LinkingFails(r) ==
  /\ pc[r] = "redirect" \/ (pc[r] = "saveAttempt" /\ mem[r].then = "redirect")
  /\ StartFails(r)
  /\ UNCHANGED bank

(* The bank's side. *)
Pay == bank = "open" /\ bank' \in {"completed", "rejected"}
Expire == bank = "created" /\ bank' = "rejected"
Refund == bank = "completed" /\ bank' = "refunded"
Bank ==
  /\ Pay \/ Expire \/ Refund
  /\ UNCHANGED <<tables, pc, mem, crashes>>
-----------------------------------------------------------------------------
(* Two entities are saved one after the other. *)
SaveBoth(r, anOrder, anAttempt) ==
  /\ Goto(r, "saveOrder")
  /\ Hold(r, [Blank EXCEPT !.order = anOrder, !.attempt = anAttempt,
                           !.then = "saveAttempt"])

PaysInStatus(anOrder) == [anOrder EXCEPT !.status = "paid"]
Pays(anOrder) == [anOrder EXCEPT !.payment = "paid", !.status = "processing"]
Fails(anOrder) == [anOrder EXCEPT !.payment = "failed"]
Marked(anAttempt, status) == [anAttempt EXCEPT !.status = status]

(* callback: the attempt is loaded... *)
Callback(r, state) ==
  /\ pc[r] = "idle"
  /\ state \in Announced
  /\ attempt.linked
  /\ Goto(r, "callbackOrder")
  /\ Hold(r, [Blank EXCEPT !.attempt = attempt, !.state = state])
  /\ UNCHANGED <<tables, bank, crashes>>

(* ...then the order. A failed payment does not change an order that is paid;
   the attempt is saved in every case but a repeated confirmation. *)
CallbackOrder(r) ==
  LET held == mem[r].attempt
      state == mem[r].state
      paid == order.payment = "paid"
  IN
  /\ pc[r] = "callbackOrder"
  /\ Stored
  /\ \/ /\ state = "completed" /\ held.status = "paid"
        /\ Return(r)
     \/ /\ state = "completed" /\ held.status # "paid"
        /\ SaveBoth(r, Pays(order), Marked(held, "paid"))
     \/ /\ state = "rejected" /\ ~paid
        /\ SaveBoth(r, Fails(order), Marked(held, "failed"))
     \/ /\ state = "refunded"
        /\ SaveBoth(r, [order EXCEPT !.payment = "refunded"], Marked(held, "refunded"))
     \/ /\ state \in {"processing", "rejected"}
        /\ state = "rejected" => paid
        /\ Goto(r, "saveAttempt")
        /\ Hold(r, [Blank EXCEPT
             !.attempt = IF paid THEN held ELSE Marked(held, "pending")])
  /\ UNCHANGED <<tables, bank, crashes>>

(* publicStatus: the customer's page asks; the order is loaded, then the
   attempt, then the bank is asked for the receipt. *)
PublicStatus(r) ==
  /\ pc[r] = "idle"
  /\ Stored
  /\ order.payment = "pending"
  /\ Goto(r, "poll")
  /\ Hold(r, [Blank EXCEPT !.order = order])
  /\ UNCHANGED <<tables, bank, crashes>>
Poll(r) ==
  /\ pc[r] = "poll"
  /\ IF attempt.linked
     THEN /\ Goto(r, "receipt")
          /\ Hold(r, [mem[r] EXCEPT !.attempt = attempt])
     ELSE Return(r)
  /\ UNCHANGED <<tables, bank, crashes>>

ReceiptOfAnyOutcome(r) ==
  SaveBoth(r, Pays(mem[r].order), Marked(mem[r].attempt, "paid"))
ReceiptOutcome(r) ==
  \/ /\ bank = "completed"
     /\ SaveBoth(r, Pays(mem[r].order), Marked(mem[r].attempt, "paid"))
  \/ /\ bank = "rejected"
     /\ SaveBoth(r, Fails(mem[r].order), Marked(mem[r].attempt, "failed"))
Receipt(r) ==
  /\ pc[r] = "receipt"
  /\ ReceiptOutcome(r)
  /\ UNCHANGED <<tables, bank, crashes>>
NoReceipt(r) ==
  /\ pc[r] = "receipt"
  /\ Return(r)
  /\ UNCHANGED <<tables, bank, crashes>>
-----------------------------------------------------------------------------
(* The staff's handlers load the order, in the trash or not: a condition with
   the value null, as in deleted_at: null, is left out of the query. *)
LoadOrder(r, entity) ==
  /\ pc[r] = "idle"
  /\ Stored
  /\ Goto(r, "saveOrder")
  /\ Hold(r, [Blank EXCEPT !.order = entity])
  /\ UNCHANGED <<tables, bank, crashes>>

(* updateOrder; a column that is not given keeps its value. *)
MayCompleteUnpaid(status) == TRUE
MayComplete(status) ==
  order.online /\ status = "completed" => order.payment = "paid"
UpdateOrder(r, status, online) ==
  /\ status = order.status \/ MayComplete(status)
  /\ order.online => online
  /\ LoadOrder(r, [order EXCEPT !.status = status, !.online = online])

SoftDeleteOrder(r) == ~order.deleted /\ LoadOrder(r, [order EXCEPT !.deleted = TRUE])
RestoreOrder(r) == LoadOrder(r, [order EXCEPT !.deleted = FALSE])

(* permanentlyDeleteOrder: hasAttempts, then the removal, which the foreign key
   refuses if there is an attempt by now. *)
PermanentlyDeleteOrder(r) ==
  /\ pc[r] = "idle"
  /\ Stored
  /\ attempt.status = "none"
  /\ Goto(r, "remove")
  /\ UNCHANGED <<tables, bank, mem, crashes>>
Delete == row' = IF attempt.status = "none" THEN "gone" ELSE row
RemoveOrder(r) ==
  /\ pc[r] = "remove"
  /\ Delete
  /\ Return(r)
  /\ UNCHANGED <<order, source, attempt, bank, recorded, crashes>>

(* purgeExpiredTrash: one DELETE at the start of a list or of the creation of
   another order. Time is left out: what is in the trash may be old. *)
PurgeExpiredTrash ==
  /\ Stored
  /\ order.deleted
  /\ attempt.status = "none"
  /\ Delete
  /\ UNCHANGED <<order, source, attempt, bank, pc, mem, recorded, crashes>>
-----------------------------------------------------------------------------
(* save() of an order: the row is read and compared... *)
SaveOrder(r) ==
  /\ pc[r] = "saveOrder"
  /\ Goto(r, "writeOrder")
  /\ Hold(r, [mem[r] EXCEPT
       !.dirty = {c \in OrderColumns : mem[r].order[c] # order[c]},
       !.insert = ~Stored])
  /\ UNCHANGED <<tables, bank, crashes>>

(* ...then updated, or inserted again if it was gone. *)
Overwritten(r) ==
  [c \in OrderColumns |-> IF c \in mem[r].dirty THEN mem[r].order[c] ELSE order[c]]
Saved(r) ==
  /\ Goto(r, mem[r].then)
  /\ Hold(r, IF mem[r].then = "idle" THEN Blank
             ELSE [mem[r] EXCEPT !.dirty = {}, !.insert = FALSE, !.then = "idle"])
WriteOrder(r) ==
  /\ pc[r] = "writeOrder"
  /\ \/ /\ mem[r].insert /\ ~Stored
        /\ row' = "stored"
        /\ order' = mem[r].order
     \/ /\ ~mem[r].insert /\ Stored
        /\ order' = Overwritten(r)
        /\ UNCHANGED row
     \/ /\ mem[r].insert = Stored
        /\ UNCHANGED <<row, order>>
  /\ recorded' = (recorded \/ order'.payment \in {"paid", "refunded"})
  /\ Saved(r)
  /\ UNCHANGED <<source, attempt, bank, crashes>>

(* save() of an attempt; attempts are never deleted. *)
SaveAttempt(r) ==
  /\ pc[r] = "saveAttempt"
  /\ Goto(r, "writeAttempt")
  /\ Hold(r, [mem[r] EXCEPT
       !.dirty = {c \in AttemptColumns : mem[r].attempt[c] # attempt[c]}])
  /\ UNCHANGED <<tables, bank, crashes>>
WriteAttempt(r) ==
  /\ pc[r] = "writeAttempt"
  /\ attempt' = [c \in AttemptColumns |->
       IF c \in mem[r].dirty THEN mem[r].attempt[c] ELSE attempt[c]]
  /\ Saved(r)
  /\ UNCHANGED <<row, order, source, bank, recorded, crashes>>

(* A request dies between two statements. *)
Crash(r) ==
  /\ pc[r] # "idle"
  /\ crashes < MaxCrashes
  /\ crashes' = crashes + 1
  /\ Return(r)
  /\ UNCHANGED <<tables, bank>>
-----------------------------------------------------------------------------
Calls(r) ==
  \/ \E online \in BOOLEAN : CreatePublicOrder(r, online)
  \/ \E state \in BankStates : Callback(r, state)
  \/ PublicStatus(r)
  \/ \E status \in ShopOrderStatus, online \in BOOLEAN : UpdateOrder(r, status, online)
  \/ SoftDeleteOrder(r)
  \/ RestoreOrder(r)
  \/ PermanentlyDeleteOrder(r)

Continue(r) ==
  \/ CreateAttempt(r) \/ OnlineUnavailable(r)
  \/ BankAnswers(r) \/ BankFails(r)
  \/ Redirect(r) \/ LinkingFails(r)
  \/ CallbackOrder(r)
  \/ Poll(r) \/ Receipt(r) \/ NoReceipt(r)
  \/ RemoveOrder(r)
  \/ SaveOrder(r) \/ WriteOrder(r)
  \/ SaveAttempt(r) \/ WriteAttempt(r)

Next ==
  \/ \E r \in Requests : Calls(r) \/ Continue(r) \/ Crash(r)
  \/ Bank
  \/ PurgeExpiredTrash

Spec == Init /\ [][Next]_vars

(* Every await is answered, and the bank repeats a confirmation until the shop
   has recorded it. *)
Fairness ==
  /\ \A r \in Requests : WF_vars(Continue(r))
  /\ SF_vars(~recorded /\ \E r \in Requests : Callback(r, "completed"))
FairSpec == Spec /\ Fairness
-----------------------------------------------------------------------------
TypeOK ==
  /\ row \in {"none", "stored", "gone"}
  /\ order \in ShopOrder
  /\ source \in {"none", "bog", "onsite"}
  /\ attempt \in ShopPaymentAttempt
  /\ bank \in BankStates
  /\ pc \in [Requests -> Steps]
  /\ mem \in [Requests -> Memory]
  /\ recorded \in BOOLEAN
  /\ crashes \in 0..MaxCrashes

(* The shop takes an order for paid only if the bank took the money, whatever
   callbacks, polls and edits save entities loaded earlier (callback,
   publicStatus, updateOrder). *)
Taken == bank \in {"completed", "refunded"}
PaidWasTaken == order.payment = "paid" \/ attempt.status = "paid" => Taken

(* An order checked out online is completed only if the bank took the money,
   whoever saves a stale order after updateOrder's check. *)
CompletedWasTaken == source = "bog" /\ order.status = "completed" => Taken

(* Why both hold: the same is true of what requests hold, an order checked out
   online stays online, and it is started at the bank once. *)
HeldWasTaken(r) ==
  /\ mem[r].order.payment = "paid" \/ mem[r].attempt.status = "paid" => Taken
  /\ mem[r].state = "completed" => Taken
  /\ source # "onsite" =>
       /\ mem[r].order.online
       /\ mem[r].order.status = "completed" => Taken
OnlineStaysOnline ==
  /\ row = "none" => source = "none"
  /\ source # "onsite" => /\ order.online
                          /\ order.status = "completed" => Taken
StartedOnce ==
  LET starting == {r \in Requests : pc[r] \in {"createAttempt", "callBank"}}
  IN /\ row = "none" => bank = "none" /\ starting = {}
     /\ starting # {} => bank = "none"
     /\ \A r, q \in starting : r = q
PaymentInv ==
  PaidWasTaken /\ OnlineStaysOnline /\ \A r \in Requests : HeldWasTaken(r)

(* A payment the bank has taken is recorded in the order at some time
   (callback, publicStatus). *)
PaymentIsRecorded == bank = "completed" ~> recorded
=============================================================================
