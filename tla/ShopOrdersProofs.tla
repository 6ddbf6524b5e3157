--------------------------- MODULE ShopOrdersProofs ---------------------------
(***************************************************************************)
(* ShopOrders: what the shop takes for paid was paid, for every number of  *)
(* requests. The entities that requests hold satisfy the same condition as *)
(* the rows, and the bank never takes a payment back. What was not yet     *)
(* recorded is confirmable: the link to the bank is not lost, and no       *)
(* attempt is marked paid before its order is.                             *)
(***************************************************************************)
EXTENDS ShopOrders, TLAPS

(* Blank memory and a new order are well typed. *)
LEMMA BlankTyped ==
  /\ Blank \in Memory
  /\ \A online \in BOOLEAN : NewOrder(online) \in ShopOrder
PROOF
  <1>1. \A online \in BOOLEAN : NewOrder(online) \in ShopOrder
    BY DEF NewOrder, ShopOrder, ShopOrderStatus, PaymentStatus
  <1>2. NoAttempt \in ShopPaymentAttempt
    BY DEF NoAttempt, ShopPaymentAttempt
  <1> QED
    BY <1>1, <1>2 DEF Blank, Memory, BankStates, Steps

(* A request that goes to a step with a well-typed memory keeps pc and mem
   well typed. *)
LEMMA GotoHoldTyped ==
  ASSUME pc \in [Requests -> Steps], mem \in [Requests -> Memory],
         NEW r \in Requests, NEW step \in Steps, NEW held \in Memory,
         Goto(r, step), Hold(r, held)
  PROVE  /\ pc' \in [Requests -> Steps]
         /\ mem' \in [Requests -> Memory]
PROOF BY DEF Goto, Hold

(* So does a request that returns. *)
LEMMA ReturnTyped ==
  ASSUME pc \in [Requests -> Steps], mem \in [Requests -> Memory],
         NEW r \in Requests, Return(r)
  PROVE  /\ pc' \in [Requests -> Steps]
         /\ mem' \in [Requests -> Memory]
PROOF
  <1>1. "idle" \in Steps
    BY DEF Steps
  <1> QED
    BY <1>1, BlankTyped, GotoHoldTyped DEF Return

(* And one that goes on to save two well-typed entities. *)
LEMMA SaveBothTyped ==
  ASSUME pc \in [Requests -> Steps], mem \in [Requests -> Memory],
         NEW r \in Requests, NEW anOrder \in ShopOrder,
         NEW anAttempt \in ShopPaymentAttempt, SaveBoth(r, anOrder, anAttempt)
  PROVE  /\ pc' \in [Requests -> Steps]
         /\ mem' \in [Requests -> Memory]
PROOF
  <1> DEFINE held == [Blank EXCEPT !.order = anOrder, !.attempt = anAttempt,
                                   !.then = "saveAttempt"]
  <1>1. "saveOrder" \in Steps /\ held \in Memory
    BY BlankTyped DEF Memory, Steps
  <1>2. Goto(r, "saveOrder") /\ Hold(r, held)
    BY DEF SaveBoth
  <1> HIDE DEF held
  <1> QED
    BY <1>1, <1>2, GotoHoldTyped

(* The changes handlers make to entities are well typed. *)
LEMMA EntitiesTyped ==
  ASSUME NEW anOrder \in ShopOrder, NEW anAttempt \in ShopPaymentAttempt
  PROVE  /\ Pays(anOrder) \in ShopOrder
         /\ Fails(anOrder) \in ShopOrder
         /\ [anOrder EXCEPT !.payment = "refunded"] \in ShopOrder
         /\ \A flag \in BOOLEAN : [anOrder EXCEPT !.deleted = flag] \in ShopOrder
         /\ \A status \in ShopOrderStatus, online \in BOOLEAN :
              [anOrder EXCEPT !.status = status, !.online = online] \in ShopOrder
         /\ Linked(anAttempt) \in ShopPaymentAttempt
         /\ \A status \in {"pending", "paid", "failed", "refunded"} :
              Marked(anAttempt, status) \in ShopPaymentAttempt
PROOF
  <1>1. /\ Pays(anOrder) \in ShopOrder
        /\ Fails(anOrder) \in ShopOrder
        /\ [anOrder EXCEPT !.payment = "refunded"] \in ShopOrder
    BY DEF Pays, Fails, ShopOrder, ShopOrderStatus, PaymentStatus
  <1>2. /\ \A flag \in BOOLEAN : [anOrder EXCEPT !.deleted = flag] \in ShopOrder
        /\ \A status \in ShopOrderStatus, online \in BOOLEAN :
              [anOrder EXCEPT !.status = status, !.online = online] \in ShopOrder
    BY DEF ShopOrder
  <1>3. /\ Linked(anAttempt) \in ShopPaymentAttempt
        /\ \A status \in {"pending", "paid", "failed", "refunded"} :
              Marked(anAttempt, status) \in ShopPaymentAttempt
    BY DEF Linked, Marked, ShopPaymentAttempt
  <1> QED
    BY <1>1, <1>2, <1>3

(* What save() makes of the rows is well typed. *)
LEMMA OverwrittenTyped ==
  ASSUME NEW r \in Requests, mem[r] \in Memory, order \in ShopOrder
  PROVE  Overwritten(r) \in ShopOrder
PROOF
  <1>1. mem[r].order \in ShopOrder
    BY DEF Memory
  <1>2. /\ DOMAIN Overwritten(r) = {"status", "payment", "online", "deleted"}
        /\ Overwritten(r).status \in {mem[r].order.status, order.status}
        /\ Overwritten(r).payment \in {mem[r].order.payment, order.payment}
        /\ Overwritten(r).online \in {mem[r].order.online, order.online}
        /\ Overwritten(r).deleted \in {mem[r].order.deleted, order.deleted}
    BY DEF Overwritten, OrderColumns
  <1> QED
    BY <1>1, <1>2 DEF ShopOrder, Overwritten, OrderColumns

(* The step after a save is typed. *)
LEMMA SavedTyped ==
  ASSUME pc \in [Requests -> Steps], mem \in [Requests -> Memory],
         NEW r \in Requests, Saved(r)
  PROVE  /\ pc' \in [Requests -> Steps]
         /\ mem' \in [Requests -> Memory]
PROOF
  <1> DEFINE held == IF mem[r].then = "idle" THEN Blank
             ELSE [mem[r] EXCEPT !.dirty = {}, !.insert = FALSE, !.then = "idle"]
  <1>1. mem[r].then \in Steps /\ held \in Memory
    BY BlankTyped DEF Memory, Steps
  <1>2. Goto(r, mem[r].then) /\ Hold(r, held)
    BY DEF Saved
  <1> HIDE DEF held
  <1> QED
    BY <1>1, <1>2, GotoHoldTyped
-----------------------------------------------------------------------------
(* The calls keep the types. *)
LEMMA CallsTyped ==
  ASSUME TypeOK, NEW r \in Requests, Calls(r)
  PROVE  TypeOK'
PROOF
  <1> USE DEF TypeOK
  <1>0. /\ pc \in [Requests -> Steps] /\ mem \in [Requests -> Memory]
        /\ Blank \in Memory /\ "idle" \in Steps
        /\ order \in ShopOrder /\ attempt \in ShopPaymentAttempt
    BY BlankTyped DEF Steps
  <1> DEFINE Moved == /\ pc' \in [Requests -> Steps]
                      /\ mem' \in [Requests -> Memory]
  <1>1. ASSUME NEW online \in BOOLEAN, CreatePublicOrder(r, online)
        PROVE  TypeOK'
    <2>1. NewOrder(online) \in ShopOrder
      BY BlankTyped
    <2>2. CASE online
      <3>1. [Blank EXCEPT !.order = NewOrder(online)] \in Memory /\ "createAttempt" \in Steps
        BY <2>1, BlankTyped DEF Memory, Steps
      <3>2. /\ Goto(r, "createAttempt")
            /\ Hold(r, [Blank EXCEPT !.order = NewOrder(online)])
        BY <1>1, <2>2 DEF CreatePublicOrder
      <3>3. Moved
        BY <1>0, <3>1, <3>2, GotoHoldTyped
      <3> QED
        BY <1>1, <2>1, <3>3 DEF CreatePublicOrder
    <2>3. CASE ~online
      <3>1. Moved
        BY <1>0, <1>1, <2>3, ReturnTyped DEF CreatePublicOrder
      <3> QED
        BY <1>1, <2>1, <3>1 DEF CreatePublicOrder
    <2> QED
      BY <2>2, <2>3
  <1>2. ASSUME NEW state \in BankStates, Callback(r, state)
        PROVE  TypeOK'
    <2>1. /\ [Blank EXCEPT !.attempt = attempt, !.state = state] \in Memory
          /\ "callbackOrder" \in Steps
      BY <1>0 DEF Memory, Steps
    <2>2. Moved
      BY <1>0, <1>2, <2>1, GotoHoldTyped DEF Callback
    <2> QED
      BY <1>2, <2>2 DEF Callback, tables
  <1>3. ASSUME PublicStatus(r)
        PROVE  TypeOK'
    <2>1. [Blank EXCEPT !.order = order] \in Memory /\ "poll" \in Steps
      BY <1>0 DEF Memory, Steps
    <2>2. Moved
      BY <1>0, <1>3, <2>1, GotoHoldTyped DEF PublicStatus
    <2> QED
      BY <1>3, <2>2 DEF PublicStatus, tables
  <1>4. ASSUME NEW entity \in ShopOrder, LoadOrder(r, entity)
        PROVE  TypeOK'
    <2>1. [Blank EXCEPT !.order = entity] \in Memory /\ "saveOrder" \in Steps
      BY <1>0 DEF Memory, Steps
    <2>2. Moved
      BY <1>0, <1>4, <2>1, GotoHoldTyped DEF LoadOrder
    <2> QED
      BY <1>4, <2>2 DEF LoadOrder, tables
  <1>5. ASSUME PermanentlyDeleteOrder(r)
        PROVE  TypeOK'
    <2>1. "remove" \in Steps
      BY DEF Steps
    <2>2. Moved
      BY <1>0, <1>5, <2>1 DEF PermanentlyDeleteOrder, Goto
    <2> QED
      BY <1>5, <2>2 DEF PermanentlyDeleteOrder, tables
  <1>6. ASSUME NEW status \in ShopOrderStatus, NEW online \in BOOLEAN,
               UpdateOrder(r, status, online)
        PROVE  TypeOK'
    BY <1>0, <1>4, <1>6, EntitiesTyped DEF UpdateOrder
  <1>7. ASSUME SoftDeleteOrder(r) \/ RestoreOrder(r)
        PROVE  TypeOK'
    BY <1>0, <1>4, <1>7, EntitiesTyped DEF SoftDeleteOrder, RestoreOrder
  <1> QED
    BY <1>1, <1>2, <1>3, <1>5, <1>6, <1>7 DEF Calls

(* So do the steps of a call: those of start, of a callback and of a poll... *)
LEMMA BankStepsTyped ==
  ASSUME TypeOK, NEW r \in Requests,
         \/ CreateAttempt(r) \/ OnlineUnavailable(r)
         \/ BankAnswers(r) \/ BankFails(r)
         \/ Redirect(r) \/ LinkingFails(r)
         \/ CallbackOrder(r)
         \/ Poll(r) \/ Receipt(r) \/ NoReceipt(r)
  PROVE  TypeOK'
PROOF
  <1> USE DEF TypeOK
  <1>0. /\ pc \in [Requests -> Steps] /\ mem \in [Requests -> Memory]
        /\ Blank \in Memory /\ "idle" \in Steps
        /\ order \in ShopOrder /\ attempt \in ShopPaymentAttempt
        /\ mem[r].order \in ShopOrder /\ mem[r].attempt \in ShopPaymentAttempt
    BY BlankTyped DEF Steps, Memory
  <1> DEFINE Moved == /\ pc' \in [Requests -> Steps]
                      /\ mem' \in [Requests -> Memory]
  <1>1. CASE CreateAttempt(r)
    <2> DEFINE new == [status |-> "created", linked |-> FALSE]
    <2>1. new \in ShopPaymentAttempt
      BY DEF ShopPaymentAttempt
    <2>2. [mem[r] EXCEPT !.attempt = new] \in Memory /\ "callBank" \in Steps
      BY <1>0, <2>1 DEF Memory, Steps
    <2>3. Moved
      BY <1>0, <1>1, <2>2, GotoHoldTyped DEF CreateAttempt
    <2> QED
      BY <1>1, <2>1, <2>3 DEF CreateAttempt
  <1>2. CASE OnlineUnavailable(r)
    <2>1. Moved
      BY <1>0, <1>2, ReturnTyped DEF OnlineUnavailable
    <2> QED
      BY <1>2, <2>1 DEF OnlineUnavailable, tables
  <1>3. CASE BankAnswers(r)
    <2> DEFINE held == [mem[r] EXCEPT !.attempt = Linked(mem[r].attempt), !.then = "redirect"]
    <2>1. Linked(mem[r].attempt) \in ShopPaymentAttempt
      BY <1>0, EntitiesTyped
    <2>2. held \in Memory /\ "saveAttempt" \in Steps
      BY <1>0, <2>1 DEF Memory, Steps
    <2>3. Moved
      BY <1>0, <1>3, <2>2, GotoHoldTyped DEF BankAnswers
    <2> QED
      BY <1>3, <2>3 DEF BankAnswers, tables, BankStates
  <1>4. ASSUME StartFails(r), bank' \in BankStates
        PROVE  TypeOK'
    <2> DEFINE held == [mem[r] EXCEPT !.attempt.status = "failed",
                                      !.order.payment = "failed", !.then = "saveOrder"]
    <2>1. /\ [mem[r].attempt EXCEPT !.status = "failed"] \in ShopPaymentAttempt
          /\ [mem[r].order EXCEPT !.payment = "failed"] \in ShopOrder
      BY <1>0 DEF ShopPaymentAttempt, ShopOrder, PaymentStatus
    <2>2. held \in Memory /\ "saveAttempt" \in Steps
      BY <1>0, <2>1 DEF Memory, Steps
    <2>3. Moved
      BY <1>0, <1>4, <2>2, GotoHoldTyped DEF StartFails
    <2> QED
      BY <1>4, <2>3 DEF StartFails, tables
  <1>5. CASE BankFails(r)
    BY <1>4, <1>5 DEF BankFails, BankStates
  <1>6. CASE LinkingFails(r)
    BY <1>4, <1>6 DEF LinkingFails
  <1>7. CASE Redirect(r)
    <2>1. Moved
      BY <1>0, <1>7, ReturnTyped DEF Redirect
    <2> QED
      BY <1>7, <2>1 DEF Redirect, tables, BankStates
  <1>12. \A anOrder \in ShopOrder, anAttempt \in ShopPaymentAttempt :
           /\ Pays(anOrder) \in ShopOrder
           /\ Fails(anOrder) \in ShopOrder
           /\ [anOrder EXCEPT !.payment = "refunded"] \in ShopOrder
           /\ Marked(anAttempt, "paid") \in ShopPaymentAttempt
           /\ Marked(anAttempt, "failed") \in ShopPaymentAttempt
    BY EntitiesTyped
  <1>13. \A anAttempt \in ShopPaymentAttempt :
           /\ Marked(anAttempt, "refunded") \in ShopPaymentAttempt
           /\ Marked(anAttempt, "pending") \in ShopPaymentAttempt
    BY <1>0, EntitiesTyped
  <1>8. CASE CallbackOrder(r)
    <2>1. ASSUME NEW anOrder \in ShopOrder, NEW anAttempt \in ShopPaymentAttempt,
                 SaveBoth(r, anOrder, anAttempt)
          PROVE  Moved
      BY <1>0, <2>1, SaveBothTyped
    <2>2. ASSUME NEW anAttempt \in ShopPaymentAttempt, Goto(r, "saveAttempt"),
                 Hold(r, [Blank EXCEPT !.attempt = anAttempt])
          PROVE  Moved
      <3>1. [Blank EXCEPT !.attempt = anAttempt] \in Memory /\ "saveAttempt" \in Steps
        BY <1>0 DEF Memory, Steps
      <3> QED
        BY <1>0, <2>2, <3>1, GotoHoldTyped
    <2>3. ASSUME Return(r)
          PROVE  Moved
      BY <1>0, <2>3, ReturnTyped
    <2>4. \/ Return(r)
          \/ SaveBoth(r, Pays(order), Marked(mem[r].attempt, "paid"))
          \/ SaveBoth(r, Fails(order), Marked(mem[r].attempt, "failed"))
          \/ SaveBoth(r, [order EXCEPT !.payment = "refunded"],
                         Marked(mem[r].attempt, "refunded"))
          \/ /\ Goto(r, "saveAttempt")
             /\ Hold(r, [Blank EXCEPT !.attempt = IF order.payment = "paid" THEN mem[r].attempt
                                            ELSE Marked(mem[r].attempt, "pending")])
      BY <1>8 DEF CallbackOrder
    <2>5. Moved
      BY <1>0, <1>12, <1>13, <2>1, <2>2, <2>3, <2>4
    <2>6. UNCHANGED <<tables, bank, crashes>>
      BY <1>8 DEF CallbackOrder
    <2> QED
      BY <2>5, <2>6 DEF tables
  <1>9. CASE Poll(r)
    <2>1. [mem[r] EXCEPT !.attempt = attempt] \in Memory /\ "receipt" \in Steps
      BY <1>0 DEF Memory, Steps
    <2>2. Moved
      BY <1>0, <1>9, <2>1, GotoHoldTyped, ReturnTyped DEF Poll
    <2> QED
      BY <1>9, <2>2 DEF Poll, tables
  <1>10. CASE Receipt(r)
    <2>1. PICK anOrder \in ShopOrder, anAttempt \in ShopPaymentAttempt :
            SaveBoth(r, anOrder, anAttempt)
      BY <1>0, <1>10, <1>12 DEF Receipt, ReceiptOutcome
    <2>2. Moved
      BY <1>0, <2>1, SaveBothTyped
    <2> QED
      BY <1>10, <2>2 DEF Receipt, tables
  <1>11. CASE NoReceipt(r)
    <2>1. Moved
      BY <1>0, <1>11, ReturnTyped DEF NoReceipt
    <2> QED
      BY <1>11, <2>1 DEF NoReceipt, tables
  <1> QED
    BY <1>1, <1>2, <1>3, <1>5, <1>6, <1>7, <1>8, <1>9, <1>10, <1>11

(* ...and the removal and the saves. *)
LEMMA SavesTyped ==
  ASSUME TypeOK, NEW r \in Requests,
         \/ RemoveOrder(r)
         \/ SaveOrder(r) \/ WriteOrder(r)
         \/ SaveAttempt(r) \/ WriteAttempt(r)
  PROVE  TypeOK'
PROOF
  <1> USE DEF TypeOK
  <1>0. /\ pc \in [Requests -> Steps] /\ mem \in [Requests -> Memory]
        /\ order \in ShopOrder /\ attempt \in ShopPaymentAttempt
        /\ mem[r] \in Memory
        /\ mem[r].order \in ShopOrder /\ mem[r].attempt \in ShopPaymentAttempt
    BY DEF Memory
  <1> DEFINE Moved == /\ pc' \in [Requests -> Steps]
                      /\ mem' \in [Requests -> Memory]
  <1>1. CASE RemoveOrder(r)
    <2>1. Moved
      BY <1>0, <1>1, ReturnTyped DEF RemoveOrder
    <2> QED
      BY <1>1, <2>1 DEF RemoveOrder, Delete
  <1>2. CASE SaveOrder(r)
    <2> DEFINE held == [mem[r] EXCEPT
                 !.dirty = {c \in OrderColumns : mem[r].order[c] # order[c]},
                 !.insert = ~Stored]
    <2>1. held \in Memory /\ "writeOrder" \in Steps
      BY <1>0 DEF Memory, Steps, Stored
    <2>2. Moved
      BY <1>0, <1>2, <2>1, GotoHoldTyped DEF SaveOrder
    <2> QED
      BY <1>2, <2>2 DEF SaveOrder, tables
  <1>3. CASE WriteOrder(r)
    <2>1. Moved
      BY <1>0, <1>3, SavedTyped DEF WriteOrder
    <2>2. /\ row' \in {"none", "stored", "gone"}
          /\ order' \in ShopOrder
      BY <1>0, <1>3, OverwrittenTyped DEF WriteOrder
    <2> QED
      BY <1>3, <2>1, <2>2 DEF WriteOrder
  <1>4. CASE SaveAttempt(r)
    <2> DEFINE held == [mem[r] EXCEPT
                 !.dirty = {c \in AttemptColumns : mem[r].attempt[c] # attempt[c]}]
    <2>1. held \in Memory /\ "writeAttempt" \in Steps
      BY <1>0 DEF Memory, Steps
    <2>2. Moved
      BY <1>0, <1>4, <2>1, GotoHoldTyped DEF SaveAttempt
    <2> QED
      BY <1>4, <2>2 DEF SaveAttempt, tables
  <1>5. CASE WriteAttempt(r)
    <2>1. Moved
      BY <1>0, <1>5, SavedTyped DEF WriteAttempt
    <2>2. /\ attempt'.status \in {mem[r].attempt.status, attempt.status}
          /\ attempt'.linked \in {mem[r].attempt.linked, attempt.linked}
      BY <1>5 DEF WriteAttempt, AttemptColumns
    <2>3. attempt' \in ShopPaymentAttempt
      BY <1>0, <1>5, <2>2 DEF ShopPaymentAttempt, WriteAttempt, AttemptColumns
    <2> QED
      BY <1>5, <2>1, <2>3 DEF WriteAttempt
  <1> QED
    BY <1>1, <1>2, <1>3, <1>4, <1>5

(* Every step keeps the types. *)
LEMMA TypeStep ==
  ASSUME TypeOK, [Next]_vars
  PROVE  TypeOK'
PROOF
  <1>1. ASSUME NEW r \in Requests, Crash(r)
        PROVE  TypeOK'
    <2>1. /\ pc' \in [Requests -> Steps]
          /\ mem' \in [Requests -> Memory]
      BY <1>1, ReturnTyped DEF Crash, TypeOK
    <2>2. crashes' \in 0..MaxCrashes
      BY <1>1, MaxCrashesAssumption DEF Crash, TypeOK
    <2> QED
      BY <1>1, <2>1, <2>2 DEF Crash, TypeOK, tables
  <1>2. CASE Bank
    BY <1>2 DEF Bank, Pay, Expire, Refund, TypeOK, tables, BankStates
  <1>3. CASE PurgeExpiredTrash
    BY <1>3 DEF PurgeExpiredTrash, Delete, TypeOK
  <1>4. CASE UNCHANGED vars
    BY <1>4 DEF vars, TypeOK
  <1> QED
    BY <1>1, <1>2, <1>3, <1>4, CallsTyped, BankStepsTyped, SavesTyped DEF Next, Continue

(* The shop starts well typed. *)
LEMMA InitTyped == Init => TypeOK
PROOF
  <1>1. NewOrder(TRUE) \in ShopOrder /\ Blank \in Memory
    BY BlankTyped
  <1>2. NoAttempt \in ShopPaymentAttempt /\ "none" \in BankStates /\ "idle" \in Steps
    BY DEF NoAttempt, ShopPaymentAttempt, BankStates, Steps
  <1>3. 0 \in 0..MaxCrashes
    BY MaxCrashesAssumption
  <1> QED
    BY <1>1, <1>2, <1>3 DEF Init, TypeOK

(* Every reachable state of a shop order is well typed. *)
THEOREM ShopTypeCorrect == Spec => []TypeOK
PROOF
  <1>1. Init => TypeOK
    BY InitTyped
  <1>2. TypeOK /\ [Next]_vars => TypeOK'
    BY TypeStep
  <1> QED
    BY <1>1, <1>2, PTL DEF Spec
-----------------------------------------------------------------------------
(* The bank forgets no payment: what it has taken stays taken or
   is refunded. *)
LEMMA TakenStays ==
  ASSUME TypeOK, Bank \/ UNCHANGED bank, Taken
  PROVE  Taken'
PROOF BY DEF Bank, Pay, Expire, Refund, Taken

(* What a request may hold: the entities and the state it was told agree with
   the bank (HeldWasTaken, of a memory). *)
Sound(held) ==
  /\ held.order.payment = "paid" \/ held.attempt.status = "paid" => Taken
  /\ held.state = "completed" => Taken
  /\ source # "onsite" =>
       /\ held.order.online
       /\ held.order.status = "completed" => Taken

(* The memory of a request that holds nothing is sound. *)
LEMMA BlankSound == Sound(Blank)
PROOF BY DEF Sound, Blank, NewOrder, NoAttempt

(* A request that goes on with a sound memory leaves all memories sound. *)
LEMMA HoldSound ==
  ASSUME mem \in [Requests -> Memory], \A q \in Requests : Sound(mem[q]),
         NEW r \in Requests, NEW held, Sound(held), Hold(r, held),
         UNCHANGED source, Taken => Taken'
  PROVE  \A q \in Requests : HeldWasTaken(q)'
PROOF
  <1> SUFFICES ASSUME NEW q \in Requests
               PROVE  HeldWasTaken(q)'
    OBVIOUS
  <1>1. mem'[q] = IF q = r THEN held ELSE mem[q]
    BY DEF Hold
  <1>2. Sound(mem'[q])
    BY <1>1
  <1> QED
    BY <1>2 DEF Sound, HeldWasTaken

(* A step that changes no row and leaves a sound memory keeps the invariant. *)
LEMMA QuietStep ==
  ASSUME TypeOK, PaymentInv, NEW r \in Requests, NEW held, Sound(held), Hold(r, held),
         UNCHANGED tables, Taken => Taken'
  PROVE  PaymentInv'
PROOF
  <1>1. \A q \in Requests : Sound(mem[q])
    BY DEF PaymentInv, HeldWasTaken, Sound
  <1>2. \A q \in Requests : HeldWasTaken(q)'
    BY <1>1, HoldSound DEF TypeOK, tables
  <1>3. PaidWasTaken' /\ OnlineStaysOnline'
    BY DEF PaymentInv, PaidWasTaken, OnlineStaysOnline, tables
  <1> QED
    BY <1>2, <1>3 DEF PaymentInv

(* The calls keep the invariant: what they load is as sound as the rows. *)
LEMMA CallsSound ==
  ASSUME TypeOK, PaymentInv, NEW r \in Requests, Calls(r)
  PROVE  PaymentInv'
PROOF
  <1>0. /\ order \in ShopOrder /\ attempt \in ShopPaymentAttempt
        /\ PaidWasTaken /\ OnlineStaysOnline
        /\ \A q \in Requests : HeldWasTaken(q)
    BY DEF TypeOK, PaymentInv
  <1>1. ASSUME NEW online \in BOOLEAN, CreatePublicOrder(r, online)
        PROVE  PaymentInv'
    <2> DEFINE held == IF online THEN [Blank EXCEPT !.order = NewOrder(online)] ELSE Blank
    <2>1. Hold(r, held) /\ UNCHANGED <<attempt, bank>> /\ source = "none"
      BY <1>0, <1>1 DEF CreatePublicOrder, Return, OnlineStaysOnline
    <2>2. Sound(held)
      BY DEF Sound, Blank, NewOrder, NoAttempt
    <2> HIDE DEF held
    <2>3. ASSUME NEW q \in Requests
          PROVE  HeldWasTaken(q)'
      <3>1. mem'[q] = IF q = r THEN held ELSE mem[q]
        BY <2>1 DEF Hold, TypeOK
      <3>2. Sound(mem'[q])
        BY <1>0, <2>2, <3>1 DEF Sound, HeldWasTaken
      <3> QED
        BY <2>1, <3>2 DEF Sound, HeldWasTaken, Taken
    <2>4. PaidWasTaken'
      BY <1>0, <1>1, <2>1 DEF PaidWasTaken, CreatePublicOrder, NewOrder, Taken
    <2>5. OnlineStaysOnline'
      BY <1>1 DEF OnlineStaysOnline, CreatePublicOrder, NewOrder
    <2> QED
      BY <2>3, <2>4, <2>5 DEF PaymentInv
  <1>2. ASSUME NEW state \in BankStates, Callback(r, state)
        PROVE  PaymentInv'
    <2> DEFINE held == [Blank EXCEPT !.attempt = attempt, !.state = state]
    <2>1. state = "completed" => Taken
      BY <1>2 DEF Callback, Announced, Taken, TypeOK, BankStates
    <2>2. Sound(held)
      BY <1>0, <2>1 DEF Sound, Blank, NewOrder, NoAttempt, PaidWasTaken
    <2>3. Hold(r, held) /\ UNCHANGED <<tables, bank>>
      BY <1>2 DEF Callback
    <2> HIDE DEF held
    <2> QED
      BY <2>2, <2>3, QuietStep DEF Taken
  <1>3. ASSUME PublicStatus(r)
        PROVE  PaymentInv'
    <2>1. Sound([Blank EXCEPT !.order = order])
      BY <1>0 DEF Sound, Blank, NewOrder, NoAttempt, PaidWasTaken, OnlineStaysOnline
    <2> QED
      BY <1>3, <2>1, QuietStep DEF PublicStatus, Taken
  <1>4. ASSUME NEW entity \in ShopOrder, LoadOrder(r, entity),
               entity.payment = order.payment,
               source # "onsite" =>
                 /\ entity.online
                 /\ entity.status = "completed" => Taken
        PROVE  PaymentInv'
    <2>1. Sound([Blank EXCEPT !.order = entity])
      BY <1>0, <1>4 DEF Sound, Blank, NewOrder, NoAttempt, PaidWasTaken
    <2> QED
      BY <1>4, <2>1, QuietStep DEF LoadOrder, Taken
  <1>5. ASSUME NEW status \in ShopOrderStatus, NEW online \in BOOLEAN,
               UpdateOrder(r, status, online)
        PROVE  PaymentInv'
    <2> DEFINE entity == [order EXCEPT !.status = status, !.online = online]
    <2>1. /\ entity \in ShopOrder /\ entity.payment = order.payment
          /\ entity.status = status /\ entity.online = online
      BY <1>0 DEF ShopOrder
    <2>2. source # "onsite" => online
      BY <1>0, <1>5 DEF UpdateOrder, OnlineStaysOnline
    <2>3. source # "onsite" /\ status = "completed" => Taken
      BY <1>0, <1>5 DEF UpdateOrder, MayComplete, OnlineStaysOnline, PaidWasTaken
    <2>4. LoadOrder(r, entity)
      BY <1>5 DEF UpdateOrder
    <2> HIDE DEF entity
    <2> QED
      BY <1>4, <2>1, <2>2, <2>3, <2>4
  <1>6. ASSUME SoftDeleteOrder(r) \/ RestoreOrder(r)
        PROVE  PaymentInv'
    <2>1. PICK flag \in BOOLEAN : LoadOrder(r, [order EXCEPT !.deleted = flag])
      BY <1>6 DEF SoftDeleteOrder, RestoreOrder
    <2> DEFINE entity == [order EXCEPT !.deleted = flag]
    <2>2. /\ entity \in ShopOrder /\ entity.payment = order.payment
          /\ entity.status = order.status /\ entity.online = order.online
      BY <1>0 DEF ShopOrder
    <2> HIDE DEF entity
    <2>3. source # "onsite" => entity.online /\ (entity.status = "completed" => Taken)
      BY <1>0, <2>2 DEF OnlineStaysOnline
    <2>4. LoadOrder(r, entity)
      BY <2>1 DEF entity
    <2> QED
      BY <1>4, <2>2, <2>3, <2>4
  <1>7. ASSUME PermanentlyDeleteOrder(r)
        PROVE  PaymentInv'
    BY <1>0, <1>7 DEF PermanentlyDeleteOrder, tables, PaymentInv, PaidWasTaken,
                      OnlineStaysOnline, HeldWasTaken, Taken
  <1> QED
    BY <1>1, <1>2, <1>3, <1>5, <1>6, <1>7 DEF Calls

(* So do the steps of start, of a callback and of a poll. *)
LEMMA BankStepsSound ==
  ASSUME TypeOK, PaymentInv, StartedOnce, NEW r \in Requests,
         \/ CreateAttempt(r) \/ OnlineUnavailable(r)
         \/ BankAnswers(r) \/ BankFails(r)
         \/ Redirect(r) \/ LinkingFails(r)
         \/ CallbackOrder(r)
         \/ Poll(r) \/ Receipt(r) \/ NoReceipt(r)
  PROVE  PaymentInv'
PROOF
  <1>0. /\ order \in ShopOrder /\ attempt \in ShopPaymentAttempt
        /\ mem[r] \in Memory
        /\ mem[r].order \in ShopOrder /\ mem[r].attempt \in ShopPaymentAttempt
        /\ PaidWasTaken /\ OnlineStaysOnline /\ HeldWasTaken(r) /\ Sound(mem[r])
    BY DEF TypeOK, Memory, PaymentInv, HeldWasTaken, Sound
  <1>1. ASSUME NEW held, Sound(held), Hold(r, held), UNCHANGED <<tables, bank>>
        PROVE  PaymentInv'
    BY <1>1, QuietStep DEF Taken
  <1>2. ASSUME Return(r), UNCHANGED <<tables, bank>>
        PROVE  PaymentInv'
    BY <1>1, <1>2, BlankSound DEF Return
  <1>3. ASSUME NEW anOrder \in ShopOrder, NEW anAttempt \in ShopPaymentAttempt,
               SaveBoth(r, anOrder, anAttempt), UNCHANGED <<tables, bank>>,
               anOrder.payment = "paid" \/ anAttempt.status = "paid" => Taken,
               source # "onsite" =>
                 anOrder.online /\ (anOrder.status = "completed" => Taken)
        PROVE  PaymentInv'
    <2>1. Sound([Blank EXCEPT !.order = anOrder, !.attempt = anAttempt,
                              !.then = "saveAttempt"])
      BY <1>3 DEF Sound, Blank
    <2> QED
      BY <1>1, <1>3, <2>1 DEF SaveBoth
  <1>4. CASE OnlineUnavailable(r) \/ NoReceipt(r)
    BY <1>2, <1>4 DEF OnlineUnavailable, NoReceipt
  <1>5. CASE CreateAttempt(r)
    <2> DEFINE new == [status |-> "created", linked |-> FALSE]
               held == [mem[r] EXCEPT !.attempt = new]
    <2>1. Sound(held) /\ Hold(r, held)
      BY <1>0, <1>5 DEF Sound, Memory, CreateAttempt
    <2>2. attempt' = new /\ UNCHANGED <<row, order, source, bank>>
      BY <1>5 DEF CreateAttempt
    <2>3. \A q \in Requests : HeldWasTaken(q)'
      <3>1. /\ mem \in [Requests -> Memory] /\ \A q \in Requests : Sound(mem[q])
            /\ UNCHANGED source /\ (Taken => Taken')
        BY <2>2 DEF TypeOK, PaymentInv, HeldWasTaken, Sound, Taken
      <3> HIDE DEF held
      <3> QED
        BY <2>1, <3>1, HoldSound
    <2>4. PaidWasTaken' /\ OnlineStaysOnline'
      BY <1>0, <2>2 DEF PaidWasTaken, OnlineStaysOnline, Taken
    <2> QED
      BY <2>3, <2>4 DEF PaymentInv
  <1>6. ASSUME NEW held, Sound(held), Hold(r, held), UNCHANGED tables,
               bank \in {"none", "created", "open"} \/ bank' = bank
        PROVE  PaymentInv'
    BY <1>6, QuietStep DEF Taken
  <1>7. CASE Redirect(r)
    <2>1. Taken => Taken'
      BY <1>7 DEF Redirect, Taken
    <2> QED
      BY <1>7, <2>1, BlankSound, QuietStep DEF Redirect, Return
  <1>8. CASE Poll(r)
    <2>1. Sound([mem[r] EXCEPT !.attempt = attempt])
      BY <1>0 DEF Sound, Memory, PaidWasTaken
    <2> QED
      BY <1>1, <1>2, <1>8, <2>1 DEF Poll
  <1>9. CASE CallbackOrder(r)
    <2>1. mem[r].state = "completed" => Taken
      BY <1>0 DEF Sound
    <2>2. source # "onsite" => order.online /\ (order.status = "completed" => Taken)
      BY <1>0 DEF OnlineStaysOnline
    <2>3. \A status \in {"paid", "failed", "refunded", "pending"} :
            /\ Marked(mem[r].attempt, status) \in ShopPaymentAttempt
            /\ Marked(mem[r].attempt, status).status = status
      BY <1>0 DEF Marked, ShopPaymentAttempt
    <2>4. UNCHANGED <<tables, bank>>
      BY <1>9 DEF CallbackOrder
    <2>5. CASE Return(r)
      BY <1>2, <2>4, <2>5
    <2>6. CASE /\ mem[r].state = "completed"
               /\ SaveBoth(r, Pays(order), Marked(mem[r].attempt, "paid"))
      <3>1. /\ Pays(order) \in ShopOrder /\ Pays(order).online = order.online
            /\ Pays(order).status = "processing"
        BY <1>0, EntitiesTyped DEF Pays, ShopOrder
      <3> QED
        BY <1>3, <2>1, <2>2, <2>3, <2>4, <2>6, <3>1
    <2>7. CASE SaveBoth(r, Fails(order), Marked(mem[r].attempt, "failed"))
      <3>1. /\ Fails(order) \in ShopOrder /\ Fails(order).online = order.online
            /\ Fails(order).status = order.status /\ Fails(order).payment = "failed"
        BY <1>0, EntitiesTyped DEF Fails, ShopOrder
      <3> QED
        BY <1>3, <2>2, <2>3, <2>4, <2>7, <3>1
    <2>8. CASE SaveBoth(r, [order EXCEPT !.payment = "refunded"],
                           Marked(mem[r].attempt, "refunded"))
      <3> DEFINE refunded == [order EXCEPT !.payment = "refunded"]
      <3>1. /\ refunded \in ShopOrder /\ refunded.online = order.online
            /\ refunded.status = order.status /\ refunded.payment = "refunded"
        BY <1>0, EntitiesTyped DEF ShopOrder
      <3>2. SaveBoth(r, refunded, Marked(mem[r].attempt, "refunded"))
        BY <2>8
      <3> HIDE DEF refunded
      <3> QED
        BY <1>3, <2>2, <2>3, <2>4, <3>1, <3>2
    <2>9. CASE /\ Goto(r, "saveAttempt")
               /\ Hold(r, [Blank EXCEPT !.attempt = IF order.payment = "paid" THEN mem[r].attempt
                                            ELSE Marked(mem[r].attempt, "pending")])
      <3> DEFINE kept == IF order.payment = "paid" THEN mem[r].attempt
                         ELSE Marked(mem[r].attempt, "pending")
      <3>1. kept.status = "paid" => Taken
        BY <1>0, <2>3 DEF PaidWasTaken
      <3> HIDE DEF kept
      <3>2. Sound([Blank EXCEPT !.attempt = kept])
        BY <3>1 DEF Sound, Blank, NewOrder
      <3>3. Hold(r, [Blank EXCEPT !.attempt = kept])
        BY <2>9 DEF kept
      <3> QED
        BY <1>1, <2>4, <3>2, <3>3
    <2> QED
      BY <1>9, <2>5, <2>6, <2>7, <2>8, <2>9 DEF CallbackOrder
  <1>10. CASE Receipt(r)
    <2>1. /\ Pays(mem[r].order) \in ShopOrder
          /\ Pays(mem[r].order).online = mem[r].order.online
          /\ Pays(mem[r].order).status = "processing"
          /\ Marked(mem[r].attempt, "paid") \in ShopPaymentAttempt
      BY <1>0, EntitiesTyped DEF Pays, ShopOrder
    <2>2. /\ Fails(mem[r].order) \in ShopOrder
          /\ Fails(mem[r].order).online = mem[r].order.online
          /\ Fails(mem[r].order).status = mem[r].order.status
          /\ Fails(mem[r].order).payment = "failed"
          /\ Marked(mem[r].attempt, "failed") \in ShopPaymentAttempt
          /\ Marked(mem[r].attempt, "failed").status = "failed"
      BY <1>0, EntitiesTyped DEF Fails, Marked, ShopOrder, ShopPaymentAttempt
    <2>3. UNCHANGED <<tables, bank>>
      BY <1>10 DEF Receipt
    <2>4. source # "onsite" => mem[r].order.online /\ (mem[r].order.status = "completed" => Taken)
      BY <1>0 DEF Sound
    <2>5. CASE /\ bank = "completed"
               /\ SaveBoth(r, Pays(mem[r].order), Marked(mem[r].attempt, "paid"))
      BY <1>3, <2>1, <2>3, <2>4, <2>5 DEF Taken
    <2>6. CASE SaveBoth(r, Fails(mem[r].order), Marked(mem[r].attempt, "failed"))
      BY <1>3, <2>2, <2>3, <2>4, <2>6
    <2> QED
      BY <1>10, <2>5, <2>6 DEF Receipt, ReceiptOutcome
  <1>11. ASSUME StartFails(r), Taken => Taken'
         PROVE  PaymentInv'
    <2> DEFINE held == [mem[r] EXCEPT !.attempt.status = "failed",
                                      !.order.payment = "failed", !.then = "saveOrder"]
    <2>1. /\ held.order.payment = "failed" /\ held.attempt.status = "failed"
          /\ held.order.online = mem[r].order.online
          /\ held.order.status = mem[r].order.status
          /\ held.state = mem[r].state
      BY <1>0 DEF Memory, ShopOrder, ShopPaymentAttempt
    <2>2. Hold(r, held) /\ UNCHANGED tables
      BY <1>11 DEF StartFails
    <2> HIDE DEF held
    <2>3. Sound(held)
      BY <1>0, <2>1 DEF Sound
    <2> QED
      BY <1>11, <2>2, <2>3, QuietStep
  <1>12. CASE LinkingFails(r)
    BY <1>11, <1>12 DEF LinkingFails, Taken
  <1>13. CASE BankAnswers(r) \/ BankFails(r)
    <2>1. ~Taken
      BY <1>13 DEF BankAnswers, BankFails, StartedOnce, Taken
    <2>2. CASE BankFails(r)
      BY <1>11, <2>1, <2>2 DEF BankFails
    <2>3. CASE BankAnswers(r)
      <3> DEFINE held == [mem[r] EXCEPT !.attempt = Linked(mem[r].attempt), !.then = "redirect"]
      <3>1. Linked(mem[r].attempt).status = "pending"
        BY <1>0 DEF Linked, ShopPaymentAttempt
      <3>2. /\ held.order = mem[r].order /\ held.state = mem[r].state
            /\ held.attempt.status = "pending"
        BY <1>0, <3>1 DEF Memory
      <3>3. Hold(r, held) /\ UNCHANGED tables
        BY <2>3 DEF BankAnswers
      <3> HIDE DEF held
      <3>4. Sound(held)
        BY <1>0, <3>2 DEF Sound
      <3> QED
        BY <2>1, <3>3, <3>4, QuietStep
    <2> QED
      BY <1>13, <2>2, <2>3
  <1> QED
    BY <1>4, <1>5, <1>7, <1>8, <1>9, <1>10, <1>12, <1>13

(* So do the removal and the saves: a column of a saved row comes from the row
   or from the entity, both sound. *)
LEMMA SavesSound ==
  ASSUME TypeOK, PaymentInv, NEW r \in Requests,
         \/ RemoveOrder(r)
         \/ SaveOrder(r) \/ WriteOrder(r)
         \/ SaveAttempt(r) \/ WriteAttempt(r)
  PROVE  PaymentInv'
PROOF
  <1>0. /\ order \in ShopOrder /\ attempt \in ShopPaymentAttempt
        /\ mem[r] \in Memory
        /\ mem[r].order \in ShopOrder /\ mem[r].attempt \in ShopPaymentAttempt
        /\ PaidWasTaken /\ OnlineStaysOnline /\ Sound(mem[r])
        /\ mem \in [Requests -> Memory] /\ \A q \in Requests : Sound(mem[q])
    BY DEF TypeOK, Memory, PaymentInv, HeldWasTaken, Sound
  <1>1. CASE RemoveOrder(r)
    <2>1. \A q \in Requests : HeldWasTaken(q)'
      BY <1>0, <1>1, BlankSound, HoldSound DEF RemoveOrder, Return, Taken
    <2>2. PaidWasTaken' /\ OnlineStaysOnline'
      BY <1>0, <1>1 DEF RemoveOrder, Delete, PaidWasTaken, OnlineStaysOnline, Taken
    <2> QED
      BY <2>1, <2>2 DEF PaymentInv
  <1>2. CASE SaveOrder(r)
    <2> DEFINE dirty == {c \in OrderColumns : mem[r].order[c] # order[c]}
               held == [mem[r] EXCEPT !.dirty = dirty, !.insert = ~Stored]
    <2>1. Hold(r, held) /\ UNCHANGED <<tables, bank>>
      BY <1>2 DEF SaveOrder
    <2> HIDE DEF dirty
    <2>2. Sound(held)
      BY <1>0 DEF Sound, Memory
    <2> HIDE DEF held
    <2> QED
      BY <2>1, <2>2, QuietStep DEF Taken
  <1>3. CASE SaveAttempt(r)
    <2> DEFINE dirty == {c \in AttemptColumns : mem[r].attempt[c] # attempt[c]}
               held == [mem[r] EXCEPT !.dirty = dirty]
    <2>1. Hold(r, held) /\ UNCHANGED <<tables, bank>>
      BY <1>3 DEF SaveAttempt
    <2> HIDE DEF dirty
    <2>2. Sound(held)
      BY <1>0 DEF Sound, Memory
    <2> HIDE DEF held
    <2> QED
      BY <2>1, <2>2, QuietStep DEF Taken
  <1>4. ASSUME Saved(r), UNCHANGED <<source, bank>>
        PROVE  \A q \in Requests : HeldWasTaken(q)'
    <2> DEFINE held == IF mem[r].then = "idle" THEN Blank
             ELSE [mem[r] EXCEPT !.dirty = {}, !.insert = FALSE, !.then = "idle"]
    <2>1. Hold(r, held)
      BY <1>4 DEF Saved
    <2>2. Sound(held)
      BY <1>0, BlankSound DEF Sound, Memory
    <2> HIDE DEF held
    <2> QED
      BY <1>0, <1>4, <2>1, <2>2, HoldSound DEF Taken
  <1>5. CASE WriteOrder(r)
    <2>1. Saved(r) /\ UNCHANGED <<source, attempt, bank>>
      BY <1>5 DEF WriteOrder
    <2>2. /\ Overwritten(r).status \in {mem[r].order.status, order.status}
          /\ Overwritten(r).payment \in {mem[r].order.payment, order.payment}
          /\ Overwritten(r).online \in {mem[r].order.online, order.online}
      BY DEF Overwritten, OrderColumns
    <2>3. /\ order'.status \in {mem[r].order.status, order.status}
          /\ order'.payment \in {mem[r].order.payment, order.payment}
          /\ order'.online \in {mem[r].order.online, order.online}
          /\ row' = "none" => row = "none"
      BY <1>5, <2>2 DEF WriteOrder
    <2>4. PaidWasTaken' /\ OnlineStaysOnline'
      BY <1>0, <2>1, <2>3 DEF PaidWasTaken, OnlineStaysOnline, Sound, Taken
    <2> QED
      BY <1>4, <2>1, <2>4 DEF PaymentInv
  <1>6. CASE WriteAttempt(r)
    <2>1. Saved(r) /\ UNCHANGED <<row, order, source, bank>>
      BY <1>6 DEF WriteAttempt
    <2>2. attempt'.status \in {mem[r].attempt.status, attempt.status}
      BY <1>6 DEF WriteAttempt, AttemptColumns
    <2>3. PaidWasTaken' /\ OnlineStaysOnline'
      BY <1>0, <2>1, <2>2 DEF PaidWasTaken, OnlineStaysOnline, Sound, Taken
    <2> QED
      BY <1>4, <2>1, <2>3 DEF PaymentInv
  <1> QED
    BY <1>1, <1>2, <1>3, <1>5, <1>6
-----------------------------------------------------------------------------
(* A request that goes to a step other than those of the start keeps
   StartedOnce, if only a start moves the bank away from "none". *)
LEMMA NotStarting ==
  ASSUME TypeOK, StartedOnce, NEW r \in Requests, NEW step, Goto(r, step),
         step \notin {"createAttempt", "callBank"},
         row' = "none" => row = "none",
         \/ UNCHANGED bank
         \/ bank # "none"
         \/ pc[r] \in {"createAttempt", "callBank"}
  PROVE  StartedOnce'
PROOF
  <1>1. \A q \in Requests : pc'[q] = IF q = r THEN step ELSE pc[q]
    BY DEF Goto, TypeOK
  <1> QED
    BY <1>1 DEF StartedOnce

(* An order is started at the bank once. *)
LEMMA StartStep ==
  ASSUME TypeOK, StartedOnce, [Next]_vars
  PROVE  StartedOnce'
PROOF
  <1>1. ASSUME NEW r \in Requests, Calls(r)
        PROVE  StartedOnce'
    <2>1. ASSUME NEW online \in BOOLEAN, CreatePublicOrder(r, online)
          PROVE  StartedOnce'
      <3>1. \A q \in Requests : q # r => pc'[q] = pc[q]
        BY <2>1 DEF CreatePublicOrder, Goto, Return, TypeOK
      <3> QED
        BY <2>1, <3>1 DEF CreatePublicOrder, StartedOnce
    <2>2. ASSUME NEW step \in {"callbackOrder", "poll", "saveOrder", "remove"},
                 Goto(r, step), UNCHANGED <<row, bank>>
          PROVE  StartedOnce'
      BY <2>2, NotStarting
    <2>3. CASE \E state \in BankStates : Callback(r, state)
      BY <2>2, <2>3 DEF Callback, tables
    <2>4. CASE PublicStatus(r)
      BY <2>2, <2>4 DEF PublicStatus, tables
    <2>5. ASSUME NEW entity, LoadOrder(r, entity)
          PROVE  StartedOnce'
      BY <2>2, <2>5 DEF LoadOrder, tables
    <2>6. CASE PermanentlyDeleteOrder(r)
      BY <2>2, <2>6 DEF PermanentlyDeleteOrder, tables
    <2> QED
      BY <1>1, <2>1, <2>3, <2>4, <2>5, <2>6
      DEF Calls, UpdateOrder, SoftDeleteOrder, RestoreOrder
  <1>2. ASSUME NEW r \in Requests, Continue(r) \/ Crash(r)
        PROVE  StartedOnce'
    <2>1. CASE CreateAttempt(r)
      <3>1. \A q \in Requests : pc'[q] = IF q = r THEN "callBank" ELSE pc[q]
        BY <2>1 DEF CreateAttempt, Goto, TypeOK
      <3> QED
        BY <2>1, <3>1 DEF CreateAttempt, Stored, StartedOnce
    <2>2. CASE BankAnswers(r) \/ BankFails(r)
      <3>1. Goto(r, "saveAttempt") /\ UNCHANGED row /\ pc[r] = "callBank"
        BY <2>2 DEF BankAnswers, BankFails, StartFails, tables
      <3> QED
        BY <3>1, NotStarting
    <2>3. CASE Redirect(r)
      <3>1. Goto(r, "idle") /\ UNCHANGED row /\ (bank' = bank \/ bank # "none")
        BY <2>3 DEF Redirect, Return, tables
      <3> QED
        BY <3>1, NotStarting
    <2>4. ASSUME NEW step \in {"idle", "saveOrder", "saveAttempt", "receipt",
                               "writeOrder", "writeAttempt"},
                 Goto(r, step), UNCHANGED <<row, bank>>
          PROVE  StartedOnce'
      BY <2>4, NotStarting
    <2>5. CASE OnlineUnavailable(r) \/ NoReceipt(r) \/ Crash(r)
      BY <2>4, <2>5 DEF OnlineUnavailable, NoReceipt, Crash, Return, tables
    <2>6. CASE LinkingFails(r) \/ Poll(r)
      BY <2>4, <2>6 DEF LinkingFails, StartFails, Poll, Return, tables
    <2>7. CASE CallbackOrder(r)
      <3>1. /\ Goto(r, "idle") \/ Goto(r, "saveOrder") \/ Goto(r, "saveAttempt")
            /\ UNCHANGED <<row, bank>>
        BY <2>7 DEF CallbackOrder, Return, SaveBoth, tables
      <3> QED
        BY <2>4, <3>1
    <2>8. CASE Receipt(r)
      BY <2>4, <2>8 DEF Receipt, ReceiptOutcome, SaveBoth, tables
    <2>9. CASE SaveOrder(r) \/ SaveAttempt(r)
      BY <2>4, <2>9 DEF SaveOrder, SaveAttempt, tables
    <2>10. CASE RemoveOrder(r)
      <3>1. Goto(r, "idle") /\ UNCHANGED bank /\ (row' = "none" => row = "none")
        BY <2>10 DEF RemoveOrder, Return, Delete
      <3> QED
        BY <3>1, NotStarting
    <2>11. CASE WriteOrder(r) \/ WriteAttempt(r)
      <3>1. mem[r].then \notin {"createAttempt", "callBank"}
        BY DEF TypeOK, Memory
      <3>2. /\ Goto(r, mem[r].then) /\ UNCHANGED bank
            /\ row' = "none" => row = "none"
        BY <2>11 DEF WriteOrder, WriteAttempt, Saved
      <3> QED
        BY <3>1, <3>2, NotStarting
    <2> QED
      BY <1>2, <2>1, <2>2, <2>3, <2>5, <2>6, <2>7, <2>8, <2>9, <2>10, <2>11 DEF Continue
  <1>3. CASE Bank
    BY <1>3 DEF Bank, Pay, Expire, Refund, tables, StartedOnce
  <1>4. CASE PurgeExpiredTrash
    BY <1>4 DEF PurgeExpiredTrash, Delete, Stored, StartedOnce
  <1>5. CASE UNCHANGED vars
    BY <1>5 DEF vars, StartedOnce
  <1> QED
    BY <1>1, <1>2, <1>3, <1>4, <1>5 DEF Next

(* Every step keeps the payment invariant. *)
LEMMA PaymentStep ==
  ASSUME TypeOK, StartedOnce, PaymentInv, [Next]_vars
  PROVE  PaymentInv'
PROOF
  <1>1. ASSUME NEW r \in Requests, Crash(r)
        PROVE  PaymentInv'
    BY <1>1, BlankSound, QuietStep DEF Crash, Return, Taken
  <1>2. CASE Bank
    <2>1. Taken => Taken'
      BY <1>2, TakenStays
    <2> QED
      BY <1>2, <2>1 DEF Bank, tables, PaymentInv, PaidWasTaken, OnlineStaysOnline, HeldWasTaken
  <1>3. CASE PurgeExpiredTrash
    BY <1>3 DEF PurgeExpiredTrash, Delete, Stored, Taken,
                PaymentInv, PaidWasTaken, OnlineStaysOnline, HeldWasTaken
  <1>4. CASE UNCHANGED vars
    BY <1>4 DEF vars, Taken, PaymentInv, PaidWasTaken, OnlineStaysOnline, HeldWasTaken
  <1> QED
    BY <1>1, <1>2, <1>3, <1>4, CallsSound, BankStepsSound, SavesSound DEF Next, Continue

(* The shop takes an order for paid only if the bank took the money, and
   completes an order checked out online only then, for every number of
   requests and crashes. *)
THEOREM PaymentInvariant == Spec => [](TypeOK /\ StartedOnce /\ PaymentInv)
PROOF
  <1>1. Init => TypeOK /\ StartedOnce /\ PaymentInv
    <2>1. Init => StartedOnce
      BY DEF Init, StartedOnce
    <2>2. Init => PaymentInv
      BY DEF Init, PaymentInv, PaidWasTaken, OnlineStaysOnline, HeldWasTaken, Blank,
             NewOrder, NoAttempt
    <2>3. Init => TypeOK
      BY InitTyped
    <2> QED
      BY <2>1, <2>2, <2>3
  <1>2. TypeOK /\ StartedOnce /\ PaymentInv /\ [Next]_vars
          => TypeOK' /\ StartedOnce' /\ PaymentInv'
    BY TypeStep, StartStep, PaymentStep
  <1> QED
    BY <1>1, <1>2, PTL DEF Spec

(* The invariant's part about the rows: callback, publicStatus. *)
THEOREM PaidWasAlwaysTaken == Spec => []PaidWasTaken
PROOF
  <1>1. TypeOK /\ StartedOnce /\ PaymentInv => PaidWasTaken
    BY DEF PaymentInv
  <1> QED
    BY <1>1, PaymentInvariant, PTL

(* And about completion: updateOrder. *)
THEOREM CompletedWasAlwaysTaken == Spec => []CompletedWasTaken
PROOF
  <1>1. TypeOK /\ StartedOnce /\ PaymentInv => CompletedWasTaken
    BY DEF PaymentInv, OnlineStaysOnline, CompletedWasTaken
  <1> QED
    BY <1>1, PaymentInvariant, PTL
-----------------------------------------------------------------------------
(* What PaymentIsRecorded needs besides fairness: a payment the bank took and
   the shop has not recorded finds its order and its attempt, and is not taken
   for one that was processed. The bank's side of an order is open to
   payments only when the link the customer got is in the attempt. *)
Opened == bank \in {"open", "completed", "refunded"}

(* A request that is starting the order at the bank, and one that holds an
   attempt it has loaded and may save. *)
Starts(step, held) ==
  \/ step \in {"createAttempt", "callBank", "redirect"}
  \/ held.then \in {"redirect", "saveOrder"}
SavesAttempt(step, held) ==
  \/ step \in {"callBank", "redirect", "callbackOrder", "receipt",
               "saveAttempt", "writeAttempt"}
  \/ step \in {"saveOrder", "writeOrder"} /\ held.then = "saveAttempt"
OneStarts ==
  /\ row = "none" => \A r \in Requests : ~Starts(pc[r], mem[r])
  /\ \A r, q \in Requests : Starts(pc[r], mem[r]) /\ Starts(pc[q], mem[q]) => r = q

(* What a request holds fits the rows: before the customer has the link only
   the start knows it, afterwards no entity in memory has lost it; and an
   attempt to be saved as paid is one whose order is recorded, or saved as
   paid first. `opened`, `stored` and `done` are Opened, the attempt and
   recorded. *)
StartFits(step, held, opened, stored) ==
  /\ Starts(step, held) => ~opened
  /\ held.then \in {"redirect", "saveOrder"} => step \in {"saveAttempt", "writeAttempt"}
  /\ step = "createAttempt" => stored.status = "none"
  /\ step = "redirect" => stored.linked
  /\ step = "redirect" \/ held.then = "redirect" => held.attempt.linked
LinkFits(step, held, stored) ==
  /\ step = "writeAttempt" /\ held.attempt.linked =>
       stored.linked \/ "linked" \in held.dirty
  /\ SavesAttempt(step, held) =>
       /\ stored.status # "none" /\ held.attempt.status # "none"
       /\ Starts(step, held) => held.attempt.linked \/ ~stored.linked
       /\ ~Starts(step, held) => held.attempt.linked /\ stored.linked
PaymentFits(step, held, done) ==
  SavesAttempt(step, held) /\ held.attempt.status = "paid" =>
    \/ done
    \/ /\ step \in {"saveOrder", "writeOrder"} /\ held.order.payment = "paid"
       /\ step = "writeOrder" => "payment" \in held.dirty /\ ~held.insert
Fits(step, held, opened, stored, done) ==
  /\ StartFits(step, held, opened, stored)
  /\ LinkFits(step, held, stored)
  /\ PaymentFits(step, held, done)

RowsFit ==
  /\ Opened => attempt.linked
  /\ attempt.linked => attempt.status # "none"
  /\ attempt.status # "none" => Stored
  /\ order.payment \in {"paid", "refunded"} \/ attempt.status = "paid" => recorded
ConfirmInv ==
  /\ OneStarts
  /\ RowsFit
  /\ \A r \in Requests : Fits(pc[r], mem[r], Opened, attempt, recorded)

(* What a request holds still fits after a step of another, which neither
   forgets a link nor a record, and links the attempt or opens the bank's side
   only as the start. *)
LEMMA OthersFit ==
  ASSUME NEW step, NEW held, NEW opened, NEW stored, NEW done,
         NEW opened2, NEW stored2, NEW done2,
         Fits(step, held, opened, stored, done),
         done => done2,
         stored.linked => stored2.linked,
         stored.status # "none" => stored2.status # "none",
         Starts(step, held) =>
           /\ opened2 => opened
           /\ stored2.linked => stored.linked
           /\ stored.status = "none" => stored2.status = "none"
  PROVE  Fits(step, held, opened2, stored2, done2)
PROOF
  <1>1. StartFits(step, held, opened2, stored2)
    BY DEF Fits, StartFits, Starts
  <1>2. LinkFits(step, held, stored2)
    BY DEF Fits, LinkFits
  <1>3. PaymentFits(step, held, done2)
    BY DEF Fits, PaymentFits
  <1> QED
    BY <1>1, <1>2, <1>3 DEF Fits

(* A request that goes to a step with a memory that fits keeps the invariant,
   if it starts only as the request that started. *)
LEMMA FitStep ==
  ASSUME TypeOK, ConfirmInv, NEW r \in Requests, NEW step, NEW held,
         Goto(r, step), Hold(r, held), RowsFit',
         Fits(step, held, Opened', attempt', recorded'),
         row' = "none" => row = "none",
         recorded => recorded',
         attempt.linked => attempt'.linked,
         attempt.status # "none" => attempt'.status # "none",
         Starts(step, held) => Starts(pc[r], mem[r]),
         \/ Starts(pc[r], mem[r])
         \/ /\ Opened' => Opened
            /\ attempt'.linked => attempt.linked
            /\ attempt.status = "none" => attempt'.status = "none"
  PROVE  ConfirmInv'
PROOF
  <1>1. \A q \in Requests : /\ pc'[q] = IF q = r THEN step ELSE pc[q]
                            /\ mem'[q] = IF q = r THEN held ELSE mem[q]
    BY DEF Goto, Hold, TypeOK
  <1>2. /\ row = "none" => \A q \in Requests : ~Starts(pc[q], mem[q])
        /\ \A p, q \in Requests : Starts(pc[p], mem[p]) /\ Starts(pc[q], mem[q]) => p = q
    BY DEF ConfirmInv, OneStarts
  <1>3. \A q \in Requests : Starts(pc'[q], mem'[q]) => Starts(pc[q], mem[q])
    BY <1>1
  <1>4. OneStarts'
    BY <1>2, <1>3 DEF OneStarts
  <1>5. ASSUME NEW q \in Requests
        PROVE  Fits(pc'[q], mem'[q], Opened', attempt', recorded')
    <2>1. CASE q = r
      BY <1>1, <2>1
    <2>2. CASE q # r
      <3>1. Fits(pc[q], mem[q], Opened, attempt, recorded)
        BY DEF ConfirmInv
      <3>2. Starts(pc[q], mem[q]) => ~Starts(pc[r], mem[r])
        BY <1>2, <2>2
      <3>3. Fits(pc[q], mem[q], Opened', attempt', recorded')
        BY <3>1, <3>2, OthersFit
      <3> QED
        BY <1>1, <2>2, <3>3
    <2> QED
      BY <2>1, <2>2
  <1> QED
    BY <1>4, <1>5 DEF ConfirmInv

(* In particular one that changes no row and leaves the bank alone. *)
LEMMA QuietFit ==
  ASSUME TypeOK, ConfirmInv, NEW r \in Requests, NEW step, NEW held,
         Goto(r, step), Hold(r, held), UNCHANGED <<tables, bank>>,
         Fits(step, held, Opened, attempt, recorded),
         Starts(step, held) => Starts(pc[r], mem[r])
  PROVE  ConfirmInv'
PROOF
  <1>1. /\ Opened' = Opened /\ attempt' = attempt /\ recorded' = recorded /\ row' = row
    BY DEF tables, Opened
  <1>2. RowsFit'
    BY DEF ConfirmInv, RowsFit, Opened, Stored, tables
  <1>3. Fits(step, held, Opened', attempt', recorded')
    BY <1>1
  <1> QED
    BY <1>1, <1>2, <1>3, FitStep

(* A request that holds no attempt and is not starting fits anything. *)
LEMMA IdleFits ==
  ASSUME NEW step, NEW held, NEW opened, NEW stored, NEW done,
         ~Starts(step, held), ~SavesAttempt(step, held)
  PROVE  Fits(step, held, opened, stored, done)
PROOF
  <1>1. StartFits(step, held, opened, stored)
    BY DEF Starts, StartFits
  <1>2. LinkFits(step, held, stored) /\ PaymentFits(step, held, done)
    BY DEF LinkFits, PaymentFits, SavesAttempt
  <1> QED
    BY <1>1, <1>2 DEF Fits

(* So does one that returns. *)
LEMMA ReturnFits ==
  ASSUME NEW opened, NEW stored, NEW done
  PROVE  /\ ~Starts("idle", Blank)
         /\ Fits("idle", Blank, opened, stored, done)
PROOF
  <1>1. ~Starts("idle", Blank) /\ ~SavesAttempt("idle", Blank)
    BY DEF Starts, SavesAttempt, Blank
  <1> QED
    BY <1>1, IdleFits

(* The calls keep the invariant. *)
LEMMA CallsFit ==
  ASSUME TypeOK, ConfirmInv, NEW r \in Requests, Calls(r)
  PROVE  ConfirmInv'
PROOF
  <1>0. /\ OneStarts /\ RowsFit /\ Fits(pc[r], mem[r], Opened, attempt, recorded)
        /\ order \in ShopOrder /\ attempt \in ShopPaymentAttempt
    BY DEF ConfirmInv, TypeOK
  <1>1. ASSUME NEW step \in {"poll", "saveOrder", "remove"}, NEW held,
               Goto(r, step), Hold(r, held), UNCHANGED <<tables, bank>>,
               held.then = "idle"
        PROVE  ConfirmInv'
    <2>1. ~Starts(step, held) /\ ~SavesAttempt(step, held)
      BY <1>1 DEF Starts, SavesAttempt
    <2> QED
      BY <1>1, <2>1, IdleFits, QuietFit
  <1>2. ASSUME NEW entity, LoadOrder(r, entity)
        PROVE  ConfirmInv'
    <2>1. [Blank EXCEPT !.order = entity].then = "idle"
      BY DEF Blank
    <2> QED
      BY <1>1, <1>2, <2>1 DEF LoadOrder
  <1>3. ASSUME NEW online \in BOOLEAN, CreatePublicOrder(r, online)
        PROVE  ConfirmInv'
    <2>1. /\ row = "none" /\ row' = "stored" /\ order' = NewOrder(online)
          /\ UNCHANGED <<attempt, bank, recorded>>
      BY <1>3 DEF CreatePublicOrder
    <2>2. /\ attempt.status = "none" /\ ~attempt.linked /\ ~Opened
          /\ \A q \in Requests : ~Starts(pc[q], mem[q])
      BY <1>0, <2>1 DEF RowsFit, Stored, OneStarts
    <2>3. Opened' = Opened
      BY <2>1 DEF Opened
    <2>4. order'.payment \in {"pending", "unpaid"}
      BY <2>1 DEF NewOrder
    <2>5. RowsFit'
      BY <2>1, <2>2, <2>3, <2>4 DEF RowsFit
    <2>6. PICK step, held :
            /\ Goto(r, step) /\ Hold(r, held) /\ held.then = "idle"
            /\ step \in {"createAttempt", "idle"}
      <3>1. Blank.then = "idle" /\ [Blank EXCEPT !.order = NewOrder(online)].then = "idle"
        BY DEF Blank
      <3> QED
        BY <1>3, <3>1 DEF CreatePublicOrder, Return
    <2>7. Fits(step, held, Opened, attempt, recorded)
      <3>1. StartFits(step, held, Opened, attempt)
        BY <2>2, <2>6 DEF StartFits
      <3>2. LinkFits(step, held, attempt) /\ PaymentFits(step, held, recorded)
        BY <2>6 DEF LinkFits, PaymentFits, SavesAttempt
      <3> QED
        BY <3>1, <3>2 DEF Fits
    <2>8. \A q \in Requests : /\ pc'[q] = IF q = r THEN step ELSE pc[q]
                              /\ mem'[q] = IF q = r THEN held ELSE mem[q]
      BY <2>6 DEF Goto, Hold, TypeOK
    <2>9. OneStarts'
      BY <2>1, <2>2, <2>8 DEF OneStarts
    <2>10. \A q \in Requests : Fits(pc[q], mem[q], Opened, attempt, recorded)
      BY DEF ConfirmInv
    <2>11. \A q \in Requests : Fits(pc'[q], mem'[q], Opened', attempt', recorded')
      BY <2>1, <2>3, <2>7, <2>8, <2>10
    <2> QED
      BY <2>5, <2>9, <2>11 DEF ConfirmInv
  <1>4. ASSUME NEW state \in BankStates, Callback(r, state)
        PROVE  ConfirmInv'
    <2> DEFINE held == [Blank EXCEPT !.attempt = attempt, !.state = state]
    <2>1. /\ Goto(r, "callbackOrder") /\ Hold(r, held) /\ UNCHANGED <<tables, bank>>
          /\ attempt.linked
      BY <1>4 DEF Callback
    <2>2. held.attempt = attempt /\ held.then = "idle"
      BY DEF Blank
    <2> HIDE DEF held
    <2>3. ~Starts("callbackOrder", held)
      BY <2>2 DEF Starts
    <2>4. /\ StartFits("callbackOrder", held, Opened, attempt)
          /\ LinkFits("callbackOrder", held, attempt)
      BY <1>0, <2>1, <2>2, <2>3 DEF StartFits, LinkFits, RowsFit
    <2>5. PaymentFits("callbackOrder", held, recorded)
      BY <1>0, <2>2 DEF PaymentFits, RowsFit
    <2> QED
      BY <2>1, <2>3, <2>4, <2>5, QuietFit DEF Fits
  <1>5. CASE PublicStatus(r)
    <2>1. [Blank EXCEPT !.order = order].then = "idle"
      BY DEF Blank
    <2> QED
      BY <1>1, <1>5, <2>1 DEF PublicStatus
  <1>6. CASE PermanentlyDeleteOrder(r)
    <2>1. Hold(r, mem[r])
      BY <1>6 DEF PermanentlyDeleteOrder, Hold, TypeOK
    <2>2. Goto(r, "remove") /\ UNCHANGED <<tables, bank>> /\ pc[r] = "idle"
      BY <1>6 DEF PermanentlyDeleteOrder
    <2>3. mem[r].then \notin {"redirect", "saveOrder"}
      BY <1>0, <2>2 DEF Fits, StartFits
    <2>4. ~Starts("remove", mem[r]) /\ ~SavesAttempt("remove", mem[r])
      BY <2>3 DEF Starts, SavesAttempt
    <2>5. Fits("remove", mem[r], Opened, attempt, recorded)
      BY <2>4, IdleFits
    <2> QED
      BY <2>1, <2>2, <2>4, <2>5, QuietFit
  <1> QED
    BY <1>2, <1>3, <1>4, <1>5, <1>6
    DEF Calls, UpdateOrder, SoftDeleteOrder, RestoreOrder

(* So do the steps of the start... *)
LEMMA StartsFit ==
  ASSUME TypeOK, ConfirmInv, NEW r \in Requests,
         \/ CreateAttempt(r) \/ OnlineUnavailable(r)
         \/ BankAnswers(r) \/ BankFails(r)
         \/ Redirect(r) \/ LinkingFails(r)
  PROVE  ConfirmInv'
PROOF
  <1>0. /\ OneStarts /\ RowsFit /\ Fits(pc[r], mem[r], Opened, attempt, recorded)
        /\ StartFits(pc[r], mem[r], Opened, attempt)
        /\ LinkFits(pc[r], mem[r], attempt)
        /\ attempt \in ShopPaymentAttempt /\ mem[r] \in Memory
        /\ mem[r].attempt \in ShopPaymentAttempt /\ mem[r].order \in ShopOrder
    BY DEF ConfirmInv, Fits, TypeOK, Memory
  <1>1. CASE CreateAttempt(r)
    <2> DEFINE new == [status |-> "created", linked |-> FALSE]
               held == [mem[r] EXCEPT !.attempt = new]
    <2>1. /\ pc[r] = "createAttempt" /\ Stored /\ attempt' = new
          /\ Goto(r, "callBank") /\ Hold(r, held)
          /\ UNCHANGED <<row, order, bank, recorded>>
      BY <1>1 DEF CreateAttempt
    <2>2. /\ held.attempt = new /\ held.then = mem[r].then
          /\ new.status = "created" /\ ~new.linked
      BY <1>0 DEF Memory
    <2>3. /\ Starts(pc[r], mem[r]) /\ ~Opened /\ attempt.status = "none"
          /\ ~attempt.linked /\ held.then \notin {"redirect", "saveOrder"}
      BY <1>0, <2>1, <2>2 DEF Starts, StartFits, RowsFit
    <2>4. ~Opened'
      BY <2>1, <2>3 DEF Opened
    <2>5. RowsFit'
      BY <1>0, <2>1, <2>2, <2>4 DEF RowsFit, Stored
    <2> HIDE DEF held, new
    <2>6. Starts("callBank", held)
      BY DEF Starts
    <2>7. /\ StartFits("callBank", held, Opened', attempt')
          /\ LinkFits("callBank", held, attempt')
          /\ PaymentFits("callBank", held, recorded')
      BY <2>1, <2>2, <2>3, <2>4, <2>6 DEF StartFits, LinkFits, PaymentFits
    <2> QED
      BY <2>1, <2>2, <2>3, <2>5, <2>7, FitStep DEF Fits
  <1>2. CASE OnlineUnavailable(r)
    BY <1>2, ReturnFits, QuietFit DEF OnlineUnavailable, Return
  <1>3. ASSUME StartFails(r), Starts(pc[r], mem[r]), SavesAttempt(pc[r], mem[r]), ~Opened'
        PROVE  ConfirmInv'
    <2> DEFINE held == [mem[r] EXCEPT !.attempt.status = "failed",
                                      !.order.payment = "failed", !.then = "saveOrder"]
    <2>1. /\ held.attempt.status = "failed" /\ held.then = "saveOrder"
          /\ held.attempt.linked = mem[r].attempt.linked
      BY <1>0 DEF Memory, ShopOrder, ShopPaymentAttempt
    <2>2. Goto(r, "saveAttempt") /\ Hold(r, held) /\ UNCHANGED tables
      BY <1>3 DEF StartFails
    <2> HIDE DEF held
    <2>3. ~Opened /\ Starts("saveAttempt", held)
      BY <1>0, <1>3, <2>1 DEF StartFits, Starts
    <2>4. RowsFit' /\ UNCHANGED <<attempt, recorded, row>>
      BY <1>0, <1>3, <2>2 DEF RowsFit, Stored, tables
    <2>5. /\ attempt.status # "none"
          /\ held.attempt.linked \/ ~attempt.linked
      BY <1>0, <1>3, <2>1 DEF LinkFits
    <2>6. /\ StartFits("saveAttempt", held, Opened', attempt')
          /\ LinkFits("saveAttempt", held, attempt')
          /\ PaymentFits("saveAttempt", held, recorded')
      BY <1>3, <2>1, <2>3, <2>4, <2>5 DEF StartFits, LinkFits, PaymentFits
    <2> QED
      BY <1>3, <2>2, <2>4, <2>6, FitStep DEF Fits
  <1>4. CASE BankAnswers(r)
    <2> DEFINE held == [mem[r] EXCEPT !.attempt = Linked(mem[r].attempt), !.then = "redirect"]
    <2>1. /\ Linked(mem[r].attempt).status = "pending" /\ Linked(mem[r].attempt).linked
      BY <1>0 DEF Linked, ShopPaymentAttempt
    <2>2. /\ held.attempt.status = "pending" /\ held.attempt.linked
          /\ held.then = "redirect"
      BY <1>0, <2>1 DEF Memory
    <2>3. /\ pc[r] = "callBank" /\ bank' = "created" /\ UNCHANGED tables
          /\ Goto(r, "saveAttempt") /\ Hold(r, held)
      BY <1>4 DEF BankAnswers
    <2> HIDE DEF held
    <2>4. /\ Starts(pc[r], mem[r]) /\ Starts("saveAttempt", held) /\ ~Opened'
          /\ SavesAttempt(pc[r], mem[r])
      BY <2>2, <2>3 DEF Starts, Opened, SavesAttempt
    <2>5. RowsFit' /\ UNCHANGED <<attempt, recorded, row>> /\ attempt.status # "none"
      BY <1>0, <2>3, <2>4 DEF RowsFit, Stored, tables, LinkFits
    <2>6. /\ StartFits("saveAttempt", held, Opened', attempt')
          /\ LinkFits("saveAttempt", held, attempt')
          /\ PaymentFits("saveAttempt", held, recorded')
      BY <2>2, <2>4, <2>5 DEF StartFits, LinkFits, PaymentFits
    <2> QED
      BY <2>3, <2>4, <2>5, <2>6, FitStep DEF Fits
  <1>5. CASE BankFails(r)
    BY <1>3, <1>5 DEF BankFails, Opened, Starts, SavesAttempt
  <1>6. CASE LinkingFails(r)
    <2>1. Starts(pc[r], mem[r]) /\ SavesAttempt(pc[r], mem[r])
      BY <1>6 DEF LinkingFails, Starts, SavesAttempt
    <2>2. ~Opened'
      BY <1>0, <1>6, <2>1 DEF LinkingFails, Opened, StartFits
    <2> QED
      BY <1>3, <1>6, <2>1, <2>2 DEF LinkingFails
  <1>7. CASE Redirect(r)
    <2>1. /\ pc[r] = "redirect" /\ UNCHANGED tables
          /\ Goto(r, "idle") /\ Hold(r, Blank)
      BY <1>7 DEF Redirect, Return
    <2>2. Starts(pc[r], mem[r]) /\ attempt.linked
      BY <1>0, <2>1 DEF Starts, StartFits
    <2>3. RowsFit' /\ UNCHANGED <<attempt, recorded, row>>
      BY <1>0, <2>1, <2>2 DEF RowsFit, Stored, tables
    <2>4. Fits("idle", Blank, Opened', attempt', recorded')
      BY ReturnFits
    <2> QED
      BY <2>1, <2>2, <2>3, <2>4, FitStep
  <1> QED
    BY <1>1, <1>2, <1>4, <1>5, <1>6, <1>7

(* ...of a callback and of a poll: what they make of an attempt they have
   loaded is linked, and paid only with the order. *)
LEMMA ConfirmationsFit ==
  ASSUME TypeOK, ConfirmInv, NEW r \in Requests,
         CallbackOrder(r) \/ Poll(r) \/ Receipt(r) \/ NoReceipt(r)
  PROVE  ConfirmInv'
PROOF
  <1>0. /\ RowsFit
        /\ StartFits(pc[r], mem[r], Opened, attempt)
        /\ LinkFits(pc[r], mem[r], attempt)
        /\ PaymentFits(pc[r], mem[r], recorded)
        /\ order \in ShopOrder /\ attempt \in ShopPaymentAttempt /\ mem[r] \in Memory
        /\ mem[r].attempt \in ShopPaymentAttempt /\ mem[r].order \in ShopOrder
        /\ UNCHANGED <<tables, bank>>
    BY DEF ConfirmInv, Fits, TypeOK, Memory, CallbackOrder, Poll, Receipt, NoReceipt
  <1>1. pc[r] \in {"callbackOrder", "poll", "receipt"} /\ ~Starts(pc[r], mem[r])
    BY <1>0 DEF CallbackOrder, Poll, Receipt, NoReceipt, StartFits, Starts
  <1>2. ASSUME pc[r] # "poll"
        PROVE  /\ mem[r].attempt.linked /\ attempt.linked
               /\ attempt.status # "none" /\ mem[r].attempt.status # "none"
               /\ mem[r].attempt.status = "paid" => recorded
    BY <1>0, <1>1, <1>2 DEF LinkFits, PaymentFits, SavesAttempt
  <1>3. ASSUME Return(r)
        PROVE  ConfirmInv'
    BY <1>0, <1>3, ReturnFits, QuietFit DEF Return
  <1>4. ASSUME NEW step \in {"saveOrder", "saveAttempt", "receipt"}, NEW held,
               Goto(r, step), Hold(r, held),
               IF step = "saveOrder" THEN held.then = "saveAttempt"
                                     ELSE held.then \in {"idle", "saveAttempt"},
               attempt.linked, attempt.status # "none",
               held.attempt.linked, held.attempt.status # "none",
               held.attempt.status = "paid" =>
                 recorded \/ (step = "saveOrder" /\ held.order.payment = "paid")
        PROVE  ConfirmInv'
    <2>1. ~Starts(step, held)
      BY <1>4 DEF Starts
    <2>2. /\ StartFits(step, held, Opened, attempt)
          /\ LinkFits(step, held, attempt)
          /\ PaymentFits(step, held, recorded)
      BY <1>4, <2>1 DEF StartFits, LinkFits, PaymentFits
    <2> QED
      BY <1>0, <1>4, <2>1, <2>2, QuietFit DEF Fits
  <1>5. ASSUME NEW anOrder, NEW status \in {"paid", "failed", "refunded"},
               SaveBoth(r, anOrder, Marked(mem[r].attempt, status)),
               status = "paid" => anOrder.payment = "paid",
               pc[r] # "poll"
        PROVE  ConfirmInv'
    <2> DEFINE held == [Blank EXCEPT !.order = anOrder,
                                     !.attempt = Marked(mem[r].attempt, status),
                                     !.then = "saveAttempt"]
    <2>1. Goto(r, "saveOrder") /\ Hold(r, held)
      BY <1>5 DEF SaveBoth
    <2>2. /\ Marked(mem[r].attempt, status).status = status
          /\ Marked(mem[r].attempt, status).linked = mem[r].attempt.linked
      BY <1>0 DEF Marked, ShopPaymentAttempt
    <2>3. /\ held.order = anOrder /\ held.then = "saveAttempt"
          /\ held.attempt = Marked(mem[r].attempt, status)
      BY DEF Blank
    <2> HIDE DEF held
    <2> QED
      BY <1>2, <1>4, <1>5, <2>1, <2>2, <2>3
  <1>6. CASE NoReceipt(r)
    BY <1>3, <1>6 DEF NoReceipt
  <1>7. CASE Receipt(r)
    <2>1. Pays(mem[r].order).payment = "paid"
      BY <1>0 DEF Pays, ShopOrder
    <2>2. pc[r] # "poll"
      BY <1>7 DEF Receipt
    <2>3. \/ SaveBoth(r, Pays(mem[r].order), Marked(mem[r].attempt, "paid"))
          \/ SaveBoth(r, Fails(mem[r].order), Marked(mem[r].attempt, "failed"))
      BY <1>7 DEF Receipt, ReceiptOutcome
    <2> QED
      BY <1>5, <2>1, <2>2, <2>3
  <1>8. CASE Poll(r)
    <2>1. CASE Return(r)
      BY <1>3, <2>1
    <2>2. CASE ~Return(r)
      <3> DEFINE held == [mem[r] EXCEPT !.attempt = attempt]
      <3>1. attempt.linked /\ Goto(r, "receipt") /\ Hold(r, held)
        BY <1>8, <2>2 DEF Poll
      <3>2. held.attempt = attempt /\ held.then = mem[r].then
        BY <1>0 DEF Memory
      <3>3. held.then \in {"idle", "saveAttempt"}
        BY <1>0, <1>1, <3>2 DEF Memory, Starts
      <3> HIDE DEF held
      <3> QED
        BY <1>0, <1>4, <3>1, <3>2, <3>3 DEF RowsFit
    <2> QED
      BY <2>1, <2>2
  <1>9. CASE CallbackOrder(r)
    <2>1. Pays(order).payment = "paid" /\ pc[r] # "poll"
      BY <1>0, <1>9 DEF Pays, ShopOrder, CallbackOrder
    <2>2. CASE /\ Goto(r, "saveAttempt")
               /\ Hold(r, [Blank EXCEPT !.attempt = IF order.payment = "paid"
                             THEN mem[r].attempt ELSE Marked(mem[r].attempt, "pending")])
      <3> DEFINE kept == IF order.payment = "paid" THEN mem[r].attempt
                         ELSE Marked(mem[r].attempt, "pending")
                 held == [Blank EXCEPT !.attempt = kept]
      <3>1. /\ Marked(mem[r].attempt, "pending").status = "pending"
            /\ Marked(mem[r].attempt, "pending").linked = mem[r].attempt.linked
        BY <1>0 DEF Marked, ShopPaymentAttempt
      <3>2. kept.linked /\ kept.status # "none" /\ (kept.status = "paid" => recorded)
        BY <1>2, <2>1, <3>1
      <3> HIDE DEF kept
      <3>3. held.attempt = kept /\ held.then = "idle"
        BY DEF Blank
      <3>4. Goto(r, "saveAttempt") /\ Hold(r, held)
        BY <2>2 DEF kept
      <3> HIDE DEF held
      <3> QED
        BY <1>2, <1>4, <2>1, <3>2, <3>3, <3>4
    <2>3. \/ Return(r)
          \/ SaveBoth(r, Pays(order), Marked(mem[r].attempt, "paid"))
          \/ SaveBoth(r, Fails(order), Marked(mem[r].attempt, "failed"))
          \/ SaveBoth(r, [order EXCEPT !.payment = "refunded"],
                         Marked(mem[r].attempt, "refunded"))
          \/ /\ Goto(r, "saveAttempt")
             /\ Hold(r, [Blank EXCEPT !.attempt = IF order.payment = "paid"
                           THEN mem[r].attempt ELSE Marked(mem[r].attempt, "pending")])
      BY <1>9 DEF CallbackOrder
    <2> QED
      BY <1>3, <1>5, <2>1, <2>2, <2>3
  <1> QED
    BY <1>6, <1>7, <1>8, <1>9

(* And so do the removal and the saves. *)
LEMMA SavesFit ==
  ASSUME TypeOK, ConfirmInv, NEW r \in Requests,
         \/ RemoveOrder(r)
         \/ SaveOrder(r) \/ WriteOrder(r)
         \/ SaveAttempt(r) \/ WriteAttempt(r)
  PROVE  ConfirmInv'
PROOF
  <1>0. /\ RowsFit
        /\ StartFits(pc[r], mem[r], Opened, attempt)
        /\ LinkFits(pc[r], mem[r], attempt)
        /\ PaymentFits(pc[r], mem[r], recorded)
        /\ order \in ShopOrder /\ attempt \in ShopPaymentAttempt /\ mem[r] \in Memory
        /\ mem[r].attempt \in ShopPaymentAttempt /\ mem[r].order \in ShopOrder
    BY DEF ConfirmInv, Fits, TypeOK, Memory
  <1>1. CASE RemoveOrder(r)
    <2>1. /\ row' = IF attempt.status = "none" THEN "gone" ELSE row
          /\ Goto(r, "idle") /\ Hold(r, Blank) /\ UNCHANGED <<order, attempt, bank, recorded>>
      BY <1>1 DEF RemoveOrder, Delete, Return
    <2>2. Opened' = Opened
      BY <2>1 DEF Opened
    <2>3. RowsFit'
      BY <1>0, <2>1, <2>2 DEF RowsFit, Stored
    <2>4. row' = "none" => row = "none"
      BY <2>1
    <2>5. Fits("idle", Blank, Opened', attempt', recorded') /\ ~Starts("idle", Blank)
      BY ReturnFits
    <2> QED
      BY <2>1, <2>2, <2>3, <2>4, <2>5, FitStep
  <1>2. CASE SaveOrder(r)
    <2> DEFINE dirty == {c \in OrderColumns : mem[r].order[c] # order[c]}
               held == [mem[r] EXCEPT !.dirty = dirty, !.insert = ~Stored]
    <2>1. /\ pc[r] = "saveOrder" /\ Goto(r, "writeOrder") /\ Hold(r, held)
          /\ UNCHANGED <<tables, bank>>
      BY <1>2 DEF SaveOrder
    <2>2. mem[r].order.payment # order.payment => "payment" \in dirty
      BY <1>0 DEF OrderColumns, ShopOrder
    <2> HIDE DEF dirty
    <2>3. /\ held.order = mem[r].order /\ held.attempt = mem[r].attempt
          /\ held.then = mem[r].then /\ held.dirty = dirty /\ held.insert = ~Stored
      BY <1>0 DEF Memory
    <2> HIDE DEF held
    <2>4. ~Starts("writeOrder", held) /\ ~Starts("saveOrder", mem[r])
      BY <1>0, <2>1, <2>3 DEF StartFits, Starts
    <2>5. StartFits("writeOrder", held, Opened, attempt)
      BY <1>0, <2>1, <2>3, <2>4 DEF StartFits
    <2>6. SavesAttempt("writeOrder", held) => SavesAttempt("saveOrder", mem[r])
      BY <2>3 DEF SavesAttempt
    <2>7. LinkFits("writeOrder", held, attempt)
      BY <1>0, <2>1, <2>3, <2>4, <2>6 DEF LinkFits
    <2>8. ASSUME SavesAttempt("writeOrder", held), held.attempt.status = "paid", ~recorded
          PROVE  held.order.payment = "paid" /\ "payment" \in held.dirty /\ ~held.insert
      <3>1. mem[r].order.payment = "paid" /\ order.payment # "paid" /\ attempt.status # "none"
        BY <1>0, <2>1, <2>3, <2>6, <2>8 DEF PaymentFits, RowsFit, LinkFits
      <3> QED
        BY <1>0, <2>2, <2>3, <3>1 DEF RowsFit
    <2>9. PaymentFits("writeOrder", held, recorded)
      BY <2>8 DEF PaymentFits
    <2> QED
      BY <2>1, <2>4, <2>5, <2>7, <2>9, QuietFit DEF Fits
  <1>3. CASE SaveAttempt(r)
    <2> DEFINE dirty == {c \in AttemptColumns : mem[r].attempt[c] # attempt[c]}
               held == [mem[r] EXCEPT !.dirty = dirty]
    <2>1. /\ pc[r] = "saveAttempt" /\ Goto(r, "writeAttempt") /\ Hold(r, held)
          /\ UNCHANGED <<tables, bank>>
      BY <1>3 DEF SaveAttempt
    <2>2. mem[r].attempt.linked # attempt.linked => "linked" \in dirty
      BY <1>0 DEF AttemptColumns, ShopPaymentAttempt
    <2> HIDE DEF dirty
    <2>3. /\ held.order = mem[r].order /\ held.attempt = mem[r].attempt
          /\ held.then = mem[r].then /\ held.dirty = dirty
      BY <1>0 DEF Memory
    <2> HIDE DEF held
    <2>4. Starts("writeAttempt", held) <=> Starts(pc[r], mem[r])
      BY <2>1, <2>3 DEF Starts
    <2>5. StartFits("writeAttempt", held, Opened, attempt)
      BY <1>0, <2>1, <2>3, <2>4 DEF StartFits
    <2>6. /\ attempt.status # "none" /\ mem[r].attempt.status # "none"
          /\ Starts(pc[r], mem[r]) => mem[r].attempt.linked \/ ~attempt.linked
          /\ ~Starts(pc[r], mem[r]) => mem[r].attempt.linked /\ attempt.linked
          /\ mem[r].attempt.status = "paid" => recorded
      BY <1>0, <2>1 DEF LinkFits, PaymentFits, SavesAttempt
    <2>7. LinkFits("writeAttempt", held, attempt)
      BY <2>2, <2>3, <2>4, <2>6 DEF LinkFits
    <2>8. PaymentFits("writeAttempt", held, recorded)
      BY <2>3, <2>6 DEF PaymentFits
    <2> QED
      BY <2>1, <2>4, <2>5, <2>7, <2>8, QuietFit DEF Fits
  <1>4. CASE WriteOrder(r)
    <2> DEFINE held == IF mem[r].then = "idle" THEN Blank
             ELSE [mem[r] EXCEPT !.dirty = {}, !.insert = FALSE, !.then = "idle"]
    <2>1. /\ pc[r] = "writeOrder" /\ Goto(r, mem[r].then) /\ Hold(r, held)
          /\ UNCHANGED <<attempt, bank>>
          /\ recorded' = (recorded \/ order'.payment \in {"paid", "refunded"})
      BY <1>4 DEF WriteOrder, Saved
    <2>2. /\ row' = "none" => row = "none"
          /\ Stored => Stored'
      BY <1>4 DEF WriteOrder, Stored
    <2>3. Opened' = Opened
      BY <2>1 DEF Opened
    <2>4. RowsFit'
      BY <1>0, <2>1, <2>2, <2>3 DEF RowsFit
    <2>5. mem[r].then \in {"idle", "saveAttempt"}
      BY <1>0, <2>1 DEF StartFits, Memory
    <2>6. CASE mem[r].then = "idle"
      <3>1. held = Blank /\ Fits("idle", Blank, Opened', attempt', recorded')
            /\ ~Starts("idle", Blank)
        BY <2>6, ReturnFits
      <3> HIDE DEF held
      <3> QED
        BY <2>1, <2>2, <2>3, <2>4, <2>6, <3>1, FitStep
    <2>7. CASE mem[r].then = "saveAttempt"
      <3>1. held.attempt = mem[r].attempt /\ held.then = "idle"
        BY <1>0, <2>7 DEF Memory
      <3> HIDE DEF held
      <3>2. ~Starts("writeOrder", mem[r]) /\ ~Starts("saveAttempt", held)
        BY <2>7, <3>1 DEF Starts
      <3>3. /\ attempt.status # "none" /\ mem[r].attempt.status # "none"
            /\ mem[r].attempt.linked /\ attempt.linked
        BY <1>0, <2>1, <2>7, <3>2 DEF LinkFits, SavesAttempt
      <3>4. mem[r].attempt.status = "paid" => recorded'
        <4>1. CASE recorded
          BY <2>1, <4>1
        <4>2. ASSUME ~recorded, mem[r].attempt.status = "paid"
              PROVE  recorded'
          <5>1. /\ mem[r].order.payment = "paid" /\ "payment" \in mem[r].dirty
                /\ ~mem[r].insert
            BY <1>0, <2>1, <2>7, <4>2 DEF PaymentFits, SavesAttempt
          <5>2. Stored
            BY <1>0, <3>3 DEF RowsFit
          <5>3. order' = Overwritten(r)
            BY <1>0, <1>4, <5>1, <5>2 DEF WriteOrder, Memory
          <5>4. Overwritten(r).payment = "paid"
            BY <5>1 DEF Overwritten, OrderColumns
          <5> QED
            BY <2>1, <5>3, <5>4
        <4> QED
          BY <4>1, <4>2
      <3>5. /\ StartFits("saveAttempt", held, Opened', attempt')
            /\ LinkFits("saveAttempt", held, attempt')
            /\ PaymentFits("saveAttempt", held, recorded')
        BY <2>1, <3>1, <3>2, <3>3, <3>4 DEF StartFits, LinkFits, PaymentFits
      <3>6. Goto(r, "saveAttempt") /\ Hold(r, held)
        BY <2>1, <2>7
      <3> QED
        BY <2>1, <2>2, <2>3, <2>4, <3>2, <3>5, <3>6, FitStep DEF Fits
    <2> QED
      BY <2>5, <2>6, <2>7
  <1>5. CASE WriteAttempt(r)
    <2> DEFINE held == IF mem[r].then = "idle" THEN Blank
             ELSE [mem[r] EXCEPT !.dirty = {}, !.insert = FALSE, !.then = "idle"]
    <2>1. /\ pc[r] = "writeAttempt" /\ Goto(r, mem[r].then) /\ Hold(r, held)
          /\ UNCHANGED <<row, order, bank, recorded>>
      BY <1>5 DEF WriteAttempt, Saved
    <2>2. /\ attempt'.status \in {mem[r].attempt.status, attempt.status}
          /\ attempt'.linked = IF "linked" \in mem[r].dirty THEN mem[r].attempt.linked
                                                            ELSE attempt.linked
      BY <1>5 DEF WriteAttempt, AttemptColumns
    <2>3. /\ attempt.status # "none" /\ mem[r].attempt.status # "none"
          /\ Starts(pc[r], mem[r]) => mem[r].attempt.linked \/ ~attempt.linked
          /\ ~Starts(pc[r], mem[r]) => mem[r].attempt.linked /\ attempt.linked
          /\ mem[r].attempt.linked => attempt.linked \/ "linked" \in mem[r].dirty
          /\ mem[r].attempt.status = "paid" => recorded
      BY <1>0, <2>1 DEF LinkFits, PaymentFits, SavesAttempt
    <2>4. /\ attempt'.status # "none"
          /\ attempt.linked => attempt'.linked
          /\ mem[r].attempt.linked => attempt'.linked
          /\ ~Starts(pc[r], mem[r]) => attempt.linked
      BY <2>2, <2>3
    <2>5. Opened' = Opened
      BY <2>1 DEF Opened
    <2>6. RowsFit'
      BY <1>0, <2>1, <2>2, <2>3, <2>4, <2>5 DEF RowsFit, Stored
    <2>7. CASE mem[r].then = "idle"
      <3>1. held = Blank /\ Fits("idle", Blank, Opened', attempt', recorded')
            /\ ~Starts("idle", Blank)
        BY <2>7, ReturnFits
      <3> HIDE DEF held
      <3> QED
        BY <2>1, <2>3, <2>4, <2>5, <2>6, <2>7, <3>1, FitStep
    <2>8. CASE mem[r].then # "idle"
      <3> DEFINE step == mem[r].then
      <3>1. held.attempt = mem[r].attempt /\ held.then = "idle"
        BY <1>0, <2>8 DEF Memory
      <3>2. step \in {"redirect", "saveOrder", "saveAttempt"}
        BY <1>0, <2>8 DEF Memory
      <3> HIDE DEF held
      <3>3. /\ Starts(step, held) <=> step = "redirect"
            /\ step = "redirect" => Starts(pc[r], mem[r])
            /\ step = "saveAttempt" => ~Starts(pc[r], mem[r])
        BY <2>1, <3>1, <3>2 DEF Starts
      <3>4. step = "redirect" => ~Opened /\ mem[r].attempt.linked
        BY <1>0, <2>1, <3>3 DEF StartFits
      <3>5. StartFits(step, held, Opened', attempt')
        BY <2>4, <2>5, <3>1, <3>2, <3>3, <3>4 DEF StartFits
      <3>6. LinkFits(step, held, attempt')
        BY <2>3, <2>4, <3>1, <3>2, <3>3, <3>4 DEF LinkFits, SavesAttempt
      <3>7. PaymentFits(step, held, recorded')
        BY <2>1, <2>3, <3>1 DEF PaymentFits
      <3> QED
        BY <2>1, <2>3, <2>4, <2>5, <2>6, <3>3, <3>5, <3>6, <3>7, FitStep DEF Fits
    <2> QED
      BY <2>7, <2>8
  <1> QED
    BY <1>1, <1>2, <1>3, <1>4, <1>5

(* Every step keeps the invariant. *)
LEMMA ConfirmStep ==
  ASSUME TypeOK, ConfirmInv, [Next]_vars
  PROVE  ConfirmInv'
PROOF
  <1>1. ASSUME NEW r \in Requests, Crash(r)
        PROVE  ConfirmInv'
    BY <1>1, ReturnFits, QuietFit DEF Crash, Return
  <1>2. ASSUME Opened' => Opened, UNCHANGED <<order, attempt, recorded, pc, mem>>,
               Stored => Stored' \/ attempt.status = "none",
               row' = "none" => row = "none"
        PROVE  ConfirmInv'
    <2>1. OneStarts'
      BY <1>2 DEF ConfirmInv, OneStarts
    <2>2. RowsFit'
      BY <1>2 DEF ConfirmInv, RowsFit
    <2>3. \A r \in Requests : Fits(pc'[r], mem'[r], Opened', attempt', recorded')
      BY <1>2, OthersFit DEF ConfirmInv
    <2> QED
      BY <2>1, <2>2, <2>3 DEF ConfirmInv
  <1>3. CASE Bank
    <2>1. Opened' => Opened
      BY <1>3 DEF Bank, Pay, Expire, Refund, Opened
    <2> QED
      BY <1>2, <1>3, <2>1 DEF Bank, tables, Stored
  <1>4. CASE PurgeExpiredTrash
    BY <1>2, <1>4 DEF PurgeExpiredTrash, Delete, Opened
  <1>5. CASE UNCHANGED vars
    BY <1>2, <1>5 DEF vars, Stored, Opened
  <1> QED
    BY <1>1, <1>3, <1>4, <1>5, CallsFit, StartsFit, ConfirmationsFit, SavesFit
    DEF Next, Continue

(* Until the shop has recorded a payment, the bank's confirmation finds the
   attempt by its link and the order, and neither the row nor an entity loaded
   for a confirmation says that it was processed already. *)
UnrecordedIsConfirmable ==
  bank = "completed" /\ ~recorded =>
    /\ Stored
    /\ attempt.linked /\ attempt.status # "paid"
    /\ \A r \in Requests : pc[r] = "callbackOrder" => mem[r].attempt.status # "paid"

(* The bank's repeated confirmation of a payment the shop has not recorded is
   never refused as unknown or passed over as processed, whatever starts,
   edits, polls, removals and crashes come in between (callback): what
   PaymentIsRecorded needs besides the bank's repetition. *)
THEOREM ConfirmationsAreHeard == Spec => []UnrecordedIsConfirmable
PROOF
  <1>1. Init => TypeOK /\ ConfirmInv
    <2> SUFFICES ASSUME Init
                 PROVE  TypeOK /\ ConfirmInv
      OBVIOUS
    <2>1. ~Opened /\ RowsFit
      BY DEF Init, Opened, RowsFit, NoAttempt, NewOrder
    <2>2. ~Starts("idle", Blank) /\ Fits("idle", Blank, Opened, attempt, recorded)
      BY ReturnFits
    <2>3. \A r \in Requests : pc[r] = "idle" /\ mem[r] = Blank
      BY DEF Init
    <2> QED
      BY <2>1, <2>2, <2>3, InitTyped DEF ConfirmInv, OneStarts
  <1>2. TypeOK /\ ConfirmInv /\ [Next]_vars => TypeOK' /\ ConfirmInv'
    BY TypeStep, ConfirmStep
  <1>3. TypeOK /\ ConfirmInv => UnrecordedIsConfirmable
    <2> SUFFICES ASSUME ConfirmInv, bank = "completed", ~recorded
                 PROVE  UnrecordedIsConfirmable
      BY DEF UnrecordedIsConfirmable
    <2>1. Stored /\ attempt.linked /\ attempt.status # "paid"
      BY DEF ConfirmInv, RowsFit, Opened
    <2>2. ASSUME NEW r \in Requests, pc[r] = "callbackOrder"
          PROVE  mem[r].attempt.status # "paid"
      BY <2>2 DEF ConfirmInv, Fits, PaymentFits, SavesAttempt
    <2> QED
      BY <2>1, <2>2 DEF UnrecordedIsConfirmable
  <1> QED
    BY <1>1, <1>2, <1>3, PTL DEF Spec
=============================================================================
