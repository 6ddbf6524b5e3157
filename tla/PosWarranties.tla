---------------------------- MODULE PosWarranties ----------------------------
(***************************************************************************)
(* Warranties made from the events of the point of sale (the inbox of      *)
(* integrations.service) and from the orders of the shop                   *)
(* (woocommerce.service), and the staff who enter, edit, extend and remove *)
(* them (warranties.service) while cases come to name them.                *)
(*                                                                         *)
(* The inbox keeps a row per event, so that an event that was processed is *)
(* answered and not processed again. Nothing is locked: the point of sale  *)
(* may repeat an event while it is being processed, WooCommerce may import *)
(* the same order, and every save writes what was loaded before. The two   *)
(* look for a warranty by different columns. A warranty is reduced to them *)
(* and to its unique number; dates, extensions and customer data meet in   *)
(* no rule. Assumed: no product of WooCommerce has the number of an        *)
(* analytics order, which the point of sale looks for in one column.       *)
(***************************************************************************)
EXTENDS Naturals

CONSTANTS
  Orders,         \* what an event identifies: analytics order, or order and serial
  Nothing,        \* a column that names no order
  Events,         \* event_id of the events of the point of sale
  OrderOf,        \* the order each event is about
  Deliveries,     \* the requests that may be served at once
  Imports,        \* the calls of createWarrantyFromOrder at once
  Staff,          \* bound: the calls of staff, one each
  Cases,          \* the service cases that may come to name a warranty
  MaxWarranties,  \* bound: rows ever inserted into warranties
  MaxFaults       \* bound: crashes, and steps that throw

VARIABLES
  warranties,  \* warranties, by primary key
  origin,      \* what a key was made for, and whether by an import
  cases,       \* the warranty_id of every case, 0 for NULL
  events,      \* pos_warranty_inbound_events, by event_id
  delivery,    \* the requests of the point of sale
  first,       \* the orders that are the first item of their order of the shop
  eligible,    \* the events whose order is due a warranty
  imports,     \* the calls of createWarrantyFromOrder
  staff,       \* the calls of staff
  faults,      \* crashes and throws so far
  overlapped,  \* history variable: orders that a delivery shared with another
               \* delivery or an import
  strays       \* history variable: warranties that staff entered, or took away
               \* from where they are found, or whose serial or SKU WooCommerce lacked

rows == <<warranties, origin>>
facts == <<first, eligible>>
history == <<overlapped, strays>>
vars == <<rows, facts, cases, events, delivery, imports, staff, faults, history>>
-----------------------------------------------------------------------------
Ids == 1 .. MaxWarranties

ASSUME PosAssumption ==
  /\ Nothing \notin Orders /\ Events # {} /\ OrderOf \in [Events -> Orders]
  /\ MaxWarranties \in Nat /\ MaxFaults \in Nat

Order == Orders \union {Nothing}

(* "revived": removed, and inserted again under its key by a save. The point of
   sale finds a row of its order, WooCommerce by order_id and order_line_index
   one of the item that the order is to the shop. *)
Warranty ==
  [state : {"unused", "stored", "removed", "revived"}, order : Order, item : Order]
NoWarranty == [state |-> "unused", order |-> Nothing, item |-> Nothing]

Origin == [order : Order, imported : BOOLEAN]
NoOrigin == [order |-> Nothing, imported |-> FALSE]

Stored(id) == warranties[id].state \in {"stored", "revived"}

(* warranty_id is unique: WP-<order>-<product> of every import of an item, else a
   number that no other row has. *)
Taken(order) ==
  \E id \in Ids : Stored(id) /\ origin[id] = [order |-> order, imported |-> TRUE]

(* A new row: its key is the next one. *)
Insert(id, row, made) ==
  /\ warranties[id].state = "unused"
  /\ \A k \in Ids : k < id => warranties[k].state # "unused"
  /\ warranties' = [warranties EXCEPT ![id] = row]
  /\ origin' = [origin EXCEPT ![id] = made]

InboxRow ==
  [status : {"none", "received", "processed", "failed"}, number : 0 .. MaxWarranties]

Delivery ==
  [pc : {"off", "receive", "process", "update", "create", "finish", "fail"},
   event : Events, known : BOOLEAN, id : 0 .. MaxWarranties]
NoDelivery ==
  [pc |-> "off", event |-> CHOOSE e \in Events : TRUE, known |-> FALSE, id |-> 0]

Call ==
  [pc : {"off", "save", "remove", "done"}, id : 0 .. MaxWarranties,
   row : Warranty, cases : SUBSET Cases]
NoCall == [pc |-> "off", id |-> 0, row |-> NoWarranty, cases |-> {}]
Done == [NoCall EXCEPT !.pc = "done"]

Import == [pc : {"off", "insert"}, order : Order]
NoImport == [pc |-> "off", order |-> Nothing]

(* repository.save(entity): the row becomes what the entity says. One that is
   gone is inserted again under its old key and number, if no other row has got
   the number since. *)
CanSave(id) ==
  Stored(id) \/ ~origin[id].imported \/ ~Taken(origin[id].order)
Save(id, e) ==
  /\ CanSave(id)
  /\ warranties' = [warranties EXCEPT
       ![id] = [e EXCEPT !.state = IF Stored(id) THEN warranties[id].state
                                                 ELSE "revived"]]
  /\ UNCHANGED origin

Goto(d, step) == delivery' = [delivery EXCEPT ![d].pc = step]
Answer(d) == delivery' = [delivery EXCEPT ![d] = NoDelivery]
EventOf(d) == delivery[d].event
-----------------------------------------------------------------------------
(* handlePosOrderUpsert: a processed event is answered from its row. *)
AnsweredIfKnown(e) == events[e].status # "none"
Answered(e) == events[e].status = "processed"

AtWorkOn(d, order) == delivery[d].pc # "off" /\ OrderOf[EventOf(d)] = order
ImportsOf(order) ==
  {w \in Imports : imports[w].pc = "insert" /\ imports[w].order = order}

Deliver(d, e) ==
  /\ delivery[d].pc = "off" /\ ~Answered(e)
  /\ delivery' = [delivery EXCEPT ![d] =
       [NoDelivery EXCEPT !.pc = "receive", !.event = e,
                          !.known = events[e].status # "none"]]
  /\ overlapped' =
       IF ImportsOf(OrderOf[e]) # {} \/ \E x \in Deliveries : AtWorkOn(x, OrderOf[e])
         THEN overlapped \union {OrderOf[e]} ELSE overlapped
  /\ UNCHANGED <<rows, facts, cases, events, imports, staff, faults, strays>>

(* The row of a repeated event is started again, whatever it says by now; a
   second INSERT of a new one meets the unique key, outside of the try. *)
Receive(d) ==
  /\ delivery[d].pc = "receive"
  /\ LET e == EventOf(d)
     IN IF ~delivery[d].known /\ events[e].status # "none"
          THEN Answer(d) /\ UNCHANGED events
          ELSE /\ events' = [events EXCEPT ![e] =
                    [status |-> "received", number |-> 0]]
               /\ delivery' = [delivery EXCEPT ![d] =
                    [@ EXCEPT !.pc = "process", !.known = FALSE]]
  /\ UNCHANGED <<rows, facts, cases, imports, staff, faults, history>>

(* findExistingPosWarranty. *)
NamedBy(e) == {id \in Ids : Stored(id) /\ id = events[e].number}
Existing(e) == {id \in Ids : Stored(id) /\ warranties[id].order = OrderOf[e]}

(* processPosOrderSnapshot: deferred or ignored, or the warranty of the order is
   looked for. *)
Process(d) ==
  /\ delivery[d].pc = "process"
  /\ LET e == EventOf(d)
     IN \/ e \notin eligible /\ Goto(d, "finish")
        \/ e \in eligible /\ Existing(e) = {} /\ Goto(d, "create")
        \/ /\ e \in eligible
           /\ \E id \in Existing(e) :
                delivery' = [delivery EXCEPT ![d] =
                  [@ EXCEPT !.pc = "update", !.id = id]]
  /\ UNCHANGED <<rows, facts, cases, events, imports, staff, faults, history>>

(* mapPayloadToWarranty: what the payload says of the order is written over the
   loaded warranty, with order_line_index 0. *)
OfPos(order) ==
  [state |-> "stored", order |-> order,
   item |-> IF order \in first THEN order ELSE Nothing]

Update(d) ==
  /\ delivery[d].pc = "update"
  /\ Save(delivery[d].id, OfPos(OrderOf[EventOf(d)]))
  /\ Goto(d, "finish")
  /\ UNCHANGED <<facts, cases, events, imports, staff, faults, history>>

(* generateWarrantyId and the INSERT under it; numbers that meet are a throw. *)
Create(d) ==
  /\ delivery[d].pc = "create"
  /\ \E id \in Ids :
       /\ Insert(id, OfPos(OrderOf[EventOf(d)]),
                 [order |-> OrderOf[EventOf(d)], imported |-> FALSE])
       /\ delivery' = [delivery EXCEPT ![d] = [@ EXCEPT !.pc = "finish", !.id = id]]
  /\ UNCHANGED <<facts, cases, events, imports, staff, faults, history>>

(* Something throws: a warranty that cannot be saved, and the bound on them,
   included. The event already has its number in memory when it is the mark on it
   that cannot be saved. *)
Exhausted == \A id \in Ids : warranties[id].state # "unused"

Throw(d) ==
  /\ delivery[d].pc \in {"process", "update", "create", "finish"}
  /\ \/ faults < MaxFaults /\ faults' = faults + 1
     \/ delivery[d].pc = "create" /\ Exhausted /\ UNCHANGED faults
     \/ delivery[d].pc = "update" /\ ~CanSave(delivery[d].id) /\ UNCHANGED faults
  /\ delivery' = [delivery EXCEPT ![d] =
       [@ EXCEPT !.pc = "fail",
                 !.id = IF delivery[d].pc = "finish" THEN delivery[d].id ELSE 0]]
  /\ UNCHANGED <<rows, facts, cases, events, imports, staff, history>>

FinishUnnamed(d) ==
  /\ delivery[d].pc = "finish"
  /\ events' = [events EXCEPT ![EventOf(d)] = [@ EXCEPT !.status = "processed"]]
  /\ Answer(d)
  /\ UNCHANGED <<rows, facts, cases, imports, staff, faults, history>>
Finish(d) ==
  /\ delivery[d].pc = "finish"
  /\ events' = [events EXCEPT ![EventOf(d)] =
       [status |-> "processed", number |-> delivery[d].id]]
  /\ Answer(d)
  /\ UNCHANGED <<rows, facts, cases, imports, staff, faults, history>>

Fail(d) ==
  /\ delivery[d].pc = "fail"
  /\ events' = [events EXCEPT ![EventOf(d)] =
       [status |-> "failed", number |-> delivery[d].id]]
  /\ Answer(d)
  /\ UNCHANGED <<rows, facts, cases, imports, staff, faults, history>>
-----------------------------------------------------------------------------
(* createWarrantyFromOrder, as the webhook, the imports of orders and staff call
   it. A row of the item is the answer; else the product is asked for. *)
LookForItem(w, order) ==
  /\ imports[w].pc = "off"
  /\ \A id \in Ids : Stored(id) => warranties[id].item # order
  /\ imports' = [imports EXCEPT ![w] = [pc |-> "insert", order |-> order]]
  /\ overlapped' = IF \E d \in Deliveries : AtWorkOn(d, order)
                     THEN overlapped \union {order} ELSE overlapped
  /\ UNCHANGED <<rows, facts, cases, events, delivery, staff, faults, strays>>

(* The INSERT under the number of the item. The point of sale finds the row if
   WooCommerce knows its serial and SKU, and if not the row is a stray. *)
InsertItem(w) ==
  /\ imports[w].pc = "insert" /\ ~Taken(imports[w].order)
  /\ LET o == imports[w].order
     IN \E id \in Ids, found \in {o, Nothing} :
          /\ Insert(id, [state |-> "stored", order |-> found, item |-> o],
                    [order |-> o, imported |-> TRUE])
          /\ strays' = IF found = Nothing THEN strays \union {id} ELSE strays
  /\ imports' = [imports EXCEPT ![w] = NoImport]
  /\ UNCHANGED <<facts, cases, events, delivery, staff, faults, overlapped>>

(* A product that costs too little or cannot be read, or a number that is taken. *)
GiveUpItem(w) ==
  /\ imports[w].pc = "insert"
  /\ imports' = [imports EXCEPT ![w] = NoImport]
  /\ UNCHANGED <<rows, facts, cases, events, delivery, staff, faults, history>>
-----------------------------------------------------------------------------
CasesOf(id) == {c \in Cases : cases[c] = id}

(* A case that comes to name a warranty. *)
Attach(c, id) ==
  /\ cases[c] = 0 /\ Stored(id)
  /\ cases' = [cases EXCEPT ![c] = id]
  /\ UNCHANGED <<rows, facts, events, delivery, imports, staff, faults, history>>

(* update and extendWarranty load the warranty with its service_cases; an edit
   may change the columns that its order, or its item, is found by. *)
EditedToZero(row) == {row, [row EXCEPT !.order = 0]}
Edited(row) ==
  {row, [row EXCEPT !.order = Nothing], [row EXCEPT !.item = Nothing]}

Load(s, id) ==
  /\ staff[s].pc = "off" /\ Stored(id)
  /\ \E e \in Edited(warranties[id]) :
       /\ staff' = [staff EXCEPT ![s] =
            [pc |-> "save", id |-> id, row |-> e, cases |-> CasesOf(id)]]
       /\ strays' = IF e = warranties[id] THEN strays ELSE strays \union {id}
  /\ UNCHANGED <<rows, facts, cases, events, delivery, imports, faults, overlapped>>

(* save() carries the relation along, if the row can be saved: the cases it was
   loaded with name the warranty, and the ones that came since do not. *)
Relate(id, loaded) ==
  cases' = [c \in Cases |->
    CASE c \in loaded -> id
      [] c \in CasesOf(id) \ loaded -> 0
      [] OTHER -> cases[c]]

SaveStaff(s) ==
  /\ staff[s].pc = "save"
  /\ IF CanSave(staff[s].id)
       THEN Save(staff[s].id, staff[s].row) /\ Relate(staff[s].id, staff[s].cases)
       ELSE UNCHANGED <<rows, cases>>
  /\ staff' = [staff EXCEPT ![s] = Done]
  /\ UNCHANGED <<facts, events, delivery, imports, faults, history>>

(* create, also called for each row of a file of warranties: nothing that it says
   of an order is looked up by what the point of sale or WooCommerce know. *)
Enter(s, o) ==
  /\ staff[s].pc = "off"
  /\ \E id \in Ids, found \in {o, Nothing}, item \in {o, Nothing} :
       /\ Insert(id, [state |-> "stored", order |-> found, item |-> item],
                 [order |-> o, imported |-> FALSE])
       /\ strays' = strays \union {id}
  /\ staff' = [staff EXCEPT ![s] = Done]
  /\ UNCHANGED <<facts, cases, events, delivery, imports, faults, overlapped>>

(* remove, and bulkRemove for each of its ids: looks at the cases, writes the
   audit log, deletes. The foreign key unlinks whoever came in between. *)
MayRemoveAny(id) == Stored(id)
MayRemove(id) == Stored(id) /\ CasesOf(id) = {}

LoadForRemoval(s, id) ==
  /\ staff[s].pc = "off" /\ MayRemove(id)
  /\ staff' = [staff EXCEPT ![s] =
       [NoCall EXCEPT !.pc = "remove", !.id = id, !.cases = CasesOf(id)]]
  /\ UNCHANGED <<rows, facts, cases, events, delivery, imports, faults, history>>

Remove(s) ==
  /\ staff[s].pc = "remove"
  /\ LET id == staff[s].id
     IN /\ warranties' = [warranties EXCEPT ![id] =
             [NoWarranty EXCEPT !.state = "removed"]]
        /\ cases' = [c \in Cases |-> IF cases[c] = id THEN 0 ELSE cases[c]]
  /\ UNCHANGED origin
  /\ staff' = [staff EXCEPT ![s] = Done]
  /\ UNCHANGED <<facts, events, delivery, imports, faults, history>>

(* The process dies; the point of sale has no answer. *)
Crash ==
  /\ faults < MaxFaults /\ faults' = faults + 1
  /\ delivery' = [d \in Deliveries |-> NoDelivery]
  /\ imports' = [w \in Imports |-> NoImport]
  /\ staff' = [s \in Staff |-> IF staff[s].pc = "off" THEN NoCall ELSE Done]
  /\ UNCHANGED <<rows, facts, cases, events, history>>
-----------------------------------------------------------------------------
Init ==
  /\ warranties = [id \in Ids |-> NoWarranty] /\ origin = [id \in Ids |-> NoOrigin]
  /\ first \in SUBSET Orders /\ eligible \in SUBSET Events
  /\ cases = [c \in Cases |-> 0]
  /\ events = [e \in Events |-> [status |-> "none", number |-> 0]]
  /\ delivery = [d \in Deliveries |-> NoDelivery]
  /\ imports = [w \in Imports |-> NoImport] /\ staff = [s \in Staff |-> NoCall]
  /\ faults = 0 /\ overlapped = {} /\ strays = {}

Proceed(d) ==
  \/ Receive(d) \/ Process(d) \/ Update(d) \/ Create(d) \/ Throw(d)
  \/ Finish(d) \/ Fail(d)

ImportStep(w) ==
  InsertItem(w) \/ GiveUpItem(w) \/ \E o \in Orders : LookForItem(w, o)

StaffStep(s) ==
  \/ SaveStaff(s) \/ Remove(s)
  \/ \E o \in Orders : Enter(s, o)
  \/ \E id \in Ids : Load(s, id) \/ LoadForRemoval(s, id)

Next ==
  \/ \E d \in Deliveries : Proceed(d) \/ \E e \in Events : Deliver(d, e)
  \/ \E w \in Imports : ImportStep(w)
  \/ \E s \in Staff : StaffStep(s)
  \/ \E c \in Cases, id \in Ids : Attach(c, id)
  \/ Crash

(* The event loop resumes a handler whose statement was answered, and the point
   of sale repeats an event until it is answered. *)
Fairness ==
  /\ \A d \in Deliveries : WF_vars(Proceed(d))
  /\ \A e \in Events : SF_vars(\E d \in Deliveries : Deliver(d, e))

Spec == Init /\ [][Next]_vars
FairSpec == Spec /\ Fairness
-----------------------------------------------------------------------------
TypeOK ==
  /\ warranties \in [Ids -> Warranty] /\ origin \in [Ids -> Origin]
  /\ cases \in [Cases -> 0 .. MaxWarranties] /\ imports \in [Imports -> Import]
  /\ events \in [Events -> InboxRow] /\ delivery \in [Deliveries -> Delivery]
  /\ staff \in [Staff -> Call] /\ faults \in 0 .. MaxFaults
  /\ overlapped \subseteq Orders /\ strays \subseteq Ids /\ first \subseteq Orders
  /\ eligible \subseteq Events

(* However often events are repeated, before or after a crash between the
   warranty and the mark on the event, and however often WooCommerce imports the
   order, it has one warranty: unless a delivery for it was served together with
   another or with an import; a late save brought back one that was removed; one
   of the two is a stray, that staff entered or took away from where it is found,
   or that WooCommerce inserted without serial or SKU; or WooCommerce inserted one
   and its item is not the first of the shop's order, which is where the one of
   the point of sale stands. *)
OneWarrantyPerOrder ==
  \A k, l \in Ids :
    /\ Stored(k) /\ Stored(l) /\ k # l
    /\ origin[k].order = origin[l].order
    => \/ origin[k].order \in overlapped
       \/ "revived" \in {warranties[k].state, warranties[l].state}
       \/ {k, l} \intersect strays # {}
       \/ /\ origin[k].order \notin first
          /\ \E id \in {k, l} : origin[id].imported

(* What a processed event is answered with: the number of a warranty that was
   made for its order, also when the event was repeated or failed before, or when
   it was WooCommerce that made it. *)
AnswersNameTheOrder ==
  \A e \in eligible :
    events[e].status = "processed"
      => events[e].number \in Ids /\ origin[events[e].number].order = OrderOf[e]

(* 'Cannot delete warranty with associated service cases' (warranties.service):
   kept as far as it can be without a lock. A case loses its warranty only by a
   call of staff that had loaded the warranty before the case came to name it. *)
KnownCasesStay ==
  [][\A s \in Staff, c \in Cases :
       (SaveStaff(s) \/ Remove(s)) /\ cases[c] # 0 /\ cases'[c] = 0
         => c \notin staff[s].cases]_vars

(* An event that has reached the inbox is processed in the end, whatever fails
   or crashes a bounded number of times on the way (or the bound on warranties
   is reached): it never leaves the inbox, so it is enough that again and again it
   is not there yet or is processed. *)
EventsAreProcessed ==
  \A e \in Events :
    []<>(events[e].status \in {"none", "processed"} \/ Exhausted)
=============================================================================
