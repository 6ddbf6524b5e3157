------------------------------ MODULE PosProofs ------------------------------
(***************************************************************************)
(* What holds of the warranties of the point of sale and of WooCommerce    *)
(* for every number of orders, events, deliveries, imports, calls of staff *)
(* and cases: types, that an answer names a warranty of the order, and     *)
(* that an order has one warranty.                                         *)
(***************************************************************************)
EXTENDS PosWarranties, TLAPS

-----------------------------------------------------------------------------
LEMMA NoWarrantyType == NoWarranty \in Warranty
  BY DEF NoWarranty, Warranty, Order

LEMMA OriginTypes ==
  ASSUME NEW order \in Order
  PROVE  [order |-> order, imported |-> TRUE] \in Origin
         /\ [order |-> order, imported |-> FALSE] \in Origin
         /\ NoOrigin \in Origin /\ NoImport \in Import
         /\ [pc |-> "insert", order |-> order] \in Import
  BY DEF Origin, NoOrigin, Import, NoImport, Order

LEMMA NoDeliveryType == NoDelivery \in Delivery
<1>1. (CHOOSE e \in Events : TRUE) \in Events
  BY PosAssumption
<1>2. 0 \in 0 .. MaxWarranties
  BY PosAssumption
<1> QED BY <1>1, <1>2 DEF NoDelivery, Delivery

LEMMA CallTypes == NoCall \in Call /\ Done \in Call
<1>1. 0 \in 0 .. MaxWarranties
  BY PosAssumption
<1>2. NoCall \in Call
  BY <1>1, NoWarrantyType DEF NoCall, Call
<1> QED BY <1>2 DEF Done, Call

LEMMA IdsType == \A id \in Ids : id \in 0 .. MaxWarranties
  BY PosAssumption DEF Ids

LEMMA DeliveryFields ==
  ASSUME TypeOK, NEW d \in Deliveries
  PROVE  /\ delivery[d] \in Delivery
         /\ EventOf(d) \in Events /\ OrderOf[EventOf(d)] \in Orders
         /\ delivery[d].id \in 0 .. MaxWarranties
  BY PosAssumption DEF TypeOK, Delivery, EventOf

LEMMA CallFields ==
  ASSUME TypeOK, NEW s \in Staff
  PROVE  /\ staff[s] \in Call
         /\ staff[s].id \in 0 .. MaxWarranties
         /\ staff[s].row \in Warranty /\ staff[s].cases \subseteq Cases
  BY DEF TypeOK, Call

LEMMA SaveType ==
  ASSUME TypeOK, NEW id, NEW row \in Warranty, Save(id, row)
  PROVE  warranties' \in [Ids -> Warranty] /\ origin' \in [Ids -> Origin]
<1>1. \A state \in {"unused", "stored", "removed", "revived"} :
        [row EXCEPT !.state = state] \in Warranty
  BY DEF Warranty
<1>2. id \in Ids => (IF Stored(id) THEN warranties[id].state ELSE "revived")
                      \in {"unused", "stored", "removed", "revived"}
  BY DEF TypeOK, Warranty
<1> QED BY <1>1, <1>2 DEF Save, TypeOK

LEMMA InsertType ==
  ASSUME TypeOK, NEW id \in Ids, NEW row \in Warranty, NEW made \in Origin,
         Insert(id, row, made)
  PROVE  warranties' \in [Ids -> Warranty] /\ origin' \in [Ids -> Origin]
  BY DEF Insert, TypeOK

LEMMA OfPosType ==
  ASSUME NEW o \in Orders
  PROVE  /\ OfPos(o) \in Warranty
         /\ OfPos(o).state = "stored" /\ OfPos(o).order = o
         /\ o \in first => OfPos(o).item = o
  BY DEF OfPos, Warranty, Order

(* A step of a handler of the point of sale keeps the types. *)
LEMMA ProceedType ==
  ASSUME TypeOK, NEW d \in Deliveries, Proceed(d)
  PROVE  TypeOK'
<1>0. ASSUME NEW held \in Delivery, delivery' = [delivery EXCEPT ![d] = held]
      PROVE  delivery' \in [Deliveries -> Delivery]
  BY <1>0 DEF TypeOK
<1>1. CASE Receive(d)
  <2>1. [status |-> "received", number |-> 0] \in InboxRow
    BY PosAssumption DEF InboxRow
  <2>2. events' \in [Events -> InboxRow]
    BY <1>1, <2>1, DeliveryFields DEF Receive, TypeOK
  <2>3. [delivery[d] EXCEPT !.pc = "process", !.known = FALSE] \in Delivery
    BY DeliveryFields DEF Delivery
  <2>4. delivery' \in [Deliveries -> Delivery]
    BY <1>0, <1>1, <2>3, NoDeliveryType DEF Receive, Answer
  <2> QED BY <1>1, <2>2, <2>4 DEF Receive, TypeOK, rows, facts, history
<1>2. CASE Process(d)
  <2>1. ASSUME NEW id \in Existing(EventOf(d))
        PROVE  [delivery[d] EXCEPT !.pc = "update", !.id = id] \in Delivery
    BY IdsType, DeliveryFields DEF Delivery, Existing
  <2>2. ASSUME NEW step \in {"finish", "create"}, Goto(d, step)
        PROVE  delivery' \in [Deliveries -> Delivery]
    BY <2>2, DeliveryFields DEF Goto, TypeOK, Delivery
  <2>3. delivery' \in [Deliveries -> Delivery]
    BY <1>0, <1>2, <2>1, <2>2 DEF Process
  <2> QED BY <1>2, <2>3 DEF Process, TypeOK, rows, facts, history
<1>3. CASE Update(d)
  <2>1. OfPos(OrderOf[EventOf(d)]) \in Warranty
    BY DeliveryFields, OfPosType
  <2>2. delivery' \in [Deliveries -> Delivery]
    BY <1>3, DeliveryFields DEF Update, Goto, TypeOK, Delivery
  <2> QED BY <1>3, <2>1, <2>2, SaveType DEF Update, TypeOK, rows, facts, history
<1>4. CASE Create(d)
  <2>1. PICK id \in Ids :
          /\ Insert(id, OfPos(OrderOf[EventOf(d)]),
                    [order |-> OrderOf[EventOf(d)], imported |-> FALSE])
          /\ delivery' = [delivery EXCEPT ![d] =
               [@ EXCEPT !.pc = "finish", !.id = id]]
    BY <1>4 DEF Create
  <2>2. [delivery[d] EXCEPT !.pc = "finish", !.id = id] \in Delivery
    BY IdsType, DeliveryFields DEF Delivery
  <2>3. delivery' \in [Deliveries -> Delivery]
    BY <2>1, <2>2 DEF TypeOK
  <2>4. warranties' \in [Ids -> Warranty] /\ origin' \in [Ids -> Origin]
    <3>1. [order |-> OrderOf[EventOf(d)], imported |-> FALSE] \in Origin
      BY DeliveryFields, OriginTypes DEF Order
    <3>2. OfPos(OrderOf[EventOf(d)]) \in Warranty
      BY DeliveryFields, OfPosType
    <3> QED BY <2>1, <3>1, <3>2, InsertType
  <2> QED BY <1>4, <2>3, <2>4 DEF Create, TypeOK, facts, history
<1>5. CASE Throw(d)
  <2>0. (IF delivery[d].pc = "finish" THEN delivery[d].id ELSE 0) \in 0 .. MaxWarranties
    BY PosAssumption, DeliveryFields
  <2>1. [delivery[d] EXCEPT !.pc = "fail", !.id =
           IF delivery[d].pc = "finish" THEN delivery[d].id ELSE 0] \in Delivery
    BY <2>0, DeliveryFields DEF Delivery
  <2>2. delivery' \in [Deliveries -> Delivery]
    BY <1>0, <1>5, <2>1 DEF Throw
  <2>3. faults' \in 0 .. MaxFaults
    BY <1>5, PosAssumption DEF Throw, TypeOK
  <2> QED BY <1>5, <2>2, <2>3 DEF Throw, TypeOK, rows, facts, history
<1>6. CASE Finish(d) \/ Fail(d)
  <2>1. \A status \in {"processed", "failed"} :
          [status |-> status, number |-> delivery[d].id] \in InboxRow
    BY DeliveryFields DEF InboxRow
  <2>2. events' \in [Events -> InboxRow]
    BY <1>6, <2>1 DEF Finish, Fail, TypeOK
  <2>3. delivery' \in [Deliveries -> Delivery]
    BY <1>0, <1>6, NoDeliveryType DEF Finish, Fail, Answer
  <2> QED BY <1>6, <2>2, <2>3 DEF Finish, Fail, TypeOK, rows, facts, history
<1> QED BY <1>1, <1>2, <1>3, <1>4, <1>5, <1>6 DEF Proceed

(* So does a call of staff. *)
LEMMA StaffType ==
  ASSUME TypeOK, NEW s \in Staff, StaffStep(s)
  PROVE  TypeOK'
<1>1. CASE SaveStaff(s)
  <2>1. \A c \in Cases :
          (CASE c \in staff[s].cases -> staff[s].id
             [] c \in CasesOf(staff[s].id) \ staff[s].cases -> 0
             [] OTHER -> cases[c]) \in 0 .. MaxWarranties
    BY PosAssumption, CallFields DEF TypeOK
  <2>2. cases' \in [Cases -> 0 .. MaxWarranties]
    <3>1. CASE CanSave(staff[s].id)
      BY <1>1, <2>1, <3>1 DEF SaveStaff, Relate
    <3>2. CASE ~CanSave(staff[s].id)
      BY <1>1, <3>2 DEF SaveStaff, TypeOK
    <3> QED BY <3>1, <3>2
  <2>3. staff' \in [Staff -> Call]
    BY <1>1, CallTypes DEF SaveStaff, TypeOK
  <2>4. warranties' \in [Ids -> Warranty] /\ origin' \in [Ids -> Origin]
    <3>1. CASE CanSave(staff[s].id)
      BY <1>1, <3>1, SaveType, CallFields DEF SaveStaff
    <3>2. CASE ~CanSave(staff[s].id)
      BY <1>1, <3>2 DEF SaveStaff, TypeOK, rows
    <3> QED BY <3>1, <3>2
  <2> QED BY <1>1, <2>2, <2>3, <2>4 DEF SaveStaff, TypeOK, facts, history
<1>2. CASE Remove(s)
  <2>1. [NoWarranty EXCEPT !.state = "removed"] \in Warranty
    BY NoWarrantyType DEF Warranty
  <2>2. cases' \in [Cases -> 0 .. MaxWarranties]
    BY <1>2, PosAssumption DEF Remove, TypeOK
  <2>3. staff' \in [Staff -> Call] /\ warranties' \in [Ids -> Warranty]
    BY <1>2, <2>1, CallTypes DEF Remove, TypeOK
  <2> QED BY <1>2, <2>2, <2>3 DEF Remove, TypeOK, rows, facts, history
<1>3. ASSUME NEW id \in Ids, Load(s, id)
      PROVE  TypeOK'
  <2>1. PICK e \in Edited(warranties[id]) :
          /\ staff' = [staff EXCEPT ![s] =
               [pc |-> "save", id |-> id, row |-> e, cases |-> CasesOf(id)]]
          /\ strays' = IF e = warranties[id] THEN strays ELSE strays \union {id}
    BY <1>3 DEF Load
  <2>2. e \in Warranty
    BY DEF Edited, TypeOK, Warranty, Order
  <2>3. [pc |-> "save", id |-> id, row |-> e, cases |-> CasesOf(id)] \in Call
    BY <2>2, IdsType DEF Call, CasesOf
  <2>4. staff' \in [Staff -> Call] /\ strays' \subseteq Ids
    BY <2>1, <2>3 DEF TypeOK
  <2> QED BY <1>3, <2>4 DEF Load, TypeOK, rows, facts
<1>4. ASSUME NEW id \in Ids, LoadForRemoval(s, id)
      PROVE  TypeOK'
  <2>1. [NoCall EXCEPT !.pc = "remove", !.id = id, !.cases = CasesOf(id)] \in Call
    BY CallTypes, IdsType DEF Call, CasesOf
  <2>2. staff' \in [Staff -> Call]
    BY <1>4, <2>1 DEF LoadForRemoval, TypeOK
  <2> QED BY <1>4, <2>2 DEF LoadForRemoval, TypeOK, rows, facts, history
<1>5. ASSUME NEW o \in Orders, Enter(s, o)
      PROVE  TypeOK'
  <2>1. PICK id \in Ids, found \in {o, Nothing}, item \in {o, Nothing} :
          /\ Insert(id, [state |-> "stored", order |-> found, item |-> item],
                    [order |-> o, imported |-> FALSE])
          /\ strays' = strays \union {id}
    BY <1>5 DEF Enter
  <2>2. [state |-> "stored", order |-> found, item |-> item] \in Warranty
    BY DEF Warranty, Order
  <2>3. [order |-> o, imported |-> FALSE] \in Origin
    BY OriginTypes DEF Order
  <2>4. warranties' \in [Ids -> Warranty] /\ origin' \in [Ids -> Origin]
    BY <2>1, <2>2, <2>3, InsertType
  <2>5. staff' \in [Staff -> Call] /\ strays' \subseteq Ids
    BY <1>5, <2>1, CallTypes DEF Enter, TypeOK
  <2> QED BY <1>5, <2>4, <2>5 DEF Enter, TypeOK, facts
<1> QED BY <1>1, <1>2, <1>3, <1>4, <1>5 DEF StaffStep

(* And an import. *)
LEMMA ImportStepType ==
  ASSUME TypeOK, NEW w \in Imports, ImportStep(w)
  PROVE  TypeOK'
<1>1. ASSUME NEW o \in Orders, LookForItem(w, o)
      PROVE  TypeOK'
  <2>1. [pc |-> "insert", order |-> o] \in Import
    BY OriginTypes DEF Order
  <2>2. imports' \in [Imports -> Import] /\ overlapped' \subseteq Orders
    BY <1>1, <2>1 DEF LookForItem, TypeOK
  <2> QED BY <1>1, <2>2 DEF LookForItem, TypeOK, rows, facts
<1>2. CASE InsertItem(w)
  <2> DEFINE o == imports[w].order
  <2>1. PICK id \in Ids, found \in {o, Nothing} :
          /\ Insert(id, [state |-> "stored", order |-> found, item |-> o],
                    [order |-> o, imported |-> TRUE])
          /\ strays' = IF found = Nothing THEN strays \union {id} ELSE strays
    BY <1>2 DEF InsertItem
  <2>2. o \in Order
    BY DEF TypeOK, Import
  <2>3. [state |-> "stored", order |-> found, item |-> o] \in Warranty
    BY <2>2 DEF Warranty, Order
  <2>4. [order |-> o, imported |-> TRUE] \in Origin /\ NoImport \in Import
    BY <2>2, OriginTypes
  <2>5. warranties' \in [Ids -> Warranty] /\ origin' \in [Ids -> Origin]
    <3> HIDE DEF o
    <3> QED BY <2>1, <2>3, <2>4, InsertType
  <2>6. imports' \in [Imports -> Import] /\ strays' \subseteq Ids
    BY <1>2, <2>1, <2>4 DEF InsertItem, TypeOK
  <2> QED BY <1>2, <2>5, <2>6 DEF InsertItem, TypeOK, facts
<1>3. CASE GiveUpItem(w)
  <2>1. NoImport \in Import
    BY DEF NoImport, Import, Order
  <2>2. imports' \in [Imports -> Import]
    BY <1>3, <2>1 DEF GiveUpItem, TypeOK
  <2> QED BY <1>3, <2>2 DEF GiveUpItem, TypeOK, rows, facts, history
<1> QED BY <1>1, <1>2, <1>3 DEF ImportStep

LEMMA DeliverType ==
  ASSUME TypeOK, NEW d \in Deliveries, NEW e \in Events, Deliver(d, e)
  PROVE  TypeOK'
<1>1. [NoDelivery EXCEPT !.pc = "receive", !.event = e,
                         !.known = events[e].status # "none"] \in Delivery
  BY NoDeliveryType DEF Delivery
<1>2. delivery' \in [Deliveries -> Delivery]
  BY <1>1 DEF Deliver, TypeOK
<1>3. overlapped' \subseteq Orders
  BY PosAssumption DEF Deliver, TypeOK
<1> QED BY <1>2, <1>3 DEF Deliver, TypeOK, rows, facts

LEMMA CrashType ==
  ASSUME TypeOK, Crash
  PROVE  TypeOK'
<1>1. faults' \in 0 .. MaxFaults
  BY PosAssumption DEF Crash, TypeOK
<1>2. delivery' \in [Deliveries -> Delivery] /\ staff' \in [Staff -> Call]
  BY NoDeliveryType, CallTypes DEF Crash
<1>3. imports' \in [Imports -> Import]
  BY DEF Crash, NoImport, Import, Order
<1> QED BY <1>1, <1>2, <1>3 DEF Crash, TypeOK, rows, facts, history

LEMMA TypeStep ==
  ASSUME TypeOK, [Next]_vars
  PROVE  TypeOK'
<1>1. CASE UNCHANGED vars
  BY <1>1 DEF vars, rows, facts, history, TypeOK
<1>2. ASSUME NEW c \in Cases, NEW id \in Ids, Attach(c, id)
      PROVE  TypeOK'
  BY <1>2, IdsType DEF Attach, TypeOK, rows, facts, history
<1> QED BY <1>1, <1>2, ProceedType, DeliverType, ImportStepType, StaffType, CrashType
        DEF Next

(* Every reachable state is well typed. *)
THEOREM PosTypeCorrect == Spec => []TypeOK
<1>1. Init => TypeOK
  <2>1. [status |-> "none", number |-> 0] \in InboxRow /\ 0 \in 0 .. MaxFaults
    BY PosAssumption DEF InboxRow
  <2>2. 0 \in 0 .. MaxWarranties
    BY PosAssumption
  <2>3. NoOrigin \in Origin /\ NoImport \in Import
    BY OriginTypes DEF Order
  <2> QED BY <2>1, <2>2, <2>3, NoWarrantyType, NoDeliveryType, CallTypes
          DEF Init, TypeOK
<1> QED BY <1>1, TypeStep, PTL DEF Spec
-----------------------------------------------------------------------------
(* What a key was made for stays, and whoever holds the key in memory, in the
   inbox or in a loaded entity takes it for a warranty of that order, or for one
   that its order does not find. *)
Made(id) == id \in Ids /\ warranties[id].state # "unused"
HomeOf(id) == origin[id].order

RowsAgree == \A id \in Ids : warranties[id].order \in {HomeOf(id), Nothing}
StaffAgrees ==
  \A s \in Staff :
    staff[s].pc = "save"
      => Made(staff[s].id) /\ staff[s].row.order \in {HomeOf(staff[s].id), Nothing}
HandlersAgree ==
  \A d \in Deliveries :
    \/ delivery[d].pc = "update"
    \/ delivery[d].pc = "finish" /\ EventOf(d) \in eligible
    => Made(delivery[d].id) /\ HomeOf(delivery[d].id) = OrderOf[EventOf(d)]
InboxAgrees ==
  \A e \in eligible :
    e \in Events /\ events[e].status = "processed"
      => Made(events[e].number) /\ HomeOf(events[e].number) = OrderOf[e]

Home == RowsAgree /\ StaffAgrees /\ HandlersAgree /\ InboxAgrees

(* save() leaves the state of a row that is there, and revives one that is not. *)
LEMMA SaveRows ==
  ASSUME TypeOK, NEW id, NEW row \in Warranty, Save(id, row)
  PROVE  /\ UNCHANGED origin
         /\ \A k \in Ids \ {id} : warranties'[k] = warranties[k]
         /\ id \in Ids =>
              /\ warranties'[id].order = row.order /\ warranties'[id].item = row.item
              /\ warranties'[id].state =
                   IF Stored(id) THEN warranties[id].state ELSE "revived"
  BY DEF Save, TypeOK, Warranty

LEMMA InsertRows ==
  ASSUME TypeOK, NEW id \in Ids, NEW row, NEW made, Insert(id, row, made)
  PROVE  /\ ~Made(id) /\ warranties'[id] = row /\ origin'[id] = made
         /\ \A k \in Ids \ {id} :
              warranties'[k] = warranties[k] /\ origin'[k] = origin[k]
  BY DEF Insert, TypeOK, Made

(* The steps that change a row, and what they do to it. *)
Creates(d, id) ==
  Insert(id, OfPos(OrderOf[EventOf(d)]),
         [order |-> OrderOf[EventOf(d)], imported |-> FALSE])
ImportsItem(w, id, found) ==
  /\ Insert(id, [state |-> "stored", order |-> found, item |-> imports[w].order],
            [order |-> imports[w].order, imported |-> TRUE])
  /\ found = Nothing => id \in strays'
Enters(o, id, found, item) ==
  /\ Insert(id, [state |-> "stored", order |-> found, item |-> item],
            [order |-> o, imported |-> FALSE])
  /\ id \in strays'
Removes(id) ==
  /\ UNCHANGED origin
  /\ warranties' = [warranties EXCEPT ![id] = [NoWarranty EXCEPT !.state = "removed"]]

RowsMove ==
  \/ UNCHANGED rows
  \/ \E d \in Deliveries : Update(d)
  \/ \E d \in Deliveries, id \in Ids : Create(d) /\ Creates(d, id)
  \/ \E w \in Imports : \E id \in Ids, found \in {imports[w].order, Nothing} :
       InsertItem(w) /\ ImportsItem(w, id, found)
  \/ \E s \in Staff : staff[s].pc = "save" /\ Save(staff[s].id, staff[s].row)
  \/ \E s \in Staff : Removes(staff[s].id)
  \/ \E o \in Orders : \E id \in Ids, found \in {o, Nothing}, item \in {o, Nothing} :
       Enters(o, id, found, item)

LEMMA RowsStep ==
  ASSUME [Next]_vars
  PROVE  RowsMove
<1>1. CASE \/ UNCHANGED vars \/ Crash
           \/ \E d \in Deliveries :
                \/ Receive(d) \/ Process(d) \/ Throw(d) \/ Finish(d) \/ Fail(d)
                \/ \E e \in Events : Deliver(d, e)
           \/ \E c \in Cases, id \in Ids : Attach(c, id)
           \/ \E w \in Imports : GiveUpItem(w) \/ \E o \in Orders : LookForItem(w, o)
           \/ \E s \in Staff, id \in Ids : Load(s, id) \/ LoadForRemoval(s, id)
  <2>1. UNCHANGED rows
    BY <1>1 DEF vars, rows, Receive, Process, Throw, Finish, Fail, Deliver, Crash, Attach,
                GiveUpItem, LookForItem, Load, LoadForRemoval
  <2> QED BY <2>1 DEF RowsMove
<1>2. ASSUME NEW d \in Deliveries, Update(d) \/ Create(d)
      PROVE  RowsMove
  BY <1>2 DEF Create, Creates, RowsMove
<1>3. ASSUME NEW w \in Imports, InsertItem(w)
      PROVE  RowsMove
  <2>1. PICK id \in Ids, found \in {imports[w].order, Nothing} :
          /\ Insert(id, [state |-> "stored", order |-> found, item |-> imports[w].order],
                    [order |-> imports[w].order, imported |-> TRUE])
          /\ strays' = IF found = Nothing THEN strays \union {id} ELSE strays
    BY <1>3 DEF InsertItem
  <2>2. ImportsItem(w, id, found)
    BY <2>1 DEF ImportsItem
  <2> QED BY <1>3, <2>2 DEF RowsMove
<1>4. ASSUME NEW s \in Staff, SaveStaff(s) \/ Remove(s) \/ \E o \in Orders : Enter(s, o)
      PROVE  RowsMove
  <2>1. CASE SaveStaff(s)
    <3>1. CASE CanSave(staff[s].id)
      BY <2>1, <3>1 DEF SaveStaff, RowsMove
    <3>2. CASE ~CanSave(staff[s].id)
      BY <2>1, <3>2 DEF SaveStaff, RowsMove
    <3> QED BY <3>1, <3>2
  <2>2. CASE Remove(s)
    BY <2>2 DEF Remove, Removes, RowsMove
  <2>3. ASSUME NEW o \in Orders, Enter(s, o)
        PROVE  RowsMove
    <3>1. PICK id \in Ids, found \in {o, Nothing}, item \in {o, Nothing} :
            /\ Insert(id, [state |-> "stored", order |-> found, item |-> item],
                      [order |-> o, imported |-> FALSE])
            /\ strays' = strays \union {id}
      BY <2>3 DEF Enter
    <3>2. Enters(o, id, found, item)
      BY <3>1 DEF Enters
    <3> QED BY <3>2 DEF RowsMove
  <2> QED BY <1>4, <2>1, <2>2, <2>3
<1> QED BY <1>1, <1>2, <1>3, <1>4 DEF Next, Proceed, ImportStep, StaffStep

LEMMA UpdateSaves ==
  ASSUME TypeOK, NEW d \in Deliveries, Update(d)
  PROVE  /\ Save(delivery[d].id, OfPos(OrderOf[EventOf(d)]))
         /\ OfPos(OrderOf[EventOf(d)]) \in Warranty
  BY DeliveryFields, OfPosType DEF Update

LEMMA RemoveRows ==
  ASSUME TypeOK, NEW id, Removes(id)
  PROVE  /\ UNCHANGED origin
         /\ \A k \in Ids \ {id} : warranties'[k] = warranties[k]
         /\ id \in Ids => /\ warranties'[id].state = "removed"
                          /\ warranties'[id].order = Nothing
  BY DEF Removes, TypeOK, NoWarranty

(* A key that was made keeps its origin. *)
LEMMA OriginsStay ==
  ASSUME TypeOK, [Next]_vars, NEW k, Made(k)
  PROVE  Made(k)' /\ origin'[k] = origin[k]
<1>1. ASSUME NEW id, NEW row \in Warranty, Save(id, row)
      PROVE  Made(k)' /\ origin'[k] = origin[k]
  <2>1. CASE k = id
    BY <1>1, <2>1, SaveRows DEF Made
  <2>2. CASE k # id
    BY <1>1, <2>2, SaveRows DEF Made
  <2> QED BY <2>1, <2>2
<1>2. ASSUME NEW id \in Ids, NEW row, NEW made, Insert(id, row, made)
      PROVE  Made(k)' /\ origin'[k] = origin[k]
  BY <1>2, InsertRows DEF Made
<1>3. CASE UNCHANGED rows
  BY <1>3 DEF rows, Made
<1>4. ASSUME NEW s \in Staff, Removes(staff[s].id)
      PROVE  Made(k)' /\ origin'[k] = origin[k]
  BY <1>4, RemoveRows DEF Made
<1> QED BY <1>1, <1>2, <1>3, <1>4, RowsStep, UpdateSaves, CallFields
        DEF RowsMove, Creates, ImportsItem, Enters

(* A step keeps what the rows and the loaded entities say of an order. *)
LEMMA RowsAgreeStep ==
  ASSUME TypeOK, Home, [Next]_vars
  PROVE  RowsAgree'
<1>1. ASSUME NEW id \in Ids, NEW row \in Warranty, Save(id, row),
             row.order \in {HomeOf(id), Nothing}
      PROVE  RowsAgree'
  BY <1>1, SaveRows DEF Home, RowsAgree, HomeOf
<1>2. ASSUME NEW id \in Ids, NEW row, NEW made, Insert(id, row, made),
             row.order \in {made.order, Nothing}
      PROVE  RowsAgree'
  BY <1>2, InsertRows DEF Home, RowsAgree, HomeOf
<1>3. CASE UNCHANGED rows
  BY <1>3 DEF rows, Home, RowsAgree, HomeOf
<1>4. ASSUME NEW d \in Deliveries, Update(d)
      PROVE  RowsAgree'
  <2>1. delivery[d].id \in Ids /\ HomeOf(delivery[d].id) = OrderOf[EventOf(d)]
    BY <1>4 DEF Update, Home, HandlersAgree, Made
  <2>2. OfPos(OrderOf[EventOf(d)]).order = OrderOf[EventOf(d)]
    BY OfPosType, DeliveryFields
  <2> QED BY <1>1, <1>4, <2>1, <2>2, UpdateSaves
<1>5. ASSUME NEW d \in Deliveries, NEW id \in Ids, Creates(d, id)
      PROVE  RowsAgree'
  <2>1. OfPos(OrderOf[EventOf(d)]).order = OrderOf[EventOf(d)]
    BY OfPosType, DeliveryFields
  <2> QED BY <1>2, <1>5, <2>1 DEF Creates
<1>6. ASSUME NEW w \in Imports, NEW id \in Ids, NEW found \in {imports[w].order, Nothing},
             ImportsItem(w, id, found)
      PROVE  RowsAgree'
  BY <1>2, <1>6 DEF ImportsItem
<1>7. ASSUME NEW s \in Staff, staff[s].pc = "save", Save(staff[s].id, staff[s].row)
      PROVE  RowsAgree'
  BY <1>1, <1>7, CallFields DEF Home, StaffAgrees, Made
<1>8. ASSUME NEW s \in Staff, Removes(staff[s].id)
      PROVE  RowsAgree'
  BY <1>8, RemoveRows DEF Home, RowsAgree, HomeOf
<1>9. ASSUME NEW o \in Orders, NEW id \in Ids, NEW found \in {o, Nothing}, NEW item,
             Enters(o, id, found, item)
      PROVE  RowsAgree'
  BY <1>2, <1>9 DEF Enters
<1> QED BY <1>3, <1>4, <1>5, <1>6, <1>7, <1>8, <1>9, RowsStep DEF RowsMove

(* What a call of staff holds after a step: what it held, or what it loads. *)
LEMMA LoadMoves ==
  ASSUME TypeOK, [Next]_vars, NEW s \in Staff, staff'[s].pc = "save"
  PROVE  \/ staff'[s] = staff[s]
         \/ /\ Stored(staff'[s].id) /\ staff'[s].id \in Ids
            /\ UNCHANGED rows
            /\ staff'[s].row.order \in {warranties[staff'[s].id].order, Nothing}
            /\ \/ staff'[s].id \in strays'
               \/ staff'[s].row = warranties[staff'[s].id]
<1>1. ASSUME NEW id \in Ids, Load(s, id)
      PROVE  /\ Stored(staff'[s].id) /\ staff'[s].id \in Ids
             /\ UNCHANGED rows
             /\ staff'[s].row.order \in {warranties[staff'[s].id].order, Nothing}
             /\ \/ staff'[s].id \in strays'
                \/ staff'[s].row = warranties[staff'[s].id]
  <2>1. PICK e \in Edited(warranties[id]) :
          /\ staff' = [staff EXCEPT ![s] =
               [pc |-> "save", id |-> id, row |-> e, cases |-> CasesOf(id)]]
          /\ strays' = IF e = warranties[id] THEN strays ELSE strays \union {id}
    BY <1>1 DEF Load
  <2>2. e.order \in {warranties[id].order, Nothing}
    BY DEF Edited, TypeOK, Warranty
  <2>3. staff'[s].id = id /\ staff'[s].row = e
    BY <2>1 DEF TypeOK
  <2> QED BY <1>1, <2>1, <2>2, <2>3 DEF Load
<1>2. ASSUME NEW x \in Staff, NEW id \in Ids, Load(x, id), x # s
      PROVE  staff'[s] = staff[s]
  BY <1>2 DEF Load, TypeOK
<1>3. ASSUME NEW x \in Staff, NEW id \in Ids, LoadForRemoval(x, id)
      PROVE  staff'[s] = staff[s]
  <2>1. x # s
    BY <1>3 DEF LoadForRemoval, NoCall, TypeOK
  <2> QED BY <1>3, <2>1 DEF LoadForRemoval, TypeOK
<1>4. ASSUME NEW x \in Staff, SaveStaff(x) \/ Remove(x) \/ \E o \in Orders : Enter(x, o)
      PROVE  staff'[s] = staff[s]
  <2>1. staff' = [staff EXCEPT ![x] = Done]
    BY <1>4 DEF SaveStaff, Remove, Enter
  <2>2. x # s
    BY <2>1 DEF Done, NoCall, TypeOK
  <2> QED BY <2>1, <2>2 DEF TypeOK
<1>5. CASE \/ UNCHANGED vars
           \/ \E d \in Deliveries : Proceed(d) \/ \E e \in Events : Deliver(d, e)
           \/ \E w \in Imports : ImportStep(w)
           \/ \E c \in Cases, id \in Ids : Attach(c, id)
  <2>1. UNCHANGED staff
    BY <1>5, Zenon DEF vars, Proceed, Receive, Process, Update, Create, Throw, Finish, Fail,
                Deliver, ImportStep, InsertItem, GiveUpItem, LookForItem, Attach
  <2> QED BY <2>1
<1>6. ~Crash
  BY DEF Crash, NoCall, Done
<1> QED BY <1>1, <1>2, <1>3, <1>4, <1>5, <1>6 DEF Next, StaffStep

LEMMA StaffAgreesStep ==
  ASSUME TypeOK, Home, [Next]_vars
  PROVE  StaffAgrees'
<1> SUFFICES ASSUME NEW s \in Staff, staff'[s].pc = "save"
             PROVE  /\ staff'[s].id \in Ids
                    /\ warranties'[staff'[s].id].state # "unused"
                    /\ staff'[s].row.order \in {origin'[staff'[s].id].order, Nothing}
  BY DEF StaffAgrees, HomeOf, Made
<1>1. CASE staff'[s] = staff[s]
  <2> DEFINE id == staff[s].id
  <2>1. Made(id) /\ staff[s].row.order \in {HomeOf(id), Nothing}
    BY <1>1 DEF Home, StaffAgrees
  <2>2. origin'[id] = origin[id] /\ id \in Ids /\ warranties'[id].state # "unused"
    BY <2>1, OriginsStay DEF Made
  <2> QED BY <1>1, <2>1, <2>2 DEF HomeOf
<1>2. CASE /\ Stored(staff'[s].id) /\ staff'[s].id \in Ids /\ UNCHANGED rows
           /\ staff'[s].row.order \in {warranties[staff'[s].id].order, Nothing}
  <2>1. warranties[staff'[s].id].order \in {origin[staff'[s].id].order, Nothing}
    BY <1>2 DEF Home, RowsAgree, HomeOf
  <2>2. origin' = origin /\ warranties' = warranties
    BY <1>2 DEF rows
  <2>3. warranties[staff'[s].id].state # "unused"
    BY <1>2 DEF Stored
  <2> QED BY <1>2, <2>1, <2>2, <2>3
<1> QED BY <1>1, <1>2, LoadMoves

LEMMA FactsStay ==
  ASSUME [Next]_vars
  PROVE  first' = first /\ eligible' = eligible
<1>1. CASE \E d \in Deliveries : Proceed(d) \/ \E e \in Events : Deliver(d, e)
  BY <1>1, Zenon DEF facts, Proceed, Receive, Process, Update, Create, Throw, Finish,
                     Fail, Deliver
<1>2. CASE \E w \in Imports : ImportStep(w)
  BY <1>2, Zenon DEF facts, ImportStep, InsertItem, GiveUpItem, LookForItem
<1>3. CASE \E s \in Staff : StaffStep(s)
  BY <1>3, Zenon DEF facts, StaffStep, SaveStaff, Remove, Load, LoadForRemoval, Enter
<1>4. CASE \/ UNCHANGED vars \/ Crash \/ \E c \in Cases, id \in Ids : Attach(c, id)
  BY <1>4, Zenon DEF vars, facts, Crash, Attach
<1> QED BY <1>1, <1>2, <1>3, <1>4 DEF Next

(* Where a delivery stands after a step of its own. *)
LEMMA ReceiveMoves ==
  ASSUME TypeOK, NEW d \in Deliveries, Receive(d)
  PROVE  \/ delivery'[d].pc = "off"
         \/ delivery'[d].pc = "process" /\ delivery'[d].event = delivery[d].event
<1>1. CASE delivery' = [delivery EXCEPT ![d] = NoDelivery]
  BY <1>1 DEF NoDelivery, TypeOK
<1>2. CASE delivery' = [delivery EXCEPT ![d] =
             [@ EXCEPT !.pc = "process", !.known = FALSE]]
  BY <1>2, DeliveryFields DEF TypeOK, Delivery
<1> QED BY <1>1, <1>2 DEF Receive, Answer

LEMMA ProcessMoves ==
  ASSUME TypeOK, NEW d \in Deliveries, Process(d)
  PROVE  /\ delivery'[d].event = delivery[d].event
         /\ \/ EventOf(d) \notin eligible /\ delivery'[d].pc = "finish"
            \/ delivery'[d].pc = "create" /\ Existing(EventOf(d)) = {}
            \/ delivery'[d].pc = "update" /\ delivery'[d].id \in Existing(EventOf(d))
<1>1. ASSUME NEW step \in {"finish", "create"}, Goto(d, step)
      PROVE  delivery'[d].event = delivery[d].event /\ delivery'[d].pc = step
  BY <1>1, DeliveryFields DEF Goto, TypeOK, Delivery
<1>2. ASSUME NEW id \in Existing(EventOf(d)),
             delivery' = [delivery EXCEPT ![d] = [@ EXCEPT !.pc = "update", !.id = id]]
      PROVE  /\ delivery'[d].event = delivery[d].event
             /\ delivery'[d].pc = "update" /\ delivery'[d].id = id
  BY <1>2, DeliveryFields DEF TypeOK, Delivery
<1> QED BY <1>1, <1>2 DEF Process

LEMMA ThrowMoves ==
  ASSUME TypeOK, NEW d \in Deliveries, Throw(d)
  PROVE  delivery'[d].event = delivery[d].event /\ delivery'[d].pc = "fail"
<1> DEFINE id == IF delivery[d].pc = "finish" THEN delivery[d].id ELSE 0
<1>1. delivery' = [delivery EXCEPT ![d] = [@ EXCEPT !.pc = "fail", !.id = id]]
  BY DEF Throw
<1> HIDE DEF id
<1> QED BY <1>1, DeliveryFields DEF TypeOK, Delivery

LEMMA UpdateMoves ==
  ASSUME TypeOK, NEW d \in Deliveries, Update(d)
  PROVE  /\ delivery'[d].event = delivery[d].event
         /\ delivery'[d].pc = "finish" /\ delivery'[d].id = delivery[d].id
  BY DeliveryFields DEF Update, Goto, TypeOK, Delivery

LEMMA CreateMoves ==
  ASSUME TypeOK, NEW d \in Deliveries, Create(d)
  PROVE  /\ delivery'[d].event = delivery[d].event
         /\ delivery'[d].pc = "finish" /\ delivery'[d].id \in Ids
         /\ Creates(d, delivery'[d].id)
<1>1. PICK id \in Ids :
        Creates(d, id)
        /\ delivery' = [delivery EXCEPT ![d] = [@ EXCEPT !.pc = "finish", !.id = id]]
  BY DEF Create, Creates
<1> HIDE DEF Creates
<1> QED BY <1>1, DeliveryFields DEF TypeOK, Delivery

(* A step leaves a delivery alone unless it is its own. *)
LEMMA OthersStay ==
  ASSUME TypeOK, [Next]_vars, NEW d \in Deliveries, delivery'[d].pc # "off"
  PROVE  \/ delivery'[d] = delivery[d]
         \/ Proceed(d)
         \/ \E e \in Events : Deliver(d, e)
<1>1. ASSUME NEW c \in Deliveries, c # d, Proceed(c)
      PROVE  delivery'[d] = delivery[d]
  BY <1>1 DEF Proceed, Receive, Answer, Process, Goto, Update, Create, Throw, Finish,
              Fail, TypeOK
<1>2. ASSUME NEW c \in Deliveries, NEW e \in Events, Deliver(c, e), c # d
      PROVE  delivery'[d] = delivery[d]
  BY <1>2 DEF Deliver, TypeOK
<1>3. CASE \/ UNCHANGED vars
           \/ \E w \in Imports : ImportStep(w)
           \/ \E s \in Staff : StaffStep(s)
           \/ \E c \in Cases, id \in Ids : Attach(c, id)
  BY <1>3, Zenon DEF vars, ImportStep, InsertItem, GiveUpItem, LookForItem, StaffStep,
                     SaveStaff, Remove, Load, LoadForRemoval, Enter, Attach
<1>4. ~Crash
  BY DEF Crash, NoDelivery
<1> QED BY <1>1, <1>2, <1>3, <1>4 DEF Next

LEMMA HandlersAgreeStep ==
  ASSUME TypeOK, Home, [Next]_vars
  PROVE  HandlersAgree'
<1> SUFFICES ASSUME NEW d \in Deliveries,
                    \/ delivery'[d].pc = "update"
                    \/ delivery'[d].pc = "finish" /\ delivery'[d].event \in eligible
             PROVE  /\ delivery'[d].id \in Ids
                    /\ warranties'[delivery'[d].id].state # "unused"
                    /\ origin'[delivery'[d].id].order = OrderOf[delivery'[d].event]
  BY FactsStay DEF HandlersAgree, HomeOf, Made, EventOf
<1>0. ASSUME delivery'[d].id = delivery[d].id, delivery'[d].event = delivery[d].event,
             \/ delivery[d].pc = "update"
             \/ delivery[d].pc = "finish" /\ EventOf(d) \in eligible
      PROVE  /\ delivery'[d].id \in Ids
             /\ warranties'[delivery'[d].id].state # "unused"
             /\ origin'[delivery'[d].id].order = OrderOf[delivery'[d].event]
  <2> DEFINE id == delivery[d].id
  <2>1. Made(id) /\ HomeOf(id) = OrderOf[EventOf(d)]
    BY <1>0 DEF Home, HandlersAgree
  <2>2. origin'[id] = origin[id] /\ id \in Ids /\ warranties'[id].state # "unused"
    BY <2>1, OriginsStay DEF Made
  <2> QED BY <1>0, <2>1, <2>2 DEF HomeOf, EventOf
<1>1. CASE delivery'[d] = delivery[d]
  BY <1>0, <1>1 DEF EventOf
<1>2. CASE Process(d)
  <2>1. delivery'[d].id \in Existing(EventOf(d)) /\ delivery'[d].event = EventOf(d)
    BY <1>2, ProcessMoves DEF EventOf
  <2> DEFINE id == delivery'[d].id
             o == OrderOf[EventOf(d)]
  <2>2. id \in Ids /\ Stored(id) /\ warranties[id].order = o /\ o # Nothing
    BY <2>1, DeliveryFields, PosAssumption DEF Existing
  <2>3. origin[id].order = o
    BY <2>2 DEF Home, RowsAgree, HomeOf
  <2>4. origin' = origin /\ warranties' = warranties
    BY <1>2 DEF Process, rows
  <2> QED BY <2>1, <2>2, <2>3, <2>4 DEF Stored
<1>3. CASE Update(d)
  BY <1>0, <1>3, UpdateMoves DEF Update
<1>4. CASE Create(d)
  <2> DEFINE id == delivery'[d].id
             o == OrderOf[EventOf(d)]
  <2>1. Insert(id, OfPos(o), [order |-> o, imported |-> FALSE]) /\ id \in Ids
    BY <1>4, CreateMoves DEF Creates
  <2>2. warranties'[id] = OfPos(o) /\ origin'[id] = [order |-> o, imported |-> FALSE]
    <3> HIDE DEF id, o
    <3> QED BY <2>1, InsertRows
  <2>3. OfPos(o).state = "stored"
    BY DEF OfPos
  <2> QED BY <1>4, <2>1, <2>2, <2>3, CreateMoves DEF EventOf
<1>5. CASE Receive(d) \/ Throw(d) \/ Finish(d) \/ Fail(d) \/ \E e \in Events : Deliver(d, e)
  <2>1. ~Receive(d) /\ ~Throw(d)
    BY ReceiveMoves, ThrowMoves
  <2>2. ~Finish(d) /\ ~Fail(d)
    BY DEF Finish, Fail, Answer, NoDelivery, TypeOK
  <2>3. ASSUME NEW e \in Events, Deliver(d, e)
        PROVE  FALSE
    <3>1. delivery'[d].pc = "receive"
      BY <2>3, NoDeliveryType DEF Deliver, TypeOK, Delivery
    <3> QED BY <3>1
  <2> QED BY <1>5, <2>1, <2>2, <2>3
<1> QED BY <1>1, <1>2, <1>3, <1>4, <1>5, OthersStay DEF Proceed

LEMMA InboxAgreesStep ==
  ASSUME TypeOK, Home, [Next]_vars
  PROVE  InboxAgrees'
<1> SUFFICES ASSUME NEW e \in Events, e \in eligible, events'[e].status = "processed"
             PROVE  /\ events'[e].number \in Ids
                    /\ warranties'[events'[e].number].state # "unused"
                    /\ origin'[events'[e].number].order = OrderOf[e]
  BY FactsStay DEF InboxAgrees, HomeOf, Made
<1>0. ASSUME NEW id, Made(id), HomeOf(id) = OrderOf[e], events'[e].number = id
      PROVE  /\ events'[e].number \in Ids
             /\ warranties'[events'[e].number].state # "unused"
             /\ origin'[events'[e].number].order = OrderOf[e]
  BY <1>0, OriginsStay DEF HomeOf, Made
<1>1. CASE events'[e] = events[e]
  <2>1. Made(events[e].number) /\ HomeOf(events[e].number) = OrderOf[e]
    BY <1>1 DEF Home, InboxAgrees
  <2> QED BY <1>0, <1>1, <2>1
<1>2. ASSUME NEW d \in Deliveries, Finish(d)
      PROVE  \/ events'[e] = events[e]
             \/ /\ Made(delivery[d].id) /\ HomeOf(delivery[d].id) = OrderOf[e]
                /\ events'[e].number = delivery[d].id
  <2>1. CASE e = EventOf(d)
    BY <1>2, <2>1 DEF Finish, TypeOK, Home, HandlersAgree
  <2>2. CASE e # EventOf(d)
    BY <1>2, <2>2 DEF Finish, TypeOK
  <2> QED BY <2>1, <2>2
<1>3. ASSUME NEW d \in Deliveries, Receive(d) \/ Fail(d)
      PROVE  events'[e] = events[e]
  BY <1>3, DeliveryFields DEF Receive, Fail, TypeOK
<1>4. CASE \/ UNCHANGED vars \/ Crash
           \/ \E d \in Deliveries :
                \/ Process(d) \/ Update(d) \/ Create(d) \/ Throw(d)
                \/ \E x \in Events : Deliver(d, x)
           \/ \E w \in Imports : ImportStep(w)
           \/ \E s \in Staff : StaffStep(s)
           \/ \E c \in Cases, id \in Ids : Attach(c, id)
  <2>1. UNCHANGED events
    BY <1>4, Zenon DEF vars, Crash, Process, Update, Create, Throw, Deliver, ImportStep,
                       InsertItem, GiveUpItem, LookForItem, StaffStep, SaveStaff, Remove,
                       Load, LoadForRemoval, Enter, Attach
  <2> QED BY <1>1, <2>1
<1> QED BY <1>0, <1>1, <1>2, <1>3, <1>4 DEF Next, Proceed

LEMMA HomeInit == Init => Home
  BY DEF Init, Home, RowsAgree, StaffAgrees, HandlersAgree, InboxAgrees, HomeOf,
         NoWarranty, NoOrigin, NoCall, NoDelivery

LEMMA HomeStep ==
  ASSUME TypeOK, Home, [Next]_vars
  PROVE  Home'
  BY RowsAgreeStep, StaffAgreesStep, HandlersAgreeStep, InboxAgreesStep DEF Home

(* The answer to a processed event names a warranty that was made for its order,
   whatever was repeated, failed, imported, removed or saved late. *)
THEOREM AnswersAreRight == Spec => []AnswersNameTheOrder
<1>1. Home /\ TypeOK => AnswersNameTheOrder
  BY DEF Home, InboxAgrees, HomeOf, Made, AnswersNameTheOrder, TypeOK
<1> QED BY <1>1, HomeInit, HomeStep, PosTypeCorrect, PTL DEF Spec
-----------------------------------------------------------------------------
(* A warranty that is no stray is where its order, and its item, are looked for;
   of these, one that was never brought back counts. No number is given twice.
   There is one that counts of an order that no delivery shared, and a delivery
   or an import that found none still finds none. *)
Counts(id) == id \in Ids \ strays /\ warranties[id].state = "stored"

Findable(id, row) ==
  row.order = HomeOf(id) /\ (HomeOf(id) \in first => row.item = HomeOf(id))
FindablesAreFound ==
  /\ \A id \in Ids \ strays : Stored(id) => Findable(id, warranties[id])
  /\ \A s \in Staff :
       staff[s].pc = "save" /\ staff[s].id \notin strays
         => Findable(staff[s].id, staff[s].row)
NumbersDiffer ==
  \A k, l \in Ids :
    /\ Stored(k) /\ Stored(l) /\ HomeOf(k) = HomeOf(l)
    /\ origin[k].imported /\ origin[l].imported
    => k = l
MeetingsAreKnown ==
  \A d \in Deliveries : delivery[d].pc # "off" /\ OrderOf[EventOf(d)] \notin overlapped
    => /\ \A c \in Deliveries : AtWorkOn(c, OrderOf[EventOf(d)]) => c = d
       /\ \A w \in Imports :
            imports[w].pc = "insert" => imports[w].order # OrderOf[EventOf(d)]
StillMissing ==
  \A d \in Deliveries :
    delivery[d].pc = "create" /\ OrderOf[EventOf(d)] \notin overlapped
      => \A id \in Ids : Counts(id) => HomeOf(id) # OrderOf[EventOf(d)]
NotMadeYet ==
  \A w \in Imports :
    imports[w].pc = "insert" /\ imports[w].order \in first \ overlapped
      => \A id \in Ids :
           Counts(id) /\ HomeOf(id) = imports[w].order => origin[id].imported
OneCounts ==
  \A k, l \in Ids :
    Counts(k) /\ Counts(l) /\ HomeOf(k) = HomeOf(l)
      => \/ k = l \/ HomeOf(k) \in overlapped
         \/ HomeOf(k) \notin first /\ (origin[k].imported \/ origin[l].imported)

OneInv ==
  /\ Home /\ FindablesAreFound /\ NumbersDiffer /\ MeetingsAreKnown
  /\ StillMissing /\ NotMadeYet /\ OneCounts

LEMMA HistoryGrows ==
  ASSUME [Next]_vars
  PROVE  overlapped \subseteq overlapped' /\ strays \subseteq strays'
<1>1. CASE \E d \in Deliveries : Proceed(d) \/ \E e \in Events : Deliver(d, e)
  BY <1>1 DEF history, Proceed, Receive, Process, Update, Create, Throw, Finish, Fail,
              Deliver
<1>2. CASE \E w \in Imports : ImportStep(w)
  BY <1>2 DEF history, ImportStep, InsertItem, GiveUpItem, LookForItem
<1>3. CASE \E s \in Staff : StaffStep(s)
  BY <1>3 DEF history, StaffStep, SaveStaff, Remove, Load, LoadForRemoval, Enter
<1>4. CASE \/ UNCHANGED vars \/ Crash \/ \E c \in Cases, id \in Ids : Attach(c, id)
  BY <1>4 DEF vars, history, Crash, Attach
<1> QED BY <1>1, <1>2, <1>3, <1>4 DEF Next

(* An insertion that makes a row that counts is one of a delivery, or of an import
   under a number that is free. *)
Inserts(id) ==
  \/ \E d \in Deliveries :
       /\ Create(d)
       /\ origin'[id].order = OrderOf[EventOf(d)] /\ ~origin'[id].imported
  \/ \E w \in Imports :
       /\ InsertItem(w)
       /\ origin'[id].order = imports[w].order /\ origin'[id].imported
CountedBefore(id) == Counts(id) /\ origin'[id] = origin[id]

LEMMA CountsKept ==
  ASSUME TypeOK, [Next]_vars, NEW id \in Ids, Counts(id)'
  PROVE  \/ CountedBefore(id)
         \/ Inserts(id) /\ \A k \in Ids \ {id} : Counts(k)' => CountedBefore(k)
<1>0. \A k \in Ids : k \notin strays' => k \notin strays
  BY HistoryGrows
<1>1. CASE UNCHANGED rows
  BY <1>0, <1>1 DEF rows, Counts, CountedBefore
<1>2. ASSUME NEW key, NEW row \in Warranty, Save(key, row)
      PROVE  CountedBefore(id)
  <2>1. CASE id = key
    BY <1>0, <1>2, <2>1, SaveRows DEF Counts, CountedBefore
  <2>2. CASE id # key
    BY <1>0, <1>2, <2>2, SaveRows DEF Counts, CountedBefore
  <2> QED BY <2>1, <2>2
<1>3. ASSUME NEW key \in Ids, NEW row, NEW made, Insert(key, row, made)
      PROVE  \A k \in Ids \ {key} : Counts(k)' => CountedBefore(k)
  BY <1>0, <1>3, InsertRows DEF Counts, CountedBefore
<1>4. ASSUME NEW d \in Deliveries, NEW key \in Ids, Create(d), Creates(d, key)
      PROVE  \/ CountedBefore(id)
             \/ Inserts(id) /\ \A k \in Ids \ {id} : Counts(k)' => CountedBefore(k)
  <2>1. origin'[key] = [order |-> OrderOf[EventOf(d)], imported |-> FALSE]
    BY <1>4, InsertRows DEF Creates
  <2> QED BY <1>3, <1>4, <2>1 DEF Creates, Inserts
<1>5. ASSUME NEW w \in Imports, NEW key \in Ids, NEW found, InsertItem(w),
             ImportsItem(w, key, found)
      PROVE  \/ CountedBefore(id)
             \/ Inserts(id) /\ \A k \in Ids \ {id} : Counts(k)' => CountedBefore(k)
  <2>1. origin'[key] = [order |-> imports[w].order, imported |-> TRUE]
    BY <1>5, InsertRows DEF ImportsItem
  <2> QED BY <1>3, <1>5, <2>1 DEF ImportsItem, Inserts
<1>6. ASSUME NEW s \in Staff, Removes(staff[s].id)
      PROVE  CountedBefore(id)
  <2>1. id # staff[s].id
    BY <1>6, RemoveRows DEF Counts
  <2> QED BY <1>0, <1>6, <2>1, RemoveRows DEF Counts, CountedBefore
<1>7. ASSUME NEW o \in Orders, NEW key \in Ids, NEW found, NEW item,
             Enters(o, key, found, item)
      PROVE  CountedBefore(id)
  BY <1>3, <1>7 DEF Enters, Counts
<1> QED BY <1>1, <1>2, <1>4, <1>5, <1>6, <1>7, RowsStep, UpdateSaves, CallFields
        DEF RowsMove

LEMMA RowsFindable ==
  ASSUME TypeOK, Home, FindablesAreFound, [Next]_vars,
         NEW id \in Ids, id \notin strays', Stored(id)'
  PROVE  /\ warranties'[id].order = origin'[id].order
         /\ origin'[id].order \in first => warranties'[id].item = origin'[id].order
<1> DEFINE Goal == /\ warranties'[id].order = origin'[id].order
                   /\ origin'[id].order \in first
                        => warranties'[id].item = origin'[id].order
<1>0. id \notin strays
  BY HistoryGrows
<1>1. ASSUME warranties'[id] = warranties[id], origin'[id] = origin[id]
      PROVE  Goal
  BY <1>0, <1>1 DEF FindablesAreFound, Findable, HomeOf, Stored
<1>2. CASE UNCHANGED rows
  BY <1>1, <1>2 DEF rows
<1>3. ASSUME NEW key, NEW row \in Warranty, Save(key, row),
             key = id => Findable(id, row)
      PROVE  Goal
  <2>1. CASE key = id
    BY <1>3, <2>1, SaveRows DEF Findable, HomeOf
  <2>2. CASE key # id
    BY <1>1, <1>3, <2>2, SaveRows
  <2> QED BY <2>1, <2>2
<1>4. ASSUME NEW key \in Ids, NEW row, NEW made, Insert(key, row, made),
             key = id => /\ row.order = made.order
                         /\ made.order \in first => row.item = made.order
      PROVE  Goal
  <2>1. CASE key = id
    BY <1>4, <2>1, InsertRows
  <2>2. CASE key # id
    BY <1>1, <1>4, <2>2, InsertRows
  <2> QED BY <2>1, <2>2
<1>5. ASSUME NEW d \in Deliveries, Update(d)
      PROVE  Goal
  <2>1. HomeOf(delivery[d].id) = OrderOf[EventOf(d)]
    BY <1>5 DEF Update, Home, HandlersAgree
  <2>2. Findable(delivery[d].id, OfPos(OrderOf[EventOf(d)]))
    BY <2>1, OfPosType, DeliveryFields DEF Findable
  <2> QED BY <1>3, <1>5, <2>2, UpdateSaves
<1>6. ASSUME NEW d \in Deliveries, NEW key \in Ids, Creates(d, key)
      PROVE  Goal
  <2> DEFINE o == OrderOf[EventOf(d)]
  <2>1. OfPos(o).order = o /\ (o \in first => OfPos(o).item = o)
    BY OfPosType, DeliveryFields
  <2>2. Insert(key, OfPos(o), [order |-> o, imported |-> FALSE])
    BY <1>6 DEF Creates
  <2> HIDE DEF o, Goal
  <2> QED BY <1>4, <2>1, <2>2
<1>7. ASSUME NEW w \in Imports, NEW key \in Ids, NEW found \in {imports[w].order, Nothing},
             ImportsItem(w, key, found)
      PROVE  Goal
  <2> DEFINE o == imports[w].order
  <2>1. key = id => found = o
    BY <1>7 DEF ImportsItem
  <2>2. Insert(key, [state |-> "stored", order |-> found, item |-> o],
               [order |-> o, imported |-> TRUE])
    BY <1>7 DEF ImportsItem
  <2> HIDE DEF o, Goal
  <2> QED BY <1>4, <2>1, <2>2
<1>8. ASSUME NEW s \in Staff, staff[s].pc = "save", Save(staff[s].id, staff[s].row)
      PROVE  Goal
  <2>1. staff[s].id = id => Findable(id, staff[s].row)
    BY <1>0, <1>8 DEF FindablesAreFound
  <2> QED BY <1>3, <1>8, <2>1, CallFields
<1>9. ASSUME NEW s \in Staff, Removes(staff[s].id)
      PROVE  Goal
  <2>1. staff[s].id # id
    BY <1>9, RemoveRows DEF Stored
  <2> QED BY <1>1, <1>9, <2>1, RemoveRows
<1>10. ASSUME NEW o \in Orders, NEW key \in Ids, NEW found, NEW item,
              Enters(o, key, found, item)
       PROVE  Goal
  <2>1. key # id
    BY <1>10 DEF Enters
  <2> QED BY <1>4, <1>10, <2>1 DEF Enters
<1> QED BY <1>2, <1>5, <1>6, <1>7, <1>8, <1>9, <1>10, RowsStep DEF RowsMove

LEMMA FindablesStep ==
  ASSUME TypeOK, Home, FindablesAreFound, [Next]_vars
  PROVE  FindablesAreFound'
<1>1. ASSUME NEW s \in Staff, staff'[s].pc = "save", staff'[s].id \notin strays'
      PROVE  LET id == staff'[s].id
             IN /\ staff'[s].row.order = origin'[id].order
                /\ origin'[id].order \in first => staff'[s].row.item = origin'[id].order
  <2>1. CASE staff'[s] = staff[s]
    <3>1. staff[s].id \notin strays
      BY <1>1, <2>1, HistoryGrows
    <3>2. Findable(staff[s].id, staff[s].row) /\ Made(staff[s].id)
      BY <1>1, <2>1, <3>1 DEF FindablesAreFound, Home, StaffAgrees
    <3>3. origin'[staff[s].id] = origin[staff[s].id]
      BY <3>2, OriginsStay
    <3> QED BY <2>1, <3>2, <3>3 DEF Findable, HomeOf
  <2>2. CASE /\ Stored(staff'[s].id) /\ staff'[s].id \in Ids /\ UNCHANGED rows
             /\ staff'[s].row = warranties[staff'[s].id]
    <3>1. staff'[s].id \notin strays
      BY <1>1, HistoryGrows
    <3>2. Findable(staff'[s].id, warranties[staff'[s].id])
      BY <2>2, <3>1 DEF FindablesAreFound
    <3>3. origin' = origin
      BY <2>2 DEF rows
    <3> QED BY <2>2, <3>2, <3>3 DEF Findable, HomeOf
  <2> QED BY <1>1, <2>1, <2>2, LoadMoves
<1>2. first' = first
  BY FactsStay
<1> QED BY <1>1, <1>2, RowsFindable DEF FindablesAreFound, Findable, HomeOf

(* The number of an item is given again only when no row has it. *)
LEMMA NumbersStep ==
  ASSUME TypeOK, NumbersDiffer, [Next]_vars
  PROVE  NumbersDiffer'
<1> SUFFICES ASSUME NEW k \in Ids, NEW l \in Ids, k # l,
                    Stored(k)', Stored(l)', origin'[k].order = origin'[l].order,
                    origin'[k].imported, origin'[l].imported
             PROVE  FALSE
  BY DEF NumbersDiffer, HomeOf
<1> DEFINE Was(id) == Stored(id) /\ origin[id] = origin'[id]
<1>0. ASSUME Was(k), Was(l)
      PROVE  FALSE
  BY <1>0 DEF NumbersDiffer, HomeOf
<1>1. CASE UNCHANGED rows
  BY <1>0, <1>1 DEF rows, Stored
<1>2. ASSUME NEW key, NEW row \in Warranty, Save(key, row)
      PROVE  FALSE
  <2>1. \A id \in Ids : id # key /\ Stored(id)' => Was(id)
    BY <1>2, SaveRows DEF Stored
  <2>2. UNCHANGED origin
    BY <1>2, SaveRows
  <2>3. Stored(key) \/ ~origin[key].imported \/ ~Taken(origin[key].order)
    BY <1>2 DEF Save, CanSave
  <2>4. \A id \in Ids : Stored(id) /\ origin[id].imported => Taken(origin[id].order)
    BY DEF Taken, TypeOK, Origin
  <2> QED BY <1>0, <2>1, <2>2, <2>3, <2>4
<1>3. ASSUME NEW key \in Ids, NEW row, NEW made, Insert(key, row, made),
             ~made.imported \/ ~Taken(made.order)
      PROVE  FALSE
  <2>1. \A id \in Ids \ {key} : Stored(id)' => Was(id)
    BY <1>3, InsertRows DEF Stored
  <2>2. origin'[key] = made
    BY <1>3, InsertRows
  <2>3. \A id \in Ids : Stored(id) /\ origin[id].imported => Taken(origin[id].order)
    BY DEF Taken, TypeOK, Origin
  <2> QED BY <1>0, <1>3, <2>1, <2>2, <2>3
<1>4. ASSUME NEW s \in Staff, Removes(staff[s].id)
      PROVE  FALSE
  <2>1. \A id \in Ids : Stored(id)' => Was(id)
    <3> SUFFICES ASSUME NEW id \in Ids, Stored(id)' PROVE Was(id)
      OBVIOUS
    <3>1. id # staff[s].id
      BY <1>4, RemoveRows DEF Stored
    <3> QED BY <1>4, <3>1, RemoveRows DEF Stored
  <2> QED BY <1>0, <2>1
<1>5. ASSUME NEW d \in Deliveries, NEW id \in Ids, Creates(d, id)
      PROVE  FALSE
  BY <1>3, <1>5 DEF Creates
<1>6. ASSUME NEW w \in Imports, NEW id \in Ids, NEW found, InsertItem(w),
             ImportsItem(w, id, found)
      PROVE  FALSE
  BY <1>3, <1>6 DEF ImportsItem, InsertItem
<1>7. ASSUME NEW o, NEW id \in Ids, NEW found, NEW item, Enters(o, id, found, item)
      PROVE  FALSE
  BY <1>3, <1>7 DEF Enters
<1> QED BY <1>1, <1>2, <1>4, <1>5, <1>6, <1>7, RowsStep, UpdateSaves, CallFields
        DEF RowsMove

(* What a step does to a delivery, or an import, that is at work after it. *)
GoesOn(d) == delivery[d].pc # "off" /\ delivery'[d].event = delivery[d].event
Arrives(d) ==
  LET order == OrderOf[delivery'[d].event]
  IN /\ delivery'[d].pc = "receive"
     /\ \A c \in Deliveries \ {d} :
          /\ delivery'[c] = delivery[c]
          /\ AtWorkOn(c, order) => order \in overlapped'
     /\ imports' = imports
     /\ \A w \in Imports :
          imports[w].pc = "insert" /\ imports[w].order = order => order \in overlapped'

LEMMA DeliveryStep ==
  ASSUME TypeOK, [Next]_vars, NEW d \in Deliveries, delivery'[d].pc # "off"
  PROVE  GoesOn(d) \/ Arrives(d)
<1>1. CASE delivery'[d] = delivery[d]
  BY <1>1 DEF GoesOn
<1>2. CASE Proceed(d)
  <2>1. delivery[d].pc # "off"
    BY <1>2 DEF Proceed, Receive, Process, Update, Create, Throw, Finish, Fail
  <2>2. ~Finish(d) /\ ~Fail(d)
    BY DEF Finish, Fail, Answer, NoDelivery, TypeOK
  <2> QED BY <1>2, <2>1, <2>2, ReceiveMoves, ProcessMoves, UpdateMoves, CreateMoves,
             ThrowMoves DEF Proceed, GoesOn
<1>3. ASSUME NEW e \in Events, Deliver(d, e)
      PROVE  Arrives(d)
  <2>1. delivery' = [delivery EXCEPT ![d] =
          [NoDelivery EXCEPT !.pc = "receive", !.event = e,
                             !.known = events[e].status # "none"]]
    BY <1>3 DEF Deliver
  <2>2. delivery'[d].pc = "receive" /\ delivery'[d].event = e
    BY <2>1, NoDeliveryType DEF TypeOK, Delivery
  <2>3. \A x \in Deliveries \ {d} : delivery'[x] = delivery[x]
    BY <2>1 DEF TypeOK
  <2>4. \/ ImportsOf(OrderOf[e]) # {}
        \/ \E x \in Deliveries : AtWorkOn(x, OrderOf[e])
        => OrderOf[e] \in overlapped'
    BY <1>3 DEF Deliver
  <2>5. imports' = imports
    BY <1>3 DEF Deliver
  <2> QED BY <2>2, <2>3, <2>4, <2>5 DEF Arrives, ImportsOf
<1> QED BY <1>1, <1>2, <1>3, OthersStay

LEMMA ImportMoves ==
  ASSUME TypeOK, [Next]_vars, NEW w \in Imports, imports'[w].pc = "insert"
  PROVE  \/ imports'[w] = imports[w]
         \/ \E o \in Orders :
              /\ LookForItem(w, o) /\ imports'[w].order = o
              /\ \A d \in Deliveries : AtWorkOn(d, o) => o \in overlapped'
<1>1. ASSUME NEW o \in Orders, LookForItem(w, o)
      PROVE  /\ imports'[w].order = o
             /\ \A d \in Deliveries : AtWorkOn(d, o) => o \in overlapped'
  BY <1>1 DEF LookForItem, TypeOK
<1>2. ASSUME NEW x \in Imports, InsertItem(x) \/ GiveUpItem(x)
      PROVE  imports'[w] = imports[w]
  BY <1>2 DEF InsertItem, GiveUpItem, NoImport, TypeOK
<1>3. ASSUME NEW x \in Imports, NEW o \in Orders, LookForItem(x, o), x # w
      PROVE  imports'[w] = imports[w]
  BY <1>3 DEF LookForItem, TypeOK
<1>4. ~Crash
  BY DEF Crash, NoImport
<1>5. CASE \/ UNCHANGED vars
           \/ \E d \in Deliveries : Proceed(d) \/ \E e \in Events : Deliver(d, e)
           \/ \E s \in Staff : StaffStep(s)
           \/ \E c \in Cases, id \in Ids : Attach(c, id)
  <2>1. UNCHANGED imports
    BY <1>5, Zenon DEF vars, Proceed, Receive, Process, Update, Create, Throw, Finish,
                       Fail, Deliver, StaffStep, SaveStaff, Remove, Load, LoadForRemoval,
                       Enter, Attach
  <2> QED BY <2>1
<1> QED BY <1>1, <1>2, <1>3, <1>4, <1>5 DEF Next, ImportStep

LEMMA MeetingsStep ==
  ASSUME TypeOK, MeetingsAreKnown, [Next]_vars
  PROVE  MeetingsAreKnown'
<1> SUFFICES ASSUME NEW d \in Deliveries, delivery'[d].pc # "off",
                    OrderOf[delivery'[d].event] \notin overlapped'
             PROVE  /\ \A c \in Deliveries :
                         /\ delivery'[c].pc # "off"
                         /\ OrderOf[delivery'[c].event] = OrderOf[delivery'[d].event]
                         => c = d
                    /\ \A w \in Imports :
                         imports'[w].pc = "insert"
                           => imports'[w].order # OrderOf[delivery'[d].event]
  BY DEF MeetingsAreKnown, AtWorkOn, EventOf
<1> DEFINE o == OrderOf[delivery'[d].event]
<1>0. o \notin overlapped
  BY HistoryGrows
<1>1. ASSUME NEW c \in Deliveries, delivery'[c].pc # "off",
             OrderOf[delivery'[c].event] = o, c # d
      PROVE  FALSE
  <2>1. CASE GoesOn(c) /\ GoesOn(d)
    BY <1>0, <1>1, <2>1 DEF MeetingsAreKnown, AtWorkOn, EventOf, GoesOn
  <2>2. CASE Arrives(c)
    <3>1. delivery'[d] = delivery[d] /\ (AtWorkOn(d, o) => o \in overlapped')
      BY <1>1, <2>2 DEF Arrives
    <3> QED BY <3>1 DEF AtWorkOn, EventOf
  <2>3. CASE Arrives(d)
    <3>1. delivery'[c] = delivery[c] /\ (AtWorkOn(c, o) => o \in overlapped')
      BY <1>1, <2>3 DEF Arrives
    <3> QED BY <1>1, <3>1 DEF AtWorkOn, EventOf
  <2> QED BY <1>1, <2>1, <2>2, <2>3, DeliveryStep
<1>2. ASSUME NEW w \in Imports, imports'[w].pc = "insert", imports'[w].order = o
      PROVE  FALSE
  <2>1. CASE imports'[w] = imports[w]
    <3>1. CASE GoesOn(d)
      BY <1>0, <1>2, <2>1, <3>1 DEF MeetingsAreKnown, EventOf, GoesOn
    <3>2. CASE Arrives(d)
      BY <1>2, <2>1, <3>2 DEF Arrives
    <3> QED BY <3>1, <3>2, DeliveryStep
  <2>2. ASSUME NEW order \in Orders, LookForItem(w, order), order = o,
               \A c \in Deliveries : AtWorkOn(c, order) => order \in overlapped'
        PROVE  FALSE
    <3>1. delivery' = delivery
      BY <2>2 DEF LookForItem
    <3> QED BY <2>2, <3>1 DEF AtWorkOn, EventOf
  <2> QED BY <1>2, <2>1, <2>2, ImportMoves
<1> QED BY <1>1, <1>2

(* A delivery comes to insert when it has found no warranty. *)
LEMMA MissingStep ==
  ASSUME TypeOK, [Next]_vars, NEW d \in Deliveries, delivery'[d].pc = "create"
  PROVE  /\ GoesOn(d)
         /\ \/ delivery'[d] = delivery[d]
            \/ Existing(EventOf(d)) = {} /\ UNCHANGED rows
<1>1. GoesOn(d)
  BY DeliveryStep DEF Arrives
<1>2. ~ \E e \in Events : Deliver(d, e)
  BY <1>1 DEF GoesOn, Deliver
<1>3. CASE Proceed(d)
  <2>1. ~Finish(d) /\ ~Fail(d)
    BY DEF Finish, Fail, Answer, NoDelivery, TypeOK
  <2>2. Process(d)
    BY <1>3, <2>1, ReceiveMoves, UpdateMoves, CreateMoves, ThrowMoves DEF Proceed
  <2>3. Existing(EventOf(d)) = {}
    BY <2>2, ProcessMoves
  <2>4. UNCHANGED rows
    BY <2>2 DEF Process
  <2> QED BY <1>1, <2>3, <2>4
<1> QED BY <1>1, <1>2, <1>3, OthersStay

LEMMA CountsFound ==
  ASSUME FindablesAreFound, NEW id \in Ids, Counts(id)
  PROVE  Stored(id) /\ Findable(id, warranties[id])
  BY DEF FindablesAreFound, Counts, Stored

LEMMA StillMissingStep ==
  ASSUME TypeOK, OneInv, [Next]_vars
  PROVE  StillMissing'
<1> SUFFICES ASSUME NEW d \in Deliveries, delivery'[d].pc = "create",
                    OrderOf[delivery'[d].event] \notin overlapped',
                    NEW id \in Ids, Counts(id)',
                    origin'[id].order = OrderOf[delivery'[d].event]
             PROVE  FALSE
  BY DEF StillMissing, EventOf, HomeOf
<1> DEFINE o == OrderOf[EventOf(d)]
<1>1. /\ delivery[d].pc # "off" /\ o = OrderOf[delivery'[d].event]
      /\ \/ delivery[d].pc = "create"
         \/ Existing(EventOf(d)) = {} /\ UNCHANGED rows
  BY MissingStep DEF GoesOn, EventOf
<1>2. o \notin overlapped
  BY <1>1, HistoryGrows
<1>3. CASE CountedBefore(id)
  <2>1. HomeOf(id) = o /\ Counts(id)
    BY <1>1, <1>3 DEF CountedBefore, HomeOf
  <2>2. CASE delivery[d].pc = "create"
    BY <1>2, <2>1, <2>2 DEF OneInv, StillMissing
  <2>3. CASE Existing(EventOf(d)) = {}
    <3>1. Stored(id) /\ warranties[id].order = o
      BY <2>1, CountsFound DEF OneInv, Findable
    <3> QED BY <2>3, <3>1 DEF Existing
  <2> QED BY <1>1, <2>2, <2>3
<1>4. CASE Inserts(id)
  <2>1. ASSUME NEW c \in Deliveries, Create(c), OrderOf[EventOf(c)] = o
        PROVE  FALSE
    <3>1. AtWorkOn(c, o)
      BY <2>1 DEF Create, AtWorkOn
    <3>2. c = d
      BY <1>1, <1>2, <3>1 DEF OneInv, MeetingsAreKnown
    <3>3. delivery'[c].pc = "finish"
      BY <2>1, CreateMoves
    <3> QED BY <3>2, <3>3
  <2>2. ASSUME NEW w \in Imports, InsertItem(w), imports[w].order = o
        PROVE  FALSE
    BY <1>1, <1>2, <2>2 DEF InsertItem, OneInv, MeetingsAreKnown
  <2> QED BY <1>1, <1>4, <2>1, <2>2 DEF Inserts
<1> QED BY <1>3, <1>4, CountsKept

LEMMA NotMadeStep ==
  ASSUME TypeOK, OneInv, [Next]_vars
  PROVE  NotMadeYet'
<1> SUFFICES ASSUME NEW w \in Imports, imports'[w].pc = "insert",
                    imports'[w].order \in first, imports'[w].order \notin overlapped',
                    NEW id \in Ids, Counts(id)',
                    origin'[id].order = imports'[w].order, ~origin'[id].imported
             PROVE  FALSE
  BY FactsStay DEF NotMadeYet, HomeOf
<1> DEFINE o == imports'[w].order
<1>0. o \notin overlapped
  BY HistoryGrows
<1>1. CASE CountedBefore(id)
  <2>1. HomeOf(id) = o /\ Counts(id) /\ ~origin[id].imported
    BY <1>1 DEF CountedBefore, HomeOf
  <2>2. CASE imports'[w] = imports[w]
    BY <1>0, <2>1, <2>2 DEF OneInv, NotMadeYet
  <2>3. ASSUME NEW order \in Orders, LookForItem(w, order), order = o
        PROVE  FALSE
    <3>1. Stored(id) /\ warranties[id].item = o
      BY <2>1, CountsFound DEF OneInv, Findable
    <3> QED BY <2>3, <3>1 DEF LookForItem
  <2> QED BY <2>2, <2>3, ImportMoves
<1>2. CASE Inserts(id)
  <2>1. PICK d \in Deliveries : Create(d) /\ OrderOf[EventOf(d)] = o
    BY <1>2 DEF Inserts
  <2>2. imports' = imports
    BY <2>1 DEF Create
  <2>3. delivery[d].pc # "off"
    BY <2>1 DEF Create
  <2> QED BY <1>0, <2>1, <2>2, <2>3 DEF OneInv, MeetingsAreKnown
<1> QED BY <1>1, <1>2, CountsKept

LEMMA OneCountsStep ==
  ASSUME TypeOK, OneInv, [Next]_vars
  PROVE  OneCounts'
<1> SUFFICES ASSUME NEW k \in Ids, NEW l \in Ids, k # l, Counts(k)', Counts(l)',
                    origin'[k].order = origin'[l].order,
                    origin'[k].order \notin overlapped',
                    \/ origin'[k].order \in first
                    \/ ~origin'[k].imported /\ ~origin'[l].imported
             PROVE  FALSE
  BY FactsStay DEF OneCounts, HomeOf
<1> DEFINE o == origin'[k].order
<1>0. o \notin overlapped
  BY HistoryGrows
<1>1. CASE CountedBefore(k) /\ CountedBefore(l)
  BY <1>0, <1>1 DEF CountedBefore, HomeOf, OneInv, OneCounts
<1>2. ASSUME NEW new \in Ids, NEW old \in Ids, {new, old} = {k, l},
             Inserts(new), CountedBefore(old)
      PROVE  FALSE
  <2>1. HomeOf(old) = o /\ Counts(old) /\ origin'[new].order = o
        /\ origin'[old] = origin[old]
    BY <1>2 DEF CountedBefore, HomeOf
  <2>2. ASSUME NEW d \in Deliveries, Create(d), OrderOf[EventOf(d)] = o
        PROVE  FALSE
    BY <1>0, <2>1, <2>2 DEF Create, OneInv, StillMissing
  <2>3. ASSUME NEW w \in Imports, InsertItem(w), imports[w].order = o,
               origin'[new].imported
        PROVE  FALSE
    <3>1. o \in first
      BY <1>2, <2>3
    <3>2. origin[old].imported
      BY <1>0, <2>1, <2>3, <3>1 DEF InsertItem, OneInv, NotMadeYet
    <3>3. Stored(old) /\ origin[old] = [order |-> o, imported |-> TRUE]
      BY <2>1, <3>2 DEF HomeOf, Counts, Stored, TypeOK, Origin
    <3>4. Taken(o)
      BY <3>3 DEF Taken
    <3> QED BY <2>3, <3>4 DEF InsertItem
  <2> QED BY <1>2, <2>1, <2>2, <2>3 DEF Inserts
<1>3. CASE CountedBefore(k) /\ Inserts(l)
  BY <1>2, <1>3
<1>4. CASE CountedBefore(l) /\ Inserts(k)
  BY <1>2, <1>4
<1> QED BY <1>1, <1>3, <1>4, CountsKept

LEMMA OneInvInit == Init => OneInv
<1>1. Init => FindablesAreFound /\ NumbersDiffer /\ MeetingsAreKnown
  BY DEF Init, FindablesAreFound, NumbersDiffer, MeetingsAreKnown, Stored, NoWarranty,
         NoDelivery, NoCall
<1>2. Init => StillMissing /\ NotMadeYet /\ OneCounts
  BY DEF Init, StillMissing, NotMadeYet, OneCounts, Counts, NoWarranty, NoDelivery,
         NoImport
<1> QED BY <1>1, <1>2, HomeInit DEF OneInv

(* An order has one warranty, however often its events are repeated and however
   often WooCommerce imports it: unless a delivery for it met another or an import,
   a late save brought one back, one is a stray, or WooCommerce inserted one for an
   item that is not the first of the shop's order. *)
THEOREM OrdersHaveOneWarranty == Spec => []OneWarrantyPerOrder
<1>1. OneInv /\ TypeOK /\ [Next]_vars => OneInv'
  <2> SUFFICES ASSUME OneInv, TypeOK, [Next]_vars
               PROVE  OneInv'
    OBVIOUS
  <2>1. Home' /\ FindablesAreFound' /\ NumbersDiffer' /\ MeetingsAreKnown'
    BY HomeStep, FindablesStep, NumbersStep, MeetingsStep DEF OneInv
  <2> QED BY <2>1, StillMissingStep, NotMadeStep, OneCountsStep DEF OneInv
<1>2. OneInv /\ TypeOK => OneWarrantyPerOrder
  BY DEF OneInv, OneCounts, Counts, OneWarrantyPerOrder, Stored, HomeOf
<1> QED BY <1>1, <1>2, OneInvInit, PosTypeCorrect, PTL DEF Spec

-----------------------------------------------------------------------------
(* A call that removes a warranty had found no case with it. *)
RemovesUnlinked ==
  \A s \in Staff :
    /\ staff[s].pc = "save" => staff[s].id \in Ids
    /\ staff[s].pc = "remove" => staff[s].cases = {}

LEMMA RemovesUnlinkedStep ==
  ASSUME TypeOK, RemovesUnlinked, [Next]_vars
  PROVE  RemovesUnlinked'
<1>1. CASE UNCHANGED staff
  BY <1>1 DEF RemovesUnlinked
<1>2. CASE Crash
  BY <1>2 DEF Crash, RemovesUnlinked, TypeOK, NoCall, Done
<1>3. ASSUME NEW s \in Staff, StaffStep(s)
      PROVE  RemovesUnlinked'
  <2>1. CASE SaveStaff(s) \/ Remove(s) \/ \E o \in Orders : Enter(s, o)
    BY <2>1 DEF SaveStaff, Remove, Enter, RemovesUnlinked, TypeOK, NoCall, Done
  <2>2. ASSUME NEW id \in Ids, Load(s, id)
        PROVE  RemovesUnlinked'
    <3>1. staff'[s].pc = "save" /\ staff'[s].id = id
      BY <2>2 DEF Load, TypeOK
    <3>2. \A x \in Staff \ {s} : staff'[x] = staff[x]
      BY <2>2 DEF Load, TypeOK
    <3> QED BY <3>1, <3>2 DEF RemovesUnlinked
  <2>3. ASSUME NEW id \in Ids, LoadForRemoval(s, id)
        PROVE  RemovesUnlinked'
    <3>1. staff'[s].pc = "remove" /\ staff'[s].cases = {}
      BY <2>3 DEF LoadForRemoval, MayRemove, TypeOK, NoCall
    <3>2. \A x \in Staff \ {s} : staff'[x] = staff[x]
      BY <2>3 DEF LoadForRemoval, TypeOK
    <3> QED BY <3>1, <3>2 DEF RemovesUnlinked
  <2> QED BY <1>3, <2>1, <2>2, <2>3 DEF StaffStep
<1>4. ASSUME NEW d \in Deliveries, Proceed(d) \/ \E e \in Events : Deliver(d, e)
      PROVE  UNCHANGED staff
  BY <1>4, Zenon DEF Proceed, Receive, Process, Update, Create, Throw, Finish, Fail,
                     Deliver
<1>5. CASE \/ \E w \in Imports : ImportStep(w)
           \/ \E c \in Cases, id \in Ids : Attach(c, id)
  <2>1. UNCHANGED staff
    BY <1>5, Zenon DEF ImportStep, InsertItem, GiveUpItem, LookForItem, Attach
  <2> QED BY <1>1, <2>1
<1> QED BY <1>1, <1>2, <1>3, <1>4, <1>5 DEF Next, vars

LEMMA KnownCasesStep ==
  ASSUME TypeOK, RemovesUnlinked,
         NEW s \in Staff, NEW c \in Cases, SaveStaff(s) \/ Remove(s),
         cases[c] # 0, cases'[c] = 0, c \in staff[s].cases
  PROVE  FALSE
<1>1. CASE SaveStaff(s)
  <2>1. CanSave(staff[s].id)
    BY <1>1 DEF SaveStaff
  <2>2. cases'[c] = staff[s].id
    BY <1>1, <2>1 DEF SaveStaff, Relate
  <2>3. staff[s].id \in Ids
    BY <1>1 DEF SaveStaff, RemovesUnlinked
  <2> QED BY <2>2, <2>3, PosAssumption DEF Ids
<1>2. CASE Remove(s)
  BY <1>2 DEF Remove, RemovesUnlinked
<1> QED BY <1>1, <1>2

(* A case loses its warranty only by a call of staff that had loaded the
   warranty before the case came to name it. *)
THEOREM KnownCasesRemain == Spec => KnownCasesStay
<1>1. Init => RemovesUnlinked
  BY DEF Init, RemovesUnlinked, NoCall
<1>2. TypeOK /\ RemovesUnlinked /\ [Next]_vars => RemovesUnlinked'
  BY RemovesUnlinkedStep
<1>3. TypeOK /\ RemovesUnlinked /\ [Next]_vars
        => [\A s \in Staff, c \in Cases :
              (SaveStaff(s) \/ Remove(s)) /\ cases[c] # 0 /\ cases'[c] = 0
                => c \notin staff[s].cases]_vars
  <2> SUFFICES ASSUME TypeOK, RemovesUnlinked, [Next]_vars,
                      NEW s \in Staff, NEW c \in Cases, SaveStaff(s) \/ Remove(s),
                      cases[c] # 0, cases'[c] = 0
               PROVE  c \notin staff[s].cases
    OBVIOUS
  <2> QED BY KnownCasesStep
<1> QED BY <1>1, <1>2, <1>3, PosTypeCorrect, PTL DEF Spec, KnownCasesStay
=============================================================================
