------------------------------ MODULE CaseStore ------------------------------
(***************************************************************************)
(* One repair case as the database keeps it, and the requests that work on *)
(* it: the row of service_cases, its rows in case_payments ("offers"), its *)
(* row in case_pickups, and what TypeORM and InnoDB do with them.          *)
(*                                                                         *)
(* A request is one HTTP call being served.  Every `await` of a handler is *)
(* a point where other requests run, so a request keeps what it has read   *)
(* in `mem` and comes back to it at the step named by `pc`.                *)
(***************************************************************************)
EXTENDS Integers, FiniteSets

CONSTANTS
  Requests,     \* the HTTP calls that may be served at the same time
  Nobody,       \* the holder of a free row lock
  Results,      \* the values of ResultType the staff uses
  Amounts,      \* the offer amounts in use
  MaxOffers,    \* bound: rows ever inserted into case_payments
  MaxAttempts   \* MAX_ATTEMPTS of the pickup PIN

ASSUME NobodyAssumption == Nobody \notin Requests
ASSUME ResultsAssumption ==
  Results \subseteq {"covered", "payable", "returned", "replaceable"}
ASSUME AmountsAssumption == Amounts \subseteq Nat \ {0}
ASSUME MaxOffersAssumption == MaxOffers \in Nat
ASSUME MaxAttemptsAssumption == MaxAttempts \in Nat \ {0}

VARIABLES
  case,      \* the row of service_cases
  recorded,  \* new_status_level of the newest status move in case_status_history
  offers,    \* case_payments, by primary key
  pickup,    \* the row of case_pickups
  lock,      \* the request holding the exclusive lock on the case row
  pc,        \* the next step of every request
  mem,       \* what every request holds in memory
  fresh,     \* requests that loaded the case with every history row there is
  paidEver,  \* history variable: a payable offer was once confirmed
  handovers  \* history variable: times the device was given out since the case
             \* last was open

tables == <<case, recorded, offers, pickup>>
ghosts == <<paidEver, handovers>>
vars == <<case, recorded, offers, pickup, lock, pc, mem, fresh,
          paidEver, handovers>>
-----------------------------------------------------------------------------
(* CaseStatusLevel *)
OPENED == 1
INVESTIGATING == 2
PENDING == 3
COMPLETED == 4
CaseStatusLevel == OPENED..COMPLETED

COVERED == "covered"
PAYABLE == "payable"
REPLACEABLE == "replaceable"
NoResult == "none"
ResultType == {COVERED, PAYABLE, "returned", REPLACEABLE}

PaymentStatus == {"pending", "paid", "failed"}

(* The columns of service_cases the workflow reads or writes. `closed` and
   `partsWaiting` stand for closed_at and parts_waiting_started_at too. *)
ServiceCase ==
  [status : CaseStatusLevel, result : ResultType \cup {NoResult},
   closed : BOOLEAN, pinRequired : BOOLEAN, partsWaiting : BOOLEAN]

(* A row of case_payments: a key not yet given out, a row, a deleted row.
   Amount 0 stands for NULL as well: the code reads `offer_amount || 0`. *)
CasePayment ==
  [type : ResultType, status : PaymentStatus \cup {"absent", "removed"},
   amount : Nat]
Absent == [type |-> COVERED, status |-> "absent", amount |-> 0]
Removed == [Absent EXCEPT !.status = "removed"]

(* The row of case_pickups, "absent" until it is first inserted. The columns
   pin_hash, issued_at and expires_at are `pin`; locked_until is NULL, ahead or
   past. *)
CasePickup ==
  [pin : {"absent", "none", "active", "expired"}, attempts : Nat,
   locked : {"no", "ahead", "past"}, collected : BOOLEAN]
NoPickup ==
  [pin |-> "absent", attempts |-> 0, locked |-> "no", collected |-> FALSE]

NewCase ==
  [status |-> OPENED, result |-> NoResult, closed |-> FALSE,
   pinRequired |-> FALSE, partsWaiting |-> FALSE]

Columns == {"status", "result", "closed", "pinRequired", "partsWaiting", "amount"}

Offers == 1..MaxOffers
Live == {o \in Offers : offers[o].status \in PaymentStatus}
OffersOf(result) == {o \in Live : offers[o].type = result}
PayablePaid == \E o \in OffersOf(PAYABLE) : offers[o].status = "paid"

(* The entity a find() returns when ids are scanned in key order. *)
FirstOf(S) == CHOOSE o \in S : \A p \in S : o <= p
-----------------------------------------------------------------------------
(* Requests *)
Steps ==
  {"idle",
   "status", "reset", "issue",             \* changeStatus
   "save", "write", "reopenReset", "reopenNote", "partsNote",
   "insertOffer", "saveOffer", "confirmOffer", "writeOffer", "insertAgain",
   "deleteOffer",
   "issuing", "verifying", "collecting"}

(* What a handler carries across its awaits: the case entity it will save and
   the offers loaded with it, the offer entity it will save and its key, the
   columns save() found changed, and the pickup row its transaction's reads
   see. *)
Memory ==
  [row : ServiceCase, seen : SUBSET Offers, then : Steps, key : 0..MaxOffers,
   offer : CasePayment, dirty : SUBSET Columns, snapshot : CasePickup]
Blank ==
  [row |-> NewCase, seen |-> {}, then |-> "idle", key |-> 0, offer |-> Absent,
   dirty |-> {}, snapshot |-> NoPickup]

Goto(r, step) == pc' = [pc EXCEPT ![r] = step]
Hold(r, held) == mem' = [mem EXCEPT ![r] = held]

(* The request is answered and forgets what it has read. *)
Return(r) == Goto(r, "idle") /\ Hold(r, Blank)

Free == lock = Nobody

(* SELECT ... FOR UPDATE on the case row, and the end of its transaction. *)
LockCaseForgotten(r) == UNCHANGED lock
LockCase(r) == Free /\ lock' = r
UnlockCase(r) == lock' = IF lock = r THEN Nobody ELSE lock

(* Requests that will still insert an offer: their rows are set aside, so the
   bound on keys never stops a request half way. *)
Inserting ==
  {r \in Requests : /\ pc[r] \in {"status", "insertOffer"}
                    /\ mem[r].offer.status # "absent"}
RoomForOffer ==
  Cardinality({o \in Offers : offers[o].status = "absent"}) > Cardinality(Inserting)

(* INSERT INTO case_payments: AUTO_INCREMENT gives the next key. *)
Insert(offer) ==
  \E o \in Offers :
    /\ offers[o].status = "absent"
    /\ \A p \in Offers : p < o => offers[p].status # "absent"
    /\ offers' = [offers EXCEPT ![o] = offer]

(* repository.save() of a case that findOne() loaded with its status_history
   and payments: rows of those tables that the entity does not list are taken
   out of the relation (UPDATE ... SET case_id = NULL), which the NOT NULL
   columns refuse, so the save is rolled back. *)
RelationsComplete(r) == r \in fresh /\ Live \subseteq mem[r].seen

(* save() reads the row again, compares it with the entity in memory, and then
   updates the columns that differed, whatever the row holds by that time. *)
Changed(held, row, columns) == {c \in columns : held[c] # row[c]}

(* A case out of COMPLETED starts a new handover. *)
CountHandovers == handovers' = IF case'.status = COMPLETED THEN handovers ELSE 0

(* INSERT INTO case_status_history: nobody has loaded the new row. *)
NewHistoryRow == fresh' = {}

Init ==
  /\ case = NewCase
  /\ recorded = OPENED
  /\ offers = [o \in Offers |-> Absent]
  /\ pickup = NoPickup
  /\ lock = Nobody
  /\ pc = [r \in Requests |-> "idle"]
  /\ mem = [r \in Requests |-> Blank]
  /\ fresh = {}
  /\ paidEver = FALSE
  /\ handovers = 0

TypeOK ==
  /\ case \in ServiceCase
  /\ recorded \in CaseStatusLevel
  /\ offers \in [Offers -> CasePayment]
  /\ pickup \in CasePickup
  /\ lock \in Requests \cup {Nobody}
  /\ pc \in [Requests -> Steps]
  /\ mem \in [Requests -> Memory]
  /\ fresh \subseteq Requests
  /\ paidEver \in BOOLEAN
  /\ handovers \in Nat

(* The process dies, or a statement fails with something the handler does not
   catch: an open transaction is rolled back, finished steps stay. *)
Abort(r) ==
  /\ pc[r] # "idle"
  /\ Return(r)
  /\ UnlockCase(r)
  /\ fresh' = fresh \ {r}
  /\ UNCHANGED <<tables, ghosts>>
=============================================================================
