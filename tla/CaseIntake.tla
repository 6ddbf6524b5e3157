----------------------------- MODULE CaseIntake ------------------------------
(***************************************************************************)
(* Repair cases coming in and being removed (create, update and remove of  *)
(* cases.service), and the partners they come from (partners.service).     *)
(*                                                                         *)
(* Case numbers are read and inserted apart, guarded by a unique key. A    *)
(* partner's row is locked by what archives, deletes or restores it and by *)
(* the intake of a partner case; InnoDB itself takes it, shared, for every *)
(* other row that comes to name the partner. Edits do not lock.            *)
(***************************************************************************)
EXTENDS Integers

CONSTANTS
  Requests,   \* the HTTP calls that may be served at the same time
  Partners,   \* the rows of partners that may be inserted
  Nobody,     \* no partner; the holder of a free row lock
  MaxCases    \* bound: rows ever inserted into service_cases

ASSUME IntakeAssumption ==
  /\ Nobody \notin Requests /\ Nobody \notin Partners
  /\ MaxCases \in Nat

VARIABLES
  cases,      \* service_cases, by primary key
  partners,   \* partners, by primary key
  lock,       \* the request with the exclusive lock on a partner's row
  pc,         \* the next step of every request
  mem,        \* what every request holds in memory
  died        \* history variable: cases a request left half way

vars == <<cases, partners, lock, pc, mem, died>>
-----------------------------------------------------------------------------
CaseKeys == 1 .. MaxCases

(* "revived": removed, and inserted again by the save of an edit. `history` is
   whether the case has rows in case_status_history. *)
CaseRow ==
  [state : {"unused", "stored", "removed", "revived"}, number : Nat,
   partner : Partners \union {Nobody}, history : BOOLEAN]
NoCase == [state |-> "unused", number |-> 0, partner |-> Nobody, history |-> FALSE]

Stored(k) == cases[k].state \in {"stored", "revived"}
StoredCases == {k \in CaseKeys : Stored(k)}
CasesOf(p) == {k \in StoredCases : cases[k].partner = p}

PartnerStates == {"unused", "active", "archived", "deleted"}
IsRow(p) == partners[p] \in {"active", "archived"}

Steps ==
  {"idle", "lockForCase", "insertPartnerCase", "insertCase", "history", "saveCase",
   "removeHistory", "removeCase",
   "savePartner", "writePartner", "insertPartner", "count", "dispose"}

(* The case and its number, the partner, whether cases were counted, and
   whether save() found archived_at changed. *)
Memory ==
  [key : 0 .. MaxCases, number : Nat, partner : Partners \union {Nobody},
   linked : BOOLEAN, unarchive : BOOLEAN]
Blank ==
  [key |-> 0, number |-> 0, partner |-> Nobody, linked |-> FALSE,
   unarchive |-> FALSE]

Goto(r, step, held) ==
  pc' = [pc EXCEPT ![r] = step] /\ mem' = [mem EXCEPT ![r] = held]
Return(r) == Goto(r, "idle", Blank)

Free(p) == lock[p] = Nobody
TakePartnerUnlocked(r, p) == Free(p) /\ UNCHANGED lock
TakePartner(r, p) == Free(p) /\ lock' = [lock EXCEPT ![p] = r]

(* The end of a transaction gives its locks back. *)
KeepLocks(r) == UNCHANGED lock
Unlock(r) == lock' = [p \in Partners |-> IF lock[p] = r THEN Nobody ELSE lock[p]]

(* The foreign key of a row that comes to name p. *)
MayName(r, p) == p # Nobody => lock[p] \in {Nobody, r}
Names(p) == p # Nobody => IsRow(p)

Accident(r) == died' = died \union {mem[r].key}
-----------------------------------------------------------------------------
(* generateCaseNumber: the number of the newest case and one. *)
Newest == CHOOSE k \in StoredCases : \A l \in StoredCases : l <= k
NumberOfNewest == IF StoredCases = {} THEN 1 ELSE cases[Newest].number
NumberBelow == IF StoredCases = {} THEN 1 ELSE cases[Newest].number - 1
NextNumber == IF StoredCases = {} THEN 1 ELSE cases[Newest].number + 1
NumberFree(n) == \A k \in StoredCases : cases[k].number # n

Create(r, ofPartner, p) ==
  /\ pc[r] = "idle"
  /\ ofPartner => p # Nobody
  /\ Goto(r, IF ofPartner THEN "lockForCase" ELSE "insertCase",
          [Blank EXCEPT !.number = NextNumber, !.partner = p])
  /\ UNCHANGED <<cases, partners, lock, died>>

(* A partner case is inserted in a transaction that locks its partner first. *)
LockForCase(r) ==
  /\ pc[r] = "lockForCase"
  /\ LET p == mem[r].partner
     IN \/ /\ partners[p] = "active"
           /\ TakePartner(r, p)
           /\ Goto(r, "insertPartnerCase", mem[r])
        \/ /\ partners[p] # "active"
           /\ Free(p) /\ Return(r) /\ UNCHANGED lock
  /\ UNCHANGED <<cases, partners, died>>

NextKey(k) ==
  /\ cases[k].state = "unused"
  /\ \A l \in CaseKeys : l < k => cases[l].state # "unused"

Inserts(r) == pc[r] \in {"insertCase", "insertPartnerCase"}

InsertCase(r) ==
  /\ Inserts(r)
  /\ NumberFree(mem[r].number)
  /\ MayName(r, mem[r].partner) /\ Names(mem[r].partner)
  /\ \E k \in CaseKeys :
       /\ NextKey(k)
       /\ cases' = [cases EXCEPT ![k] =
            [NoCase EXCEPT !.state = "stored", !.number = mem[r].number,
                           !.partner = mem[r].partner]]
       /\ Goto(r, "history", [Blank EXCEPT !.key = k])
  /\ Unlock(r)
  /\ UNCHANGED <<partners, died>>

(* Another case has the number by now, the partner is gone, or the bound on
   keys is reached. *)
InsertCaseFails(r) ==
  /\ Inserts(r)
  /\ \/ ~NumberFree(mem[r].number)
     \/ MayName(r, mem[r].partner) /\ ~Names(mem[r].partner)
     \/ ~ \E k \in CaseKeys : NextKey(k)
  /\ Return(r) /\ Unlock(r)
  /\ UNCHANGED <<cases, partners, died>>

(* Nobody can be told of a failure any more: the case is there. *)
WriteHistoryForgotten(r) ==
  pc[r] = "history" /\ Return(r) /\ UNCHANGED <<cases, partners, lock, died>>
WriteHistory(r) ==
  /\ pc[r] = "history"
  /\ LET k == mem[r].key
     IN cases' = [cases EXCEPT ![k].history = @ \/ Stored(k)]
  /\ Return(r)
  /\ UNCHANGED <<partners, lock, died>>
-----------------------------------------------------------------------------
(* update: a case without a partner may be given one that is available. One
   that has a partner keeps it, for save() goes by the loaded relation. *)
UpdateCase(r, k, p) ==
  /\ pc[r] = "idle" /\ Stored(k)
  /\ p # Nobody => partners[p] = "active"
  /\ Goto(r, "saveCase",
          [Blank EXCEPT !.key = k, !.number = cases[k].number,
             !.partner = IF cases[k].partner = Nobody THEN p
                                                      ELSE cases[k].partner])
  /\ UNCHANGED <<cases, partners, lock, died>>

(* save() writes a partner other than the row's, NULL too, and inserts a case
   that was removed. *)
Saved(r) ==
  LET k == mem[r].key
  IN IF Stored(k) THEN [cases[k] EXCEPT !.partner = mem[r].partner]
     ELSE [NoCase EXCEPT !.state = "revived", !.number = mem[r].number,
                         !.partner = mem[r].partner]
Renames(r) == Saved(r).partner # cases[mem[r].key].partner \/ ~Stored(mem[r].key)

SaveCase(r) ==
  /\ pc[r] = "saveCase"
  /\ Stored(mem[r].key) \/ NumberFree(mem[r].number)
  /\ Renames(r) => MayName(r, mem[r].partner) /\ Names(mem[r].partner)
  /\ cases' = [cases EXCEPT ![mem[r].key] = Saved(r)]
  /\ Return(r)
  /\ UNCHANGED <<partners, lock, died>>

SaveCaseFails(r) ==
  /\ pc[r] = "saveCase"
  /\ \/ ~Stored(mem[r].key) /\ ~NumberFree(mem[r].number)
     \/ Renames(r) /\ MayName(r, mem[r].partner) /\ ~Names(mem[r].partner)
  /\ Return(r)
  /\ UNCHANGED <<cases, partners, lock, died>>

(* remove deletes the history rows and then the case, in two statements. *)
RemoveCase(r, k) ==
  /\ pc[r] = "idle" /\ Stored(k)
  /\ Goto(r, "removeHistory", [Blank EXCEPT !.key = k])
  /\ UNCHANGED <<cases, partners, lock, died>>

DeleteHistory(r) ==
  /\ pc[r] = "removeHistory"
  /\ cases' = [cases EXCEPT ![mem[r].key].history = FALSE]
  /\ Goto(r, "removeCase", mem[r])
  /\ UNCHANGED <<partners, lock, died>>

DeleteCase(r) ==
  /\ pc[r] = "removeCase"
  /\ cases' = [cases EXCEPT ![mem[r].key] =
       IF Stored(mem[r].key) THEN [NoCase EXCEPT !.state = "removed"] ELSE @]
  /\ Return(r)
  /\ UNCHANGED <<partners, lock, died>>
-----------------------------------------------------------------------------
CreatePartner(p) ==
  /\ partners[p] = "unused"
  /\ partners' = [partners EXCEPT ![p] = "active"]
  /\ UNCHANGED <<cases, lock, pc, mem, died>>

(* update of an active partner: save() reads the row again, then writes what
   differs from the entity, archived_at included. *)
UpdatePartner(r, p) ==
  /\ pc[r] = "idle" /\ partners[p] = "active"
  /\ Goto(r, "savePartner", [Blank EXCEPT !.partner = p])
  /\ UNCHANGED <<cases, partners, lock, died>>

ComparePartner(r) ==
  /\ pc[r] = "savePartner"
  /\ IF IsRow(mem[r].partner)
       THEN Goto(r, "writePartner",
                 [mem[r] EXCEPT !.unarchive = partners[mem[r].partner] = "archived"])
       ELSE Goto(r, "insertPartner", mem[r])
  /\ UNCHANGED <<cases, partners, lock, died>>

WritePartner(r) ==
  /\ pc[r] = "writePartner" /\ Free(mem[r].partner)
  /\ LET p == mem[r].partner
     IN partners' = [partners EXCEPT
          ![p] = IF IsRow(p) /\ mem[r].unarchive THEN "active" ELSE @]
  /\ Return(r)
  /\ UNCHANGED <<cases, lock, died>>

(* An INSERT under the old key, which fails if another edit was first. *)
InsertPartner(r) ==
  /\ pc[r] = "insertPartner" /\ Free(mem[r].partner)
  /\ LET p == mem[r].partner
     IN partners' = [partners EXCEPT ![p] = IF IsRow(p) THEN @ ELSE "active"]
  /\ Return(r)
  /\ UNCHANGED <<cases, lock, died>>

(* archiveOrDelete: lock, count, archive or delete, commit. *)
ArchiveOrDelete(r, p) ==
  /\ pc[r] = "idle" /\ partners[p] = "active"
  /\ TakePartner(r, p)
  /\ Goto(r, "count", [Blank EXCEPT !.partner = p])
  /\ UNCHANGED <<cases, partners, died>>

Count(r) ==
  /\ pc[r] = "count"
  /\ Goto(r, "dispose", [mem[r] EXCEPT !.linked = CasesOf(mem[r].partner) # {}])
  /\ UNCHANGED <<cases, partners, lock, died>>

Dispose(r) ==
  /\ pc[r] = "dispose"
  /\ LET p == mem[r].partner
     IN IF mem[r].linked
          THEN /\ partners' = [partners EXCEPT ![p] = "archived"]
               /\ UNCHANGED cases
          ELSE /\ partners' = [partners EXCEPT ![p] = "deleted"]
               /\ cases' = [k \in CaseKeys |->
                    [cases[k] EXCEPT !.partner = IF @ = p THEN Nobody ELSE @]]
  /\ Return(r) /\ Unlock(r)
  /\ UNCHANGED died

(* restore reads and writes the row under its lock: one step. *)
Restore(p) ==
  /\ partners[p] = "archived" /\ Free(p)
  /\ partners' = [partners EXCEPT ![p] = "active"]
  /\ UNCHANGED <<cases, lock, pc, mem, died>>

(* The process dies, or a statement fails: what was committed stays. *)
Abort(r) ==
  /\ pc[r] # "idle"
  /\ Return(r) /\ Unlock(r) /\ Accident(r)
  /\ UNCHANGED <<cases, partners>>
-----------------------------------------------------------------------------
Init ==
  /\ cases = [k \in CaseKeys |-> NoCase]
  /\ partners = [p \in Partners |-> "unused"]
  /\ lock = [p \in Partners |-> Nobody]
  /\ pc = [r \in Requests |-> "idle"]
  /\ mem = [r \in Requests |-> Blank]
  /\ died = {}

Accept(r) ==
  \/ \E p \in Partners \union {Nobody} :
       \/ \E ofPartner \in BOOLEAN : Create(r, ofPartner, p)
       \/ \E k \in CaseKeys : UpdateCase(r, k, p)
  \/ \E k \in CaseKeys : RemoveCase(r, k)
  \/ \E p \in Partners : UpdatePartner(r, p) \/ ArchiveOrDelete(r, p)

Continue(r) ==
  \/ LockForCase(r) \/ InsertCase(r) \/ InsertCaseFails(r) \/ WriteHistory(r)
  \/ SaveCase(r) \/ SaveCaseFails(r) \/ DeleteHistory(r) \/ DeleteCase(r)
  \/ ComparePartner(r) \/ WritePartner(r) \/ InsertPartner(r)
  \/ Count(r) \/ Dispose(r)

Next ==
  \/ \E r \in Requests : Accept(r) \/ Continue(r) \/ Abort(r)
  \/ \E p \in Partners : CreatePartner(p) \/ Restore(p)

(* Every await is answered, and a lock is granted in the order it was asked
   for: who waits for a partner's row gets it in the end. *)
Fairness == \A r \in Requests : SF_vars(Continue(r))

Spec == Init /\ [][Next]_vars
FairSpec == Spec /\ Fairness
-----------------------------------------------------------------------------
TypeOK ==
  /\ cases \in [CaseKeys -> CaseRow] /\ partners \in [Partners -> PartnerStates]
  /\ lock \in [Partners -> Requests \union {Nobody}]
  /\ pc \in [Requests -> Steps] /\ mem \in [Requests -> Memory]
  /\ died \subseteq 0 .. MaxCases

(* 'hard deletes only when no service cases are linked' (partners.service.spec):
   not at the count only, but at the delete, whatever intakes and edits of
   cases came in between; the foreign key would unlink the cases silently. *)
DeletesUnlinkedOnly ==
  [][\A p \in Partners :
       IsRow(p) /\ partners'[p] = "deleted" => CasesOf(p) = {}]_vars

(* 'does not create a new case for an archived partner' (cases.service.spec):
   at the moment the partner case is inserted. *)
PartnerCasesNeedAvailable ==
  [][\A r \in Requests :
       InsertCase(r) /\ pc[r] = "insertPartnerCase"
         => partners[mem[r].partner] = "active"]_vars

(* Why: who has a partner's row locked finds it as it was when the lock was
   taken, and no case comes to name a partner once none was counted. *)
Guards(r) == pc[r] \in {"insertPartnerCase", "count", "dispose"}
PartnersGuarded ==
  \A r \in Requests :
    LET p == mem[r].partner
    IN /\ pc[r] = "lockForCase" => p \in Partners
       /\ Guards(r) => p \in Partners /\ lock[p] = r /\ partners[p] = "active"
       /\ pc[r] = "dispose" /\ ~mem[r].linked => CasesOf(p) = {}

(* Intakes at once leave the numbering usable: as long as no case has been
   removed, a later case has a larger number and the next number is free, so
   the next intake succeeds. *)
NumberingGoesOn ==
  (\A k \in CaseKeys : cases[k].state \in {"unused", "stored"})
    => /\ \A k, l \in StoredCases : k < l => cases[k].number < cases[l].number
       /\ NumberFree(NextNumber)

(* A case without a history is being taken in or removed, unless a request died
   over it or an edit brought it back. *)
AtWorkOn(r, k) == pc[r] \in {"history", "removeCase"} /\ mem[r].key = k
OpeningIsRecorded ==
  \A k \in CaseKeys :
    cases[k].state = "stored" /\ ~cases[k].history
      => k \in died \/ \E r \in Requests : AtWorkOn(r, k)

(* Every request is answered, the ones that wait for a partner's row too. *)
EveryRequestReturns == \A r \in Requests : pc[r] # "idle" ~> pc[r] = "idle"
=============================================================================
