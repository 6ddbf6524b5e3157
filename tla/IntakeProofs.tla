---------------------------- MODULE IntakeProofs -----------------------------
(***************************************************************************)
(* What holds of case intake for every number of requests, partners and    *)
(* cases: types, and the protection of the partners that cases name.       *)
(***************************************************************************)
EXTENDS CaseIntake, WellFoundedInduction, TLAPS

-----------------------------------------------------------------------------
(* The newest case exists whenever there is a case. *)
Less == {pair \in Nat \X Nat : pair[1] < pair[2]}
LEMMA LessIsWellFounded == IsWellFoundedOn(Less, Nat)
  BY NatLessThanWellFounded DEF OpToRel, Less

LEMMA NewestIsStored ==
  ASSUME StoredCases # {}
  PROVE  Newest \in StoredCases /\ \A l \in StoredCases : l <= Newest
<1> DEFINE Distances == {MaxCases - k : k \in StoredCases}
<1>1. MaxCases \in Nat
  BY IntakeAssumption
<1>2. Distances \subseteq Nat /\ Distances # {}
  BY <1>1 DEF StoredCases, CaseKeys
<1>3. PICK d \in Distances : \A e \in Distances : ~ (<<e, d>> \in Less)
  <2> HIDE DEF Distances
  <2> QED BY <1>2, WFMin, LessIsWellFounded
<1>4. \A e \in Distances : d <= e
  <2> HIDE DEF Distances
  <2> TAKE e \in Distances
  <2>1. e \in Nat /\ d \in Nat /\ ~ (<<e, d>> \in Less)
    BY <1>2, <1>3
  <2> QED BY <2>1 DEF Less
<1>5. PICK k \in StoredCases : d = MaxCases - k
  BY <1>3
<1>6. \A l \in StoredCases : l <= k
  <2> TAKE l \in StoredCases
  <2>1. MaxCases - k <= MaxCases - l
    BY <1>4, <1>5
  <2> QED BY <2>1, <1>1 DEF StoredCases, CaseKeys
<1> QED BY <1>5, <1>6 DEF Newest

LEMMA NextNumberType ==
  ASSUME TypeOK
  PROVE  NextNumber \in Nat
  BY NewestIsStored DEF TypeOK, NextNumber, StoredCases, CaseRow
-----------------------------------------------------------------------------
(* What the steps of a request are made of keeps the types. *)
LEMMA GotoType ==
  ASSUME TypeOK, NEW r \in Requests, NEW step \in Steps, NEW held \in Memory,
         Goto(r, step, held)
  PROVE  pc' \in [Requests -> Steps] /\ mem' \in [Requests -> Memory]
  BY DEF TypeOK, Goto

LEMMA BlankType == Blank \in Memory
  BY IntakeAssumption DEF Blank, Memory

LEMMA ReturnType ==
  ASSUME TypeOK, NEW r \in Requests, Return(r)
  PROVE  pc' \in [Requests -> Steps] /\ mem' \in [Requests -> Memory]
  BY BlankType, GotoType DEF Return, Steps

LEMMA LocksType ==
  ASSUME TypeOK, NEW r \in Requests, NEW p \in Partners,
         UNCHANGED lock \/ TakePartner(r, p) \/ Unlock(r)
  PROVE  lock' \in [Partners -> Requests \union {Nobody}]
  BY DEF TypeOK, TakePartner, Unlock

LEMMA UnlockType ==
  ASSUME TypeOK, NEW r \in Requests, Unlock(r)
  PROVE  lock' \in [Partners -> Requests \union {Nobody}]
  BY DEF TypeOK, Unlock

LEMMA MemoryFields ==
  ASSUME TypeOK, NEW r \in Requests
  PROVE  /\ mem[r] \in Memory
         /\ mem[r].key \in 0 .. MaxCases /\ mem[r].number \in Nat
         /\ mem[r].partner \in Partners \union {Nobody}
  BY DEF TypeOK, Memory

(* Accepting a request keeps the types. *)
LEMMA AcceptType ==
  ASSUME TypeOK, NEW r \in Requests, Accept(r)
  PROVE  TypeOK'
<1>1. ASSUME NEW p \in Partners \union {Nobody}, NEW ofPartner \in BOOLEAN,
             Create(r, ofPartner, p)
      PROVE  TypeOK'
  <2>1. [Blank EXCEPT !.number = NextNumber, !.partner = p] \in Memory
    BY NextNumberType, BlankType DEF Memory
  <2>2. (IF ofPartner THEN "lockForCase" ELSE "insertCase") \in Steps
    BY DEF Steps
  <2> QED BY <1>1, <2>1, <2>2, GotoType DEF Create, TypeOK
<1>2. ASSUME NEW p \in Partners \union {Nobody}, NEW k \in CaseKeys,
             UpdateCase(r, k, p)
      PROVE  TypeOK'
  <2>1. cases[k] \in CaseRow
    BY DEF TypeOK
  <2>2. k \in 0 .. MaxCases
    BY DEF CaseKeys
  <2>3. [Blank EXCEPT !.key = k, !.number = cases[k].number,
           !.partner = IF cases[k].partner = Nobody THEN p
                                                    ELSE cases[k].partner]
          \in Memory
    BY <2>1, <2>2, BlankType DEF Memory, CaseRow
  <2> QED BY <1>2, <2>3, GotoType DEF UpdateCase, TypeOK, Steps
<1>3. ASSUME NEW k \in CaseKeys, RemoveCase(r, k)
      PROVE  TypeOK'
  <2>1. [Blank EXCEPT !.key = k] \in Memory
    BY IntakeAssumption, BlankType DEF Memory, CaseKeys
  <2> QED BY <1>3, <2>1, GotoType DEF RemoveCase, TypeOK, Steps
<1>4. ASSUME NEW p \in Partners, UpdatePartner(r, p) \/ ArchiveOrDelete(r, p)
      PROVE  TypeOK'
  <2>1. [Blank EXCEPT !.partner = p] \in Memory
    BY BlankType DEF Memory
  <2>2. UNCHANGED <<cases, partners, died>> /\ (UNCHANGED lock \/ TakePartner(r, p))
    BY <1>4 DEF UpdatePartner, ArchiveOrDelete
  <2>3. pc' \in [Requests -> Steps] /\ mem' \in [Requests -> Memory]
    BY <1>4, <2>1, GotoType DEF UpdatePartner, ArchiveOrDelete, Steps
  <2> QED BY <2>2, <2>3, LocksType DEF TypeOK
<1> QED BY <1>1, <1>2, <1>3, <1>4 DEF Accept

(* Every later step of a request keeps them. *)
LEMMA ContinueType ==
  ASSUME TypeOK, NEW r \in Requests, Continue(r)
  PROVE  TypeOK'
<1>0. PICK p \in Partners \union {Nobody} : p = mem[r].partner
  BY MemoryFields
<1>1. CASE LockForCase(r)
  <2>1. pc' \in [Requests -> Steps] /\ mem' \in [Requests -> Memory]
    BY <1>1, GotoType, ReturnType, MemoryFields DEF LockForCase, Steps
  <2>2. lock' \in [Partners -> Requests \union {Nobody}]
    BY <1>1 DEF LockForCase, TypeOK, TakePartner
  <2> QED BY <1>1, <2>1, <2>2 DEF LockForCase, TypeOK
<1>2. CASE InsertCase(r)
  <2>1. PICK k \in CaseKeys :
          /\ cases' = [cases EXCEPT ![k] =
               [NoCase EXCEPT !.state = "stored", !.number = mem[r].number,
                              !.partner = mem[r].partner]]
          /\ Goto(r, "history", [Blank EXCEPT !.key = k])
    BY <1>2 DEF InsertCase
  <2>2. [Blank EXCEPT !.key = k] \in Memory
    BY IntakeAssumption, BlankType DEF Memory, CaseKeys
  <2>3. [NoCase EXCEPT !.state = "stored", !.number = mem[r].number,
                       !.partner = mem[r].partner] \in CaseRow
    BY MemoryFields DEF NoCase, CaseRow
  <2>4. cases' \in [CaseKeys -> CaseRow]
    BY <2>1, <2>3 DEF TypeOK
  <2> QED BY <1>2, <2>1, <2>2, <2>4, GotoType, UnlockType
        DEF InsertCase, TypeOK, Steps
<1>3. CASE InsertCaseFails(r)
  BY <1>3, ReturnType, UnlockType DEF InsertCaseFails, TypeOK
<1>4. CASE WriteHistory(r)
  <2>1. ASSUME NEW k \in CaseKeys
        PROVE  [cases[k] EXCEPT !.history = @ \/ Stored(k)] \in CaseRow
    <3>1. cases[k] \in CaseRow
      BY DEF TypeOK
    <3>2. (cases[k].history \/ Stored(k)) \in BOOLEAN
      OBVIOUS
    <3> QED BY <3>1, <3>2 DEF CaseRow
  <2>2. cases' = [cases EXCEPT ![mem[r].key] =
           [cases[mem[r].key] EXCEPT !.history = @ \/ Stored(mem[r].key)]]
    BY <1>4 DEF WriteHistory
  <2>3. cases' \in [CaseKeys -> CaseRow]
    BY <2>1, <2>2 DEF TypeOK
  <2> QED BY <1>4, <2>3, ReturnType DEF WriteHistory, TypeOK
<1>5. CASE SaveCase(r)
  <2>1. ASSUME NEW k \in CaseKeys, k = mem[r].key
        PROVE  Saved(r) \in CaseRow
    <3>1. cases[k] \in CaseRow
      BY DEF TypeOK
    <3>2. [cases[k] EXCEPT !.partner = mem[r].partner] \in CaseRow
      BY <3>1, MemoryFields DEF CaseRow
    <3>3. [NoCase EXCEPT !.state = "revived", !.number = mem[r].number,
                         !.partner = mem[r].partner] \in CaseRow
      BY MemoryFields DEF CaseRow, NoCase
    <3> QED BY <2>1, <3>2, <3>3 DEF Saved
  <2>2. cases' \in [CaseKeys -> CaseRow]
    BY <1>5, <2>1 DEF SaveCase, TypeOK
  <2> QED BY <1>5, <2>2, ReturnType DEF SaveCase, TypeOK
<1>6. CASE SaveCaseFails(r)
  BY <1>6, ReturnType DEF SaveCaseFails, TypeOK
<1>7. CASE DeleteHistory(r)
  <2>1. cases' \in [CaseKeys -> CaseRow]
    BY <1>7 DEF DeleteHistory, TypeOK, CaseRow
  <2> QED BY <1>7, <2>1, GotoType, MemoryFields DEF DeleteHistory, TypeOK, Steps
<1>8. CASE DeleteCase(r)
  <2>1. cases' \in [CaseKeys -> CaseRow]
    BY <1>8 DEF DeleteCase, TypeOK, CaseRow, NoCase
  <2> QED BY <1>8, <2>1, ReturnType DEF DeleteCase, TypeOK
<1>9. CASE ComparePartner(r)
  <2>1. [mem[r] EXCEPT !.unarchive = partners[mem[r].partner] = "archived"]
          \in Memory
    BY MemoryFields DEF Memory
  <2>2. pc' \in [Requests -> Steps] /\ mem' \in [Requests -> Memory]
    BY <1>9, <2>1, GotoType, MemoryFields DEF ComparePartner, Steps
  <2> QED BY <1>9, <2>2 DEF ComparePartner, TypeOK
<1>10. CASE WritePartner(r)
  BY <1>10, ReturnType DEF WritePartner, TypeOK, PartnerStates
<1>11. CASE InsertPartner(r)
  BY <1>11, ReturnType DEF InsertPartner, TypeOK, PartnerStates
<1>12. CASE Count(r)
  <2>1. [mem[r] EXCEPT !.linked = CasesOf(mem[r].partner) # {}] \in Memory
    BY MemoryFields DEF Memory
  <2> QED BY <1>12, <2>1, GotoType DEF Count, TypeOK, Steps
<1>13. CASE Dispose(r)
  <2>0. ASSUME NEW k \in CaseKeys, NEW q \in Partners \union {Nobody}
        PROVE  [cases[k] EXCEPT !.partner = q] \in CaseRow
    BY DEF TypeOK, CaseRow
  <2>1. cases' \in [CaseKeys -> CaseRow]
    <3>1. CASE mem[r].linked
      BY <1>13, <3>1 DEF Dispose, TypeOK
    <3>2. CASE ~mem[r].linked
      <4>1. cases' = [k \in CaseKeys |-> [cases[k] EXCEPT
               !.partner = IF cases[k].partner = mem[r].partner
                             THEN Nobody ELSE cases[k].partner]]
        BY <1>13, <3>2 DEF Dispose
      <4>2. \A k \in CaseKeys : cases[k].partner \in Partners \union {Nobody}
        BY DEF TypeOK, CaseRow
      <4> QED BY <2>0, <4>1, <4>2
    <3> QED BY <3>1, <3>2
  <2>2. partners' \in [Partners -> PartnerStates]
    BY <1>13 DEF Dispose, TypeOK, PartnerStates
  <2> QED BY <1>13, <2>1, <2>2, ReturnType, UnlockType DEF Dispose, TypeOK
<1> QED BY <1>1, <1>2, <1>3, <1>4, <1>5, <1>6, <1>7, <1>8, <1>9, <1>10, <1>11,
           <1>12, <1>13 DEF Continue

(* Every reachable state is well typed. *)
LEMMA TypeStep ==
  ASSUME TypeOK, [Next]_vars
  PROVE  TypeOK'
<1>1. CASE UNCHANGED vars
  BY <1>1 DEF vars, TypeOK
<1>2. ASSUME NEW r \in Requests, Abort(r)
      PROVE  TypeOK'
  BY <1>2, ReturnType, UnlockType, MemoryFields DEF Abort, Accident, TypeOK
<1>3. ASSUME NEW p \in Partners, CreatePartner(p) \/ Restore(p)
      PROVE  TypeOK'
  BY <1>3 DEF CreatePartner, Restore, TypeOK, PartnerStates
<1> QED BY <1>1, <1>2, <1>3, AcceptType, ContinueType DEF Next

THEOREM IntakeTypeCorrect == Spec => []TypeOK
<1>1. Init => TypeOK
  <2> SUFFICES ASSUME Init PROVE TypeOK
    OBVIOUS
  <2>1. NoCase \in CaseRow /\ Blank \in Memory
    BY IntakeAssumption DEF NoCase, CaseRow, Blank, Memory
  <2> QED BY <2>1 DEF Init, TypeOK, PartnerStates, Steps
<1> QED BY <1>1, TypeStep, PTL DEF Spec
-----------------------------------------------------------------------------
(* What one request may rely on while it has locked a partner's row. *)
Guarded(r) ==
  /\ pc[r] = "lockForCase" => mem[r].partner \in Partners
  /\ Guards(r) => /\ mem[r].partner \in Partners
                  /\ lock[mem[r].partner] = r
                  /\ partners[mem[r].partner] = "active"
  /\ pc[r] = "dispose" /\ ~mem[r].linked => CasesOf(mem[r].partner) = {}

(* What a step of q leaves of the rows that another request has locked. *)
Respects(q) ==
  \A p \in Partners :
    lock[p] \notin {q, Nobody}
      => /\ lock'[p] = lock[p]
         /\ partners[p] = "active" => partners'[p] = "active"
         /\ CasesOf(p)' \subseteq CasesOf(p)

LEMMA GuardedOf ==
  PartnersGuarded <=> \A r \in Requests : Guarded(r)
  BY DEF PartnersGuarded, Guarded

LEMMA GuardedOfNext ==
  PartnersGuarded' <=> \A r \in Requests : Guarded(r)'
  BY DEF PartnersGuarded, Guarded

(* A step of q that respects the locks of others keeps the invariant. *)
LEMMA RespectKeeps ==
  ASSUME TypeOK, PartnersGuarded, NEW q \in Requests, NEW step, NEW held,
         Goto(q, step, held), Respects(q), Guarded(q)'
  PROVE  PartnersGuarded'
<1> SUFFICES ASSUME NEW r \in Requests, r # q
             PROVE  Guarded(r)'
  BY GuardedOfNext
<1>1. pc'[r] = pc[r] /\ mem'[r] = mem[r]
  BY DEF Goto, TypeOK
<1>2. Guarded(r)
  BY GuardedOf
<1>3. CASE Guards(r)
  <2>1. mem[r].partner \in Partners /\ lock[mem[r].partner] = r
    BY <1>2, <1>3 DEF Guarded
  <2>2. r # Nobody
    BY IntakeAssumption
  <2> QED BY <1>1, <1>2, <1>3, <2>1, <2>2 DEF Guarded, Respects, Guards
<1>4. CASE ~Guards(r)
  BY <1>1, <1>2, <1>4 DEF Guarded, Guards
<1> QED BY <1>3, <1>4

(* The parts a step is made of. *)
LEMMA GotoOne ==
  ASSUME TypeOK, NEW q \in Requests, NEW step, NEW held, Goto(q, step, held)
  PROVE  pc'[q] = step /\ mem'[q] = held
  BY DEF Goto, TypeOK

LEMMA ReturnGuarded ==
  ASSUME TypeOK, NEW q \in Requests, Return(q)
  PROVE  Guarded(q)'
  BY GotoOne DEF Return, Guarded, Guards

LEMMA CasesStay ==
  ASSUME UNCHANGED cases
  PROVE  \A p \in Partners : CasesOf(p)' = CasesOf(p)
  BY DEF CasesOf, StoredCases, Stored

LEMMA LocksStay ==
  ASSUME TypeOK, NEW q \in Requests, UNCHANGED <<cases, partners>>,
         UNCHANGED lock \/ Unlock(q) \/ \E p \in Partners : TakePartner(q, p)
  PROVE  Respects(q)
<1>1. \A p \in Partners : lock[p] \notin {q, Nobody} => lock'[p] = lock[p]
  BY DEF TypeOK, Unlock, TakePartner, Free
<1> QED BY <1>1, CasesStay DEF Respects

(* A write to one case that names no partner locked by another. *)
LEMMA CaseWritten ==
  ASSUME TypeOK, NEW q \in Requests, NEW k \in CaseKeys, NEW row,
         cases' = [cases EXCEPT ![k] = row], UNCHANGED partners,
         UNCHANGED lock \/ Unlock(q),
         \/ row.partner = Nobody
         \/ lock[row.partner] \in {q, Nobody}
         \/ Stored(k) /\ row.partner = cases[k].partner
  PROVE  Respects(q)
<1>1. \A p \in Partners : lock[p] \notin {q, Nobody} => lock'[p] = lock[p]
  BY DEF TypeOK, Unlock
<1>2. ASSUME NEW p \in Partners, lock[p] \notin {q, Nobody},
             NEW l \in CasesOf(p)'
      PROVE  l \in CasesOf(p)
  <2>1. l \in CaseKeys /\ cases'[l].partner = p /\ Stored(l)'
    BY <1>2 DEF CasesOf, StoredCases
  <2>2. CASE l # k
    BY <2>1, <2>2 DEF CasesOf, StoredCases, Stored, TypeOK
  <2>3. CASE l = k
    <3>1. row.partner = p
      BY <2>1, <2>3 DEF TypeOK
    <3>2. p # Nobody
      BY IntakeAssumption
    <3>3. Stored(k) /\ cases[k].partner = p
      BY <1>2, <3>1, <3>2
    <3> QED BY <2>3, <3>3 DEF CasesOf, StoredCases
  <2> QED BY <2>2, <2>3
<1> QED BY <1>1, <1>2 DEF Respects

(* Taking a call on respects the locks of others. *)
LEMMA AcceptGuards ==
  ASSUME TypeOK, PartnersGuarded, NEW r \in Requests, Accept(r)
  PROVE  PartnersGuarded'
<1>1. ASSUME NEW p \in Partners \union {Nobody}, NEW ofPartner \in BOOLEAN,
             Create(r, ofPartner, p)
      PROVE  PartnersGuarded'
  <2> DEFINE held == [Blank EXCEPT !.number = NextNumber, !.partner = p]
  <2>1. Guarded(r)'
    <3>1. held.partner = p
      BY BlankType DEF Memory
    <3>2. mem'[r] = held /\ pc'[r] \in {"lockForCase", "insertCase"}
      BY <1>1, GotoOne DEF Create
    <3>3. pc'[r] = "lockForCase" => p \in Partners
      BY <1>1, GotoOne DEF Create
    <3> HIDE DEF held
    <3> QED BY <3>1, <3>2, <3>3 DEF Guarded, Guards
  <2> QED BY <1>1, <2>1, LocksStay, RespectKeeps DEF Create
<1>2. ASSUME NEW p \in Partners \union {Nobody}, NEW k \in CaseKeys,
             UpdateCase(r, k, p)
      PROVE  PartnersGuarded'
  <2>1. Guarded(r)'
    BY <1>2, GotoOne DEF UpdateCase, Guarded, Guards
  <2> QED BY <1>2, <2>1, LocksStay, RespectKeeps DEF UpdateCase
<1>3. ASSUME NEW k \in CaseKeys, RemoveCase(r, k)
      PROVE  PartnersGuarded'
  <2>1. Guarded(r)'
    BY <1>3, GotoOne DEF RemoveCase, Guarded, Guards
  <2> QED BY <1>3, <2>1, LocksStay, RespectKeeps DEF RemoveCase
<1>4. ASSUME NEW p \in Partners, UpdatePartner(r, p)
      PROVE  PartnersGuarded'
  <2>1. Guarded(r)'
    BY <1>4, GotoOne DEF UpdatePartner, Guarded, Guards
  <2> QED BY <1>4, <2>1, LocksStay, RespectKeeps DEF UpdatePartner
<1>5. ASSUME NEW p \in Partners, ArchiveOrDelete(r, p)
      PROVE  PartnersGuarded'
  <2> DEFINE held == [Blank EXCEPT !.partner = p]
  <2>1. pc'[r] = "count" /\ mem'[r] = held
    BY <1>5, GotoOne DEF ArchiveOrDelete
  <2>2. held.partner = p
    BY BlankType DEF Memory
  <2>3. lock'[p] = r /\ partners'[p] = "active"
    BY <1>5 DEF ArchiveOrDelete, TakePartner, TypeOK
  <2>4. Guarded(r)'
    BY <2>1, <2>2, <2>3 DEF Guarded, Guards
  <2> QED BY <1>5, <2>4, LocksStay, RespectKeeps DEF ArchiveOrDelete
<1> QED BY <1>1, <1>2, <1>3, <1>4, <1>5 DEF Accept

(* So does every later step: rows are written only by who has them locked, or
   while they are free, and cases come to name only such partners. *)
LEMMA ContinueGuards ==
  ASSUME TypeOK, PartnersGuarded, NEW r \in Requests, Continue(r)
  PROVE  PartnersGuarded'
<1>0. Guarded(r)
  BY GuardedOf
<1>1. CASE LockForCase(r)
  <2> DEFINE p == mem[r].partner
  <2>1. CASE /\ partners[p] = "active" /\ TakePartner(r, p)
             /\ Goto(r, "insertPartnerCase", mem[r])
    <3>1. p \in Partners
      BY <1>0, <1>1 DEF Guarded, LockForCase
    <3>2. UNCHANGED <<cases, partners>>
      BY <1>1 DEF LockForCase
    <3>3. Guarded(r)'
      <4>1. lock'[p] = r /\ partners'[p] = "active"
        BY <2>1, <3>1, <3>2 DEF TakePartner, TypeOK
      <4>2. pc'[r] = "insertPartnerCase" /\ mem'[r] = mem[r]
        BY <2>1, GotoOne
      <4> QED BY <3>1, <4>1, <4>2 DEF Guarded
    <3>4. Respects(r)
      BY <2>1, <3>1, <3>2, LocksStay
    <3> QED BY <2>1, <3>3, <3>4, RespectKeeps
  <2>2. CASE Return(r) /\ UNCHANGED lock
    BY <1>1, <2>2, ReturnGuarded, LocksStay, RespectKeeps DEF LockForCase, Return
  <2> QED BY <1>1, <2>1, <2>2 DEF LockForCase
<1>2. CASE InsertCase(r)
  <2>1. PICK k \in CaseKeys :
          /\ cases' = [cases EXCEPT ![k] =
               [NoCase EXCEPT !.state = "stored", !.number = mem[r].number,
                              !.partner = mem[r].partner]]
          /\ Goto(r, "history", [Blank EXCEPT !.key = k])
    BY <1>2 DEF InsertCase
  <2> DEFINE row == [NoCase EXCEPT !.state = "stored", !.number = mem[r].number,
                                   !.partner = mem[r].partner]
  <2>2. row.partner = mem[r].partner
    BY DEF NoCase
  <2>3. mem[r].partner = Nobody \/ lock[mem[r].partner] \in {r, Nobody}
    BY <1>2 DEF InsertCase, MayName
  <2>4. Respects(r)
    <3> HIDE DEF row
    <3> QED BY <1>2, <2>1, <2>2, <2>3, CaseWritten DEF InsertCase, row
  <2>5. Guarded(r)'
    BY <2>1, GotoOne DEF Guarded, Guards
  <2> QED BY <2>1, <2>4, <2>5, RespectKeeps
<1>3. CASE InsertCaseFails(r)
  BY <1>3, ReturnGuarded, LocksStay, RespectKeeps DEF InsertCaseFails, Return
<1>4. CASE WriteHistory(r)
  <2> DEFINE k == mem[r].key
             row == [cases[k] EXCEPT !.history = @ \/ Stored(k)]
  <2>1. cases' = [cases EXCEPT ![k] = row]
    BY <1>4 DEF WriteHistory
  <2>2. ASSUME k \in CaseKeys, ~Stored(k)
        PROVE  row = cases[k]
    BY <2>2 DEF TypeOK, CaseRow
  <2>3. CASE k \in CaseKeys /\ Stored(k)
    <3>1. row.partner = cases[k].partner
      BY <2>3 DEF TypeOK, CaseRow
    <3>2. Respects(r)
      <4> HIDE DEF row
      <4> QED BY <1>4, <2>1, <2>3, <3>1, CaseWritten DEF WriteHistory
    <3> QED BY <1>4, <3>2, ReturnGuarded, RespectKeeps DEF WriteHistory, Return
  <2>4. CASE ~(k \in CaseKeys /\ Stored(k))
    <3>1. cases' = cases
      <4> HIDE DEF row
      <4> QED BY <2>1, <2>2, <2>4 DEF TypeOK
    <3> QED BY <1>4, <3>1, ReturnGuarded, LocksStay, RespectKeeps
          DEF WriteHistory, Return
  <2> QED BY <2>3, <2>4
<1>5. CASE SaveCase(r)
  <2> DEFINE k == mem[r].key
  <2>1. cases' = [cases EXCEPT ![k] = Saved(r)] /\ UNCHANGED <<partners, lock>>
    BY <1>5 DEF SaveCase
  <2>2. CASE k \in CaseKeys
    <3>1. \/ Saved(r).partner = Nobody
          \/ lock[Saved(r).partner] \in {r, Nobody}
          \/ Stored(k) /\ Saved(r).partner = cases[k].partner
      <4>1. Saved(r).partner = mem[r].partner
        BY <2>2 DEF Saved, TypeOK, CaseRow, NoCase
      <4> QED BY <1>5, <4>1 DEF SaveCase, Renames, MayName
    <3>2. Respects(r)
      BY <2>1, <2>2, <3>1, CaseWritten
    <3> QED BY <1>5, <3>2, ReturnGuarded, RespectKeeps DEF SaveCase, Return
  <2>3. CASE k \notin CaseKeys
    <3>1. cases' = cases
      BY <2>1, <2>3 DEF TypeOK
    <3> QED BY <1>5, <3>1, ReturnGuarded, LocksStay, RespectKeeps
          DEF SaveCase, Return
  <2> QED BY <2>2, <2>3
<1>6. CASE SaveCaseFails(r)
  BY <1>6, ReturnGuarded, LocksStay, RespectKeeps DEF SaveCaseFails, Return
<1>7. CASE DeleteHistory(r)
  <2>1. \A p \in Partners : CasesOf(p)' \subseteq CasesOf(p)
    BY <1>7 DEF DeleteHistory, CasesOf, StoredCases, Stored, TypeOK, CaseRow
  <2>2. Respects(r)
    BY <1>7, <2>1 DEF DeleteHistory, Respects
  <2>3. Guarded(r)'
    BY <1>7, GotoOne DEF DeleteHistory, Guarded, Guards
  <2> QED BY <1>7, <2>2, <2>3, RespectKeeps DEF DeleteHistory
<1>8. CASE DeleteCase(r)
  <2>1. \A p \in Partners : CasesOf(p)' \subseteq CasesOf(p)
    BY <1>8, IntakeAssumption
       DEF DeleteCase, CasesOf, StoredCases, Stored, TypeOK, CaseRow, NoCase
  <2>2. Respects(r)
    BY <1>8, <2>1 DEF DeleteCase, Respects
  <2> QED BY <1>8, <2>2, ReturnGuarded, RespectKeeps DEF DeleteCase, Return
<1>9. CASE ComparePartner(r)
  <2>1. PICK step \in {"writePartner", "insertPartner"}, held \in Memory :
          Goto(r, step, held)
    BY <1>9, MemoryFields DEF ComparePartner, Memory
  <2>2. Guarded(r)'
    BY <2>1, GotoOne DEF Guarded, Guards
  <2> QED BY <1>9, <2>1, <2>2, LocksStay, RespectKeeps DEF ComparePartner
<1>10. CASE WritePartner(r) \/ InsertPartner(r)
  <2>1. UNCHANGED <<cases, lock>> /\ Return(r) /\ Free(mem[r].partner)
    BY <1>10 DEF WritePartner, InsertPartner
  <2>2. \A p \in Partners : p # mem[r].partner => partners'[p] = partners[p]
    BY <1>10 DEF WritePartner, InsertPartner, TypeOK
  <2>3. Respects(r)
    BY <2>1, <2>2, CasesStay DEF Respects, Free
  <2> QED BY <2>1, <2>3, ReturnGuarded, RespectKeeps DEF Return
<1>12. CASE Count(r)
  <2> DEFINE held == [mem[r] EXCEPT !.linked = CasesOf(mem[r].partner) # {}]
  <2>1. pc'[r] = "dispose" /\ mem'[r] = held /\ UNCHANGED <<cases, partners, lock>>
    BY <1>12, GotoOne DEF Count
  <2>2. held.partner = mem[r].partner /\ (held.linked <=> CasesOf(mem[r].partner) # {})
    BY MemoryFields DEF Memory
  <2>3. mem[r].partner \in Partners /\ lock[mem[r].partner] = r
        /\ partners[mem[r].partner] = "active"
    BY <1>0, <1>12 DEF Guarded, Guards, Count
  <2>4. CasesOf(mem[r].partner)' = CasesOf(mem'[r].partner)
    BY <2>1, <2>2 DEF CasesOf, StoredCases, Stored
  <2>5. Guarded(r)'
    <3> HIDE DEF held
    <3>1. mem'[r].partner = mem[r].partner
      BY <2>1, <2>2
    <3> QED BY <2>1, <2>2, <2>3, <3>1 DEF Guarded, CasesOf, StoredCases, Stored
  <2> QED BY <1>12, <2>5, LocksStay, RespectKeeps DEF Count
<1>13. CASE Dispose(r)
  <2> DEFINE p == mem[r].partner
  <2>1. p \in Partners /\ lock[p] = r
    BY <1>0, <1>13 DEF Guarded, Guards, Dispose
  <2>2. \A q \in Partners : q # p => partners'[q] = partners[q]
    BY <1>13, <2>1 DEF Dispose, TypeOK
  <2>3. \A q \in Partners : CasesOf(q)' \subseteq CasesOf(q)
    <3>1. CASE mem[r].linked
      BY <1>13, <3>1, CasesStay DEF Dispose
    <3>2. CASE ~mem[r].linked
      <4>1. cases' = [k \in CaseKeys |-> [cases[k] EXCEPT
               !.partner = IF cases[k].partner = p THEN Nobody
                                                   ELSE cases[k].partner]]
        BY <1>13, <3>2 DEF Dispose
      <4>2. ASSUME NEW q \in Partners, NEW k \in CasesOf(q)'
            PROVE  k \in CasesOf(q)
        <5>1. k \in CaseKeys /\ cases'[k].partner = q /\ Stored(k)'
          BY DEF CasesOf, StoredCases
        <5>2. q # Nobody
          BY IntakeAssumption
        <5>3. cases[k] \in CaseRow
          BY <5>1 DEF TypeOK
        <5>4. cases'[k] = [cases[k] EXCEPT
                !.partner = IF cases[k].partner = p THEN Nobody
                                                    ELSE cases[k].partner]
          BY <4>1, <5>1
        <5>5. cases'[k].state = cases[k].state /\ cases[k].partner = q
          BY <5>1, <5>2, <5>3, <5>4 DEF CaseRow
        <5> QED BY <5>1, <5>5 DEF CasesOf, StoredCases, Stored
      <4> QED BY <4>2
    <3> QED BY <3>1, <3>2
  <2>4. \A q \in Partners : lock[q] \notin {r, Nobody} => lock'[q] = lock[q]
    BY <1>13 DEF Dispose, Unlock
  <2>5. Respects(r)
    BY <2>1, <2>2, <2>3, <2>4 DEF Respects
  <2> QED BY <1>13, <2>5, ReturnGuarded, RespectKeeps DEF Dispose, Return
<1> QED BY <1>1, <1>2, <1>3, <1>4, <1>5, <1>6, <1>7, <1>8, <1>9, <1>10, <1>12,
           <1>13 DEF Continue

(* A step of the system keeps the invariant. *)
LEMMA GuardStep ==
  ASSUME TypeOK, PartnersGuarded, [Next]_vars
  PROVE  PartnersGuarded'
<1>1. CASE UNCHANGED vars
  BY <1>1 DEF vars, PartnersGuarded, Guards, CasesOf, StoredCases, Stored
<1>2. ASSUME NEW r \in Requests, Abort(r)
      PROVE  PartnersGuarded'
  BY <1>2, ReturnGuarded, LocksStay, RespectKeeps DEF Abort, Return
<1>3. ASSUME NEW p \in Partners, CreatePartner(p) \/ Restore(p)
      PROVE  PartnersGuarded'
  <2>1. /\ UNCHANGED <<cases, lock, pc, mem>>
        /\ partners' = [partners EXCEPT ![p] = "active"]
    BY <1>3 DEF CreatePartner, Restore
  <2> QED BY <2>1 DEF TypeOK, PartnersGuarded, Guards, CasesOf, StoredCases, Stored
<1> QED BY <1>1, <1>2, <1>3, AcceptGuards, ContinueGuards DEF Next

(* A locked partner is active, and names no case once none was counted: what
   archiveOrDelete and the intake of a partner case have read stays true. *)
THEOREM PartnersStayGuarded == Spec => []PartnersGuarded
<1>1. Init => PartnersGuarded
  BY DEF Init, PartnersGuarded, Guards
<1> QED BY <1>1, GuardStep, IntakeTypeCorrect, PTL DEF Spec
-----------------------------------------------------------------------------
(* A request has only the row of its own partner locked, and only while it needs
   it: so no two requests wait for each other, and no lock is left behind. *)
LocksUsedBy(r) == \A p \in Partners : lock[p] = r => Guards(r) /\ mem[r].partner = p
LocksInUse ==
  \A p \in Partners :
    lock[p] # Nobody => Guards(lock[p]) /\ mem[lock[p]].partner = p

(* A step takes one lock for a request that needs it and has no other, keeps
   the locks, or gives them all back. *)
LEMMA LocksUsedStep ==
  ASSUME TypeOK, NEW r \in Requests, LocksUsedBy(r),
         Accept(r) \/ Continue(r) \/ Abort(r)
  PROVE  /\ LocksUsedBy(r)'
         /\ \A p \in Partners : lock'[p] # r => lock'[p] \in {lock[p], Nobody}
<1>1. CASE Unlock(r)
  BY <1>1, IntakeAssumption DEF Unlock, LocksUsedBy, TypeOK
<1>2. ASSUME UNCHANGED lock, ~Guards(r)
      PROVE  /\ LocksUsedBy(r)'
             /\ \A p \in Partners : lock'[p] # r => lock'[p] \in {lock[p], Nobody}
  BY <1>2 DEF LocksUsedBy
<1>3. ASSUME ~Guards(r), NEW p \in Partners, TakePartner(r, p),
             Guards(r)', mem'[r].partner = p
      PROVE  /\ LocksUsedBy(r)'
             /\ \A q \in Partners : lock'[q] # r => lock'[q] \in {lock[q], Nobody}
  BY <1>3 DEF LocksUsedBy, TakePartner, TypeOK
<1>4. CASE Accept(r)
  <2>1. ~Guards(r)
    BY <1>4
    DEF Accept, Create, UpdateCase, RemoveCase, UpdatePartner, ArchiveOrDelete, Guards
  <2>2. CASE \E p \in Partners : ArchiveOrDelete(r, p)
    <3>1. PICK p \in Partners : ArchiveOrDelete(r, p)
      BY <2>2
    <3> DEFINE held == [Blank EXCEPT !.partner = p]
    <3>2. pc'[r] = "count" /\ mem'[r] = held
      BY <3>1, GotoOne DEF ArchiveOrDelete
    <3>3. held.partner = p
      BY BlankType DEF Memory
    <3> QED BY <1>3, <2>1, <3>1, <3>2, <3>3 DEF ArchiveOrDelete, Guards
  <2>3. CASE UNCHANGED lock
    BY <1>2, <2>1, <2>3
  <2> QED BY <1>4, <2>2, <2>3 DEF Accept, Create, UpdateCase, RemoveCase, UpdatePartner
<1>5. CASE LockForCase(r)
  <2>1. ~Guards(r)
    BY <1>5 DEF LockForCase, Guards
  <2>2. CASE UNCHANGED lock
    BY <1>2, <2>1, <2>2
  <2>3. CASE /\ TakePartner(r, mem[r].partner) /\ partners[mem[r].partner] = "active"
             /\ Goto(r, "insertPartnerCase", mem[r])
    <3>1. pc'[r] = "insertPartnerCase" /\ mem'[r] = mem[r]
      BY <2>3, GotoOne
    <3>2. mem[r].partner \in Partners \union {Nobody}
      BY MemoryFields
    <3>3. CASE mem[r].partner = Nobody
      BY <2>1, <2>3, <3>3, IntakeAssumption
      DEF TakePartner, LocksUsedBy, TypeOK
    <3> QED BY <1>3, <2>1, <2>3, <3>1, <3>2, <3>3 DEF Guards
  <2> QED BY <1>5, <2>2, <2>3 DEF LockForCase
<1>6. CASE Count(r)
  <2> DEFINE counted == CasesOf(mem[r].partner) # {}
             held == [mem[r] EXCEPT !.linked = counted]
  <2>1. held.partner = mem[r].partner
    <3> HIDE DEF counted
    <3> QED BY DEF TypeOK, Memory
  <2>2. pc'[r] = "dispose" /\ mem'[r] = held /\ UNCHANGED lock
    BY <1>6, GotoOne DEF Count
  <2> HIDE DEF held
  <2> QED BY <1>6, <2>1, <2>2 DEF LocksUsedBy, Guards
<1>7. CASE /\ Continue(r) \/ Abort(r)
           /\ ~LockForCase(r) /\ ~Count(r)
  <2>1. Unlock(r) \/ (UNCHANGED lock /\ ~Guards(r))
    BY <1>7
    DEF Continue, Abort, InsertCase, InsertCaseFails, WriteHistory, SaveCase,
        SaveCaseFails, DeleteHistory, DeleteCase, ComparePartner, WritePartner,
        InsertPartner, Dispose, Guards
  <2> QED BY <1>1, <1>2, <2>1
<1> QED BY <1>4, <1>5, <1>6, <1>7

(* What was refused, failed or died on the way keeps no partner locked. *)
THEOREM PartnerLocksAreGivenBack == Spec => []LocksInUse
<1> DEFINE Used == \A r \in Requests : LocksUsedBy(r)
<1>1. Init => Used
  BY IntakeAssumption DEF Init, LocksUsedBy
<1>2. TypeOK /\ Used /\ [Next]_vars => Used'
  <2> SUFFICES ASSUME TypeOK, Used, [Next]_vars PROVE Used'
    OBVIOUS
  <2>1. CASE UNCHANGED <<lock, pc, mem>>
    BY <2>1 DEF LocksUsedBy, Guards
  <2>2. ASSUME NEW r \in Requests, Accept(r) \/ Continue(r) \/ Abort(r)
        PROVE  Used'
    <3>1. /\ LocksUsedBy(r)'
          /\ \A p \in Partners : lock'[p] # r => lock'[p] \in {lock[p], Nobody}
      BY <2>2, LocksUsedStep
    <3>2. \A q \in Requests : q # r => pc'[q] = pc[q] /\ mem'[q] = mem[q]
      <4>1. \E step, held : Goto(r, step, held)
        BY <2>2
        DEF Accept, Create, UpdateCase, RemoveCase, UpdatePartner, ArchiveOrDelete,
            Continue, Abort, LockForCase, InsertCase, InsertCaseFails, WriteHistory,
            SaveCase, SaveCaseFails, DeleteHistory, DeleteCase, ComparePartner,
            WritePartner, InsertPartner, Count, Dispose, Return
      <4> QED BY <4>1 DEF Goto, TypeOK
    <3>3. ASSUME NEW q \in Requests, q # r PROVE LocksUsedBy(q)'
      BY <3>1, <3>2, <3>3, IntakeAssumption DEF LocksUsedBy, Guards
    <3> QED BY <3>1, <3>3
  <2> QED BY <2>1, <2>2 DEF Next, CreatePartner, Restore, vars
<1>3. TypeOK /\ Used => LocksInUse
  BY DEF LocksUsedBy, LocksInUse, TypeOK
<1> HIDE DEF Used
<1> QED BY <1>1, <1>2, <1>3, IntakeTypeCorrect, PTL DEF Spec
-----------------------------------------------------------------------------
(* Only Dispose deletes a partner. *)
LEMMA DeletesUnlinkedStep ==
  ASSUME TypeOK, PartnersGuarded, [Next]_vars,
         NEW p \in Partners, IsRow(p), partners'[p] = "deleted"
  PROVE  CasesOf(p) = {}
<1>1. CASE UNCHANGED vars
  BY <1>1 DEF vars, IsRow
<1>2. ASSUME NEW r \in Requests, Abort(r)
      PROVE  CasesOf(p) = {}
  BY <1>2 DEF Abort, IsRow
<1>3. ASSUME NEW q \in Partners, CreatePartner(q) \/ Restore(q)
      PROVE  CasesOf(p) = {}
  BY <1>3 DEF CreatePartner, Restore, IsRow, TypeOK
<1>4. ASSUME NEW r \in Requests, Accept(r)
      PROVE  CasesOf(p) = {}
  BY <1>4 DEF Accept, Create, UpdateCase, RemoveCase, UpdatePartner,
              ArchiveOrDelete, IsRow
<1>5. ASSUME NEW r \in Requests, Dispose(r)
      PROVE  CasesOf(p) = {}
  <2>1. Guarded(r)
    BY GuardedOf
  <2>2. p = mem[r].partner /\ ~mem[r].linked
    BY <1>5 DEF Dispose, IsRow, TypeOK
  <2> QED BY <1>5, <2>1, <2>2 DEF Guarded, Dispose
<1>6. ASSUME NEW r \in Requests, Continue(r), ~Dispose(r)
      PROVE  CasesOf(p) = {}
  <2>1. partners'[p] # "deleted"
    BY <1>6 DEF Continue, LockForCase, InsertCase, InsertCaseFails, WriteHistory,
                SaveCase, SaveCaseFails, DeleteHistory, DeleteCase, ComparePartner,
                WritePartner, InsertPartner, Count, IsRow, TypeOK
  <2> QED BY <2>1
<1> QED BY <1>1, <1>2, <1>3, <1>4, <1>5, <1>6 DEF Next

(* A partner is deleted only while no case names it, however many intakes and
   edits of cases run beside archiveOrDelete. *)
THEOREM UnlinkedOnlyDeleted == Spec => DeletesUnlinkedOnly
<1>1. TypeOK /\ PartnersGuarded /\ [Next]_vars
        => [\A p \in Partners :
              IsRow(p) /\ partners'[p] = "deleted" => CasesOf(p) = {}]_vars
  BY DeletesUnlinkedStep
<1> QED BY <1>1, IntakeTypeCorrect, PartnersStayGuarded, PTL
       DEF Spec, DeletesUnlinkedOnly

(* The partner of a partner case is available when the case is inserted. *)
THEOREM AvailablePartnersOnly == Spec => PartnerCasesNeedAvailable
<1>1. PartnersGuarded
        => \A r \in Requests :
             pc[r] = "insertPartnerCase" => partners[mem[r].partner] = "active"
  BY DEF PartnersGuarded, Guards
<1>2. PartnersGuarded /\ [Next]_vars
        => [\A r \in Requests :
              InsertCase(r) /\ pc[r] = "insertPartnerCase"
                => partners[mem[r].partner] = "active"]_vars
  BY <1>1
<1> QED BY <1>2, PartnersStayGuarded, PTL DEF Spec, PartnerCasesNeedAvailable
-----------------------------------------------------------------------------
(* Whatever r leaves without a history is what it works on, or was without one
   before and is not what r turns away from. *)
LeavesRecorded(r) ==
  \A k \in CaseKeys :
    cases'[k].state = "stored" /\ ~cases'[k].history
      => \/ AtWorkOn(r, k)'
         \/ /\ cases[k].state = "stored" /\ ~cases[k].history
            /\ AtWorkOn(r, k) => k \in died'

LEMMA LeavesRecordedKeeps ==
  ASSUME TypeOK, OpeningIsRecorded, NEW r \in Requests, NEW step, NEW held,
         Goto(r, step, held), LeavesRecorded(r), died \subseteq died'
  PROVE  OpeningIsRecorded'
<1> SUFFICES ASSUME NEW k \in CaseKeys, cases'[k].state = "stored",
                    ~cases'[k].history, k \notin died', ~AtWorkOn(r, k)'
             PROVE  \E q \in Requests : AtWorkOn(q, k)'
  BY DEF OpeningIsRecorded
<1>1. PICK q \in Requests : AtWorkOn(q, k)
  BY DEF OpeningIsRecorded, LeavesRecorded
<1>2. q # r
  BY <1>1 DEF LeavesRecorded
<1>3. pc'[q] = pc[q] /\ mem'[q] = mem[q]
  BY <1>2 DEF Goto, TypeOK
<1> QED BY <1>1, <1>3 DEF AtWorkOn

LEMMA ContinueRecorded ==
  ASSUME TypeOK, OpeningIsRecorded, NEW r \in Requests, Continue(r)
  PROVE  OpeningIsRecorded'
<1>1. CASE InsertCase(r)
  <2>1. PICK k \in CaseKeys :
          /\ cases' = [cases EXCEPT ![k] =
               [NoCase EXCEPT !.state = "stored", !.number = mem[r].number,
                              !.partner = mem[r].partner]]
          /\ Goto(r, "history", [Blank EXCEPT !.key = k])
    BY <1>1 DEF InsertCase
  <2>2. AtWorkOn(r, k)'
    <3>1. pc'[r] = "history" /\ mem'[r] = [Blank EXCEPT !.key = k]
      BY <2>1, GotoOne
    <3> QED BY <3>1 DEF AtWorkOn, Blank
  <2>3. \A l \in CaseKeys \ {k} : cases'[l] = cases[l]
    BY <2>1 DEF TypeOK
  <2>4. ~AtWorkOn(r, k) /\ \A l \in CaseKeys : ~AtWorkOn(r, l)
    BY <1>1 DEF InsertCase, Inserts, AtWorkOn
  <2> QED BY <1>1, <2>1, <2>2, <2>3, <2>4, LeavesRecordedKeeps
          DEF LeavesRecorded, InsertCase
<1>2. CASE WriteHistory(r)
  <2>1. \A l \in CaseKeys : l # mem[r].key => cases'[l] = cases[l]
    BY <1>2 DEF WriteHistory, TypeOK
  <2>2. mem[r].key \in CaseKeys
          => /\ cases'[mem[r].key].state = cases[mem[r].key].state
             /\ cases[mem[r].key].state = "stored" => cases'[mem[r].key].history
    BY <1>2 DEF WriteHistory, TypeOK, CaseRow, Stored
  <2>3. LeavesRecorded(r)
    BY <2>1, <2>2 DEF LeavesRecorded, AtWorkOn
  <2> QED BY <1>2, <2>3, LeavesRecordedKeeps DEF WriteHistory, Return
<1>3. CASE DeleteHistory(r)
  <2>1. \A l \in CaseKeys : l # mem[r].key => cases'[l] = cases[l]
    BY <1>3 DEF DeleteHistory, TypeOK
  <2>2. \A l \in CaseKeys :
          ~AtWorkOn(r, l) /\ (l = mem[r].key => AtWorkOn(r, l)')
    BY <1>3, GotoOne DEF DeleteHistory, AtWorkOn
  <2>3. LeavesRecorded(r)
    BY <2>1, <2>2 DEF LeavesRecorded
  <2> QED BY <1>3, <2>3, LeavesRecordedKeeps DEF DeleteHistory
<1>4. CASE DeleteCase(r)
  <2>1. \A l \in CaseKeys : l # mem[r].key => cases'[l] = cases[l]
    BY <1>4 DEF DeleteCase, TypeOK
  <2>2. mem[r].key \in CaseKeys => cases'[mem[r].key].state # "stored"
    BY <1>4 DEF DeleteCase, TypeOK, NoCase, Stored
  <2>3. LeavesRecorded(r)
    BY <2>1, <2>2 DEF LeavesRecorded, AtWorkOn
  <2> QED BY <1>4, <2>3, LeavesRecordedKeeps DEF DeleteCase, Return
<1>5. CASE SaveCase(r)
  <2>1. \A l \in CaseKeys :
          cases'[l].state = "stored"
            => cases[l].state = "stored" /\ cases'[l].history = cases[l].history
    BY <1>5 DEF SaveCase, Saved, TypeOK, CaseRow, NoCase, Stored
  <2>2. LeavesRecorded(r)
    BY <1>5, <2>1 DEF LeavesRecorded, AtWorkOn, SaveCase
  <2> QED BY <1>5, <2>2, LeavesRecordedKeeps DEF SaveCase, Return
<1>6. CASE Dispose(r)
  <2>1. \A l \in CaseKeys : cases'[l].state = cases[l].state
                            /\ cases'[l].history = cases[l].history
    BY <1>6 DEF Dispose, TypeOK, CaseRow
  <2>2. LeavesRecorded(r)
    BY <1>6, <2>1 DEF LeavesRecorded, AtWorkOn, Dispose
  <2> QED BY <1>6, <2>2, LeavesRecordedKeeps DEF Dispose, Return
<1>7. CASE \/ LockForCase(r) \/ InsertCaseFails(r) \/ SaveCaseFails(r)
           \/ ComparePartner(r) \/ WritePartner(r) \/ InsertPartner(r) \/ Count(r)
  <2>1. UNCHANGED <<cases, died>> /\ \A l : ~AtWorkOn(r, l)
    BY <1>7 DEF LockForCase, InsertCaseFails, Inserts, SaveCaseFails, ComparePartner,
                WritePartner, InsertPartner, Count, AtWorkOn
  <2>2. \E step, held : Goto(r, step, held)
    BY <1>7 DEF LockForCase, InsertCaseFails, SaveCaseFails, ComparePartner,
                WritePartner, InsertPartner, Count, Return
  <2>3. LeavesRecorded(r)
    BY <2>1 DEF LeavesRecorded
  <2> QED BY <2>1, <2>2, <2>3, LeavesRecordedKeeps
<1> QED BY <1>1, <1>2, <1>3, <1>4, <1>5, <1>6, <1>7 DEF Continue

LEMMA RecordedStep ==
  ASSUME TypeOK, OpeningIsRecorded, [Next]_vars
  PROVE  OpeningIsRecorded'
<1>1. CASE UNCHANGED vars
  BY <1>1 DEF vars, OpeningIsRecorded, AtWorkOn
<1>2. ASSUME NEW p \in Partners, CreatePartner(p) \/ Restore(p)
      PROVE  OpeningIsRecorded'
  BY <1>2 DEF CreatePartner, Restore, OpeningIsRecorded, AtWorkOn
<1>3. ASSUME NEW r \in Requests, Accept(r)
      PROVE  OpeningIsRecorded'
  <2> DEFINE Taken == /\ UNCHANGED <<cases, died>> /\ pc[r] = "idle"
                      /\ \E step, held : Goto(r, step, held)
  <2>1. ASSUME NEW p \in Partners \union {Nobody}, NEW ofPartner \in BOOLEAN,
               Create(r, ofPartner, p)
        PROVE  Taken
    BY <2>1 DEF Create
  <2>2. ASSUME NEW p \in Partners \union {Nobody}, NEW k \in CaseKeys,
               UpdateCase(r, k, p)
        PROVE  Taken
    BY <2>2 DEF UpdateCase
  <2>3. ASSUME NEW k \in CaseKeys, RemoveCase(r, k)
        PROVE  Taken
    BY <2>3 DEF RemoveCase
  <2>4. ASSUME NEW p \in Partners, UpdatePartner(r, p) \/ ArchiveOrDelete(r, p)
        PROVE  Taken
    BY <2>4 DEF UpdatePartner, ArchiveOrDelete
  <2>5. Taken
    <3> HIDE DEF Taken
    <3> QED BY <1>3, <2>1, <2>2, <2>3, <2>4 DEF Accept
  <2>6. LeavesRecorded(r)
    BY <2>5 DEF LeavesRecorded, AtWorkOn
  <2> QED BY <2>5, <2>6, LeavesRecordedKeeps
<1>4. ASSUME NEW r \in Requests, Abort(r)
      PROVE  OpeningIsRecorded'
  <2>1. UNCHANGED cases /\ died' = died \union {mem[r].key}
    BY <1>4 DEF Abort, Accident
  <2>2. LeavesRecorded(r)
    BY <2>1 DEF LeavesRecorded, AtWorkOn
  <2> QED BY <1>4, <2>1, <2>2, LeavesRecordedKeeps DEF Abort, Return
<1> QED BY <1>1, <1>2, <1>3, <1>4, ContinueRecorded DEF Next

(* A case without a history is being taken in or removed, unless a request died
   over it: whatever creations, edits and removals of cases interleave. *)
THEOREM OpeningsAreRecorded == Spec => []OpeningIsRecorded
<1>1. Init => OpeningIsRecorded
  BY DEF Init, OpeningIsRecorded, NoCase
<1> QED BY <1>1, RecordedStep, IntakeTypeCorrect, PTL DEF Spec
-----------------------------------------------------------------------------
(* As long as no case has been removed, the case under key k has number k, and a
   number drawn is the first one or follows that of a case. So if it is free
   when it is inserted, it is the next one still. *)
NoneRemoved == \A k \in CaseKeys : cases[k].state \in {"unused", "stored"}
RowsNumbered ==
  \A k \in CaseKeys :
    cases[k].state # "unused"
      => /\ cases[k].number = k
         /\ \A l \in CaseKeys : l < k => cases[l].state # "unused"
Drawn == {"lockForCase", "insertPartnerCase", "insertCase"}
Follows(n) == n = 1 \/ n - 1 \in StoredCases
NumbersFollow == \A r \in Requests : pc[r] \in Drawn => Follows(mem[r].number)
NumbersInv == NoneRemoved => RowsNumbered /\ NumbersFollow

LEMMA NextFollows ==
  ASSUME NoneRemoved, RowsNumbered
  PROVE  Follows(NextNumber) /\ NumberFree(NextNumber)
<1>1. CASE StoredCases = {}
  BY <1>1 DEF Follows, NextNumber, NumberFree
<1>2. CASE StoredCases # {}
  <2>1. Newest \in StoredCases /\ \A l \in StoredCases : l <= Newest
    BY <1>2, NewestIsStored
  <2>2. \A k \in StoredCases : k \in Int /\ cases[k].number = k
    BY IntakeAssumption DEF StoredCases, Stored, RowsNumbered, CaseKeys
  <2>3. NextNumber = Newest + 1
    BY <1>2, <2>1, <2>2 DEF NextNumber
  <2> HIDE DEF Newest
  <2> QED BY <2>1, <2>2, <2>3 DEF Follows, NumberFree
<1> QED BY <1>1, <1>2

(* A step that writes neither states nor numbers, and draws the next number if
   it draws one. *)
LEMMA SameRowsNumbered ==
  ASSUME TypeOK, NumbersInv, NEW r \in Requests, NEW step, NEW held,
         Goto(r, step, held),
         \A k \in CaseKeys : /\ cases'[k].state = cases[k].state
                             /\ cases'[k].number = cases[k].number,
         step \in Drawn
           => held.number = NextNumber \/ (pc[r] \in Drawn /\ held = mem[r])
  PROVE  NumbersInv'
<1> SUFFICES ASSUME NoneRemoved'
             PROVE  RowsNumbered' /\ NumbersFollow'
  BY DEF NumbersInv
<1>1. NoneRemoved /\ RowsNumbered /\ NumbersFollow
  BY DEF NumbersInv, NoneRemoved
<1>2. RowsNumbered'
  BY <1>1 DEF RowsNumbered
<1>3. StoredCases' = StoredCases
  BY DEF StoredCases, Stored
<1>4. \A n : Follows(n) => (n = 1 \/ n - 1 \in StoredCases')
  BY <1>3 DEF Follows
<1>5. ASSUME NEW q \in Requests, pc'[q] \in Drawn
      PROVE  Follows(mem[q].number)'
  <2>1. Follows(mem'[q].number)
    BY <1>1, <1>5, NextFollows DEF Goto, TypeOK, NumbersFollow
  <2> QED BY <1>3, <2>1 DEF Follows
<1> QED BY <1>2, <1>5 DEF NumbersFollow

LEMMA InsertNumbered ==
  ASSUME TypeOK, NumbersInv, NEW r \in Requests, InsertCase(r)
  PROVE  NumbersInv'
<1> SUFFICES ASSUME NoneRemoved'
             PROVE  RowsNumbered' /\ NumbersFollow'
  BY DEF NumbersInv
<1>1. PICK k \in CaseKeys :
        /\ NextKey(k)
        /\ cases' = [cases EXCEPT ![k] =
             [NoCase EXCEPT !.state = "stored", !.number = mem[r].number,
                            !.partner = mem[r].partner]]
        /\ Goto(r, "history", [Blank EXCEPT !.key = k])
  BY DEF InsertCase
<1>2. \A l \in CaseKeys \ {k} : cases'[l] = cases[l]
  BY <1>1 DEF TypeOK
<1>3. cases'[k].state = "stored" /\ cases'[k].number = mem[r].number
  BY <1>1 DEF TypeOK, NoCase
<1>4. NoneRemoved /\ RowsNumbered /\ NumbersFollow
  BY <1>1, <1>2 DEF NumbersInv, NoneRemoved, NextKey
<1>5. Follows(mem[r].number) /\ NumberFree(mem[r].number) /\ mem[r].number \in Nat
  BY <1>4, MemoryFields DEF InsertCase, Inserts, Drawn, NumbersFollow
<1>6. mem[r].number = k
  <2> DEFINE n == mem[r].number
  <2>1. k \in 1 .. MaxCases /\ MaxCases \in Nat
    BY IntakeAssumption DEF CaseKeys
  <2>2. \A l \in CaseKeys : l < k => l \in StoredCases /\ cases[l].number = l
    BY <1>1, <1>4 DEF NextKey, NoneRemoved, RowsNumbered, StoredCases, Stored
  <2>3. ~ (n < k)
    <3> SUFFICES ASSUME n < k, n \in CaseKeys
                 PROVE  FALSE
      <4>1. n # 0
        BY <1>5, <2>1 DEF Follows, StoredCases, CaseKeys
      <4> QED BY <1>5, <2>1, <4>1 DEF CaseKeys
    <3> QED BY <1>5, <2>2 DEF NumberFree
  <2>4. ~ (k < n)
    <3> SUFFICES ASSUME k < n
                 PROVE  FALSE
      OBVIOUS
    <3>1. n - 1 \in StoredCases
      BY <1>5, <2>1 DEF Follows
    <3>2. n - 1 \in CaseKeys /\ cases[n - 1].state # "unused"
      BY <3>1 DEF StoredCases, Stored
    <3>3. n - 1 = k \/ k < n - 1
      BY <1>5, <2>1
    <3> QED BY <1>1, <1>4, <3>2, <3>3 DEF NextKey, RowsNumbered
  <2> QED BY <1>5, <2>1, <2>3, <2>4
<1>7. RowsNumbered'
  <2> SUFFICES ASSUME NEW l \in CaseKeys, cases'[l].state # "unused"
               PROVE  /\ cases'[l].number = l
                      /\ \A m \in CaseKeys : m < l => cases'[m].state # "unused"
    BY DEF RowsNumbered
  <2>1. CASE l = k
    BY <1>1, <1>2, <1>3, <1>6, <2>1, IntakeAssumption DEF NextKey, CaseKeys
  <2>2. CASE l # k
    BY <1>2, <1>3, <1>4, <2>2 DEF RowsNumbered
  <2> QED BY <2>1, <2>2
<1>8. NumbersFollow'
  <2>1. StoredCases \subseteq StoredCases'
    BY <1>2, <1>3 DEF StoredCases, Stored
  <2>2. ASSUME NEW q \in Requests, pc'[q] \in Drawn
        PROVE  Follows(mem[q].number)'
    <3>1. q # r
      BY <1>1, <2>2, GotoOne DEF Drawn
    <3>2. pc'[q] = pc[q] /\ mem'[q] = mem[q]
      BY <1>1, <3>1 DEF Goto, TypeOK
    <3>3. Follows(mem'[q].number)
      BY <1>4, <2>2, <3>2 DEF NumbersFollow
    <3> QED BY <2>1, <3>3 DEF Follows
  <2> QED BY <2>2 DEF NumbersFollow
<1> QED BY <1>7, <1>8

LEMMA NumbersContinue ==
  ASSUME TypeOK, NumbersInv, NEW r \in Requests, Continue(r)
  PROVE  NumbersInv'
<1> DEFINE RowsStay == \A k \in CaseKeys : /\ cases'[k].state = cases[k].state
                                           /\ cases'[k].number = cases[k].number
<1>1. CASE InsertCase(r)
  BY <1>1, InsertNumbered
<1>2. CASE LockForCase(r)
  <2>1. RowsStay
    BY <1>2 DEF LockForCase
  <2> QED BY <1>2, <2>1, SameRowsNumbered DEF LockForCase, Drawn, Return
<1>3. CASE WriteHistory(r) \/ DeleteHistory(r) \/ Dispose(r)
  <2>1. RowsStay
    BY <1>3 DEF WriteHistory, DeleteHistory, Dispose, TypeOK, CaseRow
  <2>2. \E step, held : Goto(r, step, held) /\ step \notin Drawn
    BY <1>3 DEF WriteHistory, DeleteHistory, Dispose, Return, Drawn
  <2> QED BY <2>1, <2>2, SameRowsNumbered
<1>4. CASE SaveCase(r) \/ DeleteCase(r)
  <2>1. Return(r)
    BY <1>4 DEF SaveCase, DeleteCase
  <2>2. CASE RowsStay
    BY <2>1, <2>2, SameRowsNumbered DEF Return, Drawn
  <2>3. CASE ~RowsStay
    <3> DEFINE key == mem[r].key
    <3>1. PICK row : cases' = [cases EXCEPT ![key] = row]
      BY <1>4 DEF SaveCase, DeleteCase
    <3>2. key \in CaseKeys
      BY <2>3, <3>1 DEF TypeOK
    <3>3. CASE Stored(key) /\ SaveCase(r)
      <4>1. cases' = [cases EXCEPT ![key] =
                       [cases[key] EXCEPT !.partner = mem[r].partner]]
        BY <3>3 DEF SaveCase, Saved
      <4>2. cases[key] \in CaseRow
        BY <3>2 DEF TypeOK
      <4> QED BY <2>3, <4>1, <4>2 DEF TypeOK, CaseRow
    <3>4. CASE Stored(key) /\ DeleteCase(r)
      <4>1. cases'[key].state = "removed"
        BY <3>2, <3>4 DEF DeleteCase, TypeOK, NoCase
      <4> QED BY <3>2, <4>1 DEF NumbersInv, NoneRemoved
    <3>5. CASE ~Stored(key) /\ SaveCase(r)
      <4>1. cases'[key].state = "revived"
        BY <3>2, <3>5 DEF SaveCase, Saved, TypeOK, NoCase
      <4> QED BY <3>2, <4>1 DEF NumbersInv, NoneRemoved
    <3>6. CASE ~Stored(key) /\ DeleteCase(r)
      BY <2>3, <3>6 DEF DeleteCase, TypeOK
    <3> QED BY <1>4, <3>3, <3>4, <3>5, <3>6
  <2> QED BY <2>2, <2>3
<1>5. CASE \/ InsertCaseFails(r) \/ SaveCaseFails(r) \/ ComparePartner(r)
           \/ WritePartner(r) \/ InsertPartner(r) \/ Count(r)
  <2>1. RowsStay
    BY <1>5 DEF InsertCaseFails, SaveCaseFails, ComparePartner, WritePartner,
                InsertPartner, Count
  <2>2. \E step, held : Goto(r, step, held) /\ step \notin Drawn
    BY <1>5 DEF InsertCaseFails, SaveCaseFails, ComparePartner, WritePartner,
                InsertPartner, Count, Return, Drawn
  <2> QED BY <2>1, <2>2, SameRowsNumbered
<1> QED BY <1>1, <1>2, <1>3, <1>4, <1>5 DEF Continue

LEMMA NumbersStep ==
  ASSUME TypeOK, NumbersInv, [Next]_vars
  PROVE  NumbersInv'
<1>1. CASE UNCHANGED vars
  BY <1>1 DEF vars, NumbersInv, NoneRemoved, RowsNumbered, NumbersFollow, Follows,
              StoredCases, Stored
<1>2. ASSUME NEW p \in Partners, CreatePartner(p) \/ Restore(p)
      PROVE  NumbersInv'
  BY <1>2 DEF CreatePartner, Restore, NumbersInv, NoneRemoved, RowsNumbered,
              NumbersFollow, Follows, StoredCases, Stored
<1>3. ASSUME NEW r \in Requests, Abort(r)
      PROVE  NumbersInv'
  BY <1>3, SameRowsNumbered DEF Abort, Return, Drawn
<1>4. ASSUME NEW r \in Requests, Accept(r)
      PROVE  NumbersInv'
  <2>1. ASSUME NEW p \in Partners \union {Nobody}, NEW ofPartner \in BOOLEAN,
               Create(r, ofPartner, p)
        PROVE  NumbersInv'
    <3>1. [Blank EXCEPT !.number = NextNumber, !.partner = p].number = NextNumber
      BY DEF Blank
    <3>2. PICK step, held : Goto(r, step, held) /\ held.number = NextNumber
      BY <2>1, <3>1 DEF Create
    <3>3. \A k \in CaseKeys : /\ cases'[k].state = cases[k].state
                              /\ cases'[k].number = cases[k].number
      BY <2>1 DEF Create
    <3>4. step \in Drawn
            => held.number = NextNumber \/ (pc[r] \in Drawn /\ held = mem[r])
      BY <3>2
    <3> HIDE <3>1
    <3> QED BY <3>2, <3>3, <3>4, SameRowsNumbered, Zenon
  <2>2. ASSUME NEW p \in Partners \union {Nobody}, NEW k \in CaseKeys,
               UpdateCase(r, k, p)
        PROVE  NumbersInv'
    BY <2>2, SameRowsNumbered DEF UpdateCase, Drawn
  <2>3. ASSUME NEW k \in CaseKeys, RemoveCase(r, k)
        PROVE  NumbersInv'
    BY <2>3, SameRowsNumbered DEF RemoveCase, Drawn
  <2>4. ASSUME NEW p \in Partners, UpdatePartner(r, p) \/ ArchiveOrDelete(r, p)
        PROVE  NumbersInv'
    BY <2>4, SameRowsNumbered DEF UpdatePartner, ArchiveOrDelete, Drawn
  <2> QED BY <1>4, <2>1, <2>2, <2>3, <2>4 DEF Accept
<1> QED BY <1>1, <1>2, <1>3, <1>4, NumbersContinue DEF Next

(* As long as no case has been removed, a later case has a larger number and the
   next number is free, however many intakes drew one at once. *)
THEOREM NumberingContinues == Spec => []NumberingGoesOn
<1>1. Init => NumbersInv
  BY DEF Init, NumbersInv, RowsNumbered, NumbersFollow, NoCase, Drawn
<1>2. ASSUME NumbersInv PROVE NumberingGoesOn
  <2> SUFFICES ASSUME NoneRemoved
               PROVE  /\ \A k, l \in StoredCases :
                           k < l => cases[k].number < cases[l].number
                      /\ NumberFree(NextNumber)
    BY DEF NumberingGoesOn, NoneRemoved
  <2>1. \A k \in StoredCases : cases[k].number = k
    BY <1>2 DEF NumbersInv, RowsNumbered, StoredCases, Stored
  <2> QED BY <1>2, <2>1, NextFollows DEF NumbersInv
<1> QED BY <1>1, <1>2, NumbersStep, IntakeTypeCorrect, PTL DEF Spec
=============================================================================
