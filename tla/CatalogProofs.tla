---------------------------- MODULE CatalogProofs ----------------------------
(***************************************************************************)
(* What holds of the supplier's catalogue for every number of jobs, timer  *)
(* passes, starters, administrators, items and pages: types, that a job is *)
(* unfinished exactly while a pass works on it, and that the sync makes    *)
(* one product of an item as long as one job at a time is unfinished,      *)
(* which a single administrator's calls see to. Every step of a job brings *)
(* it nearer to its end.                                                   *)
(***************************************************************************)
EXTENDS CatalogSync, TLAPS

-----------------------------------------------------------------------------
(* Where the parts of the state start from. *)
LEMMA BlankType == Blank \in ShopProduct
<1>1. (CHOOSE i \in Items : TRUE) \in Items /\ (CHOOSE o \in Offers : TRUE) \in Offers
  BY CatalogAssumption
<1> QED BY <1>1 DEF Blank, ShopProduct

LEMMA OffType == Off \in Pass
<1>1. 1 \in Pages /\ 0 \in 0 .. MaxProducts
  BY CatalogAssumption DEF Pages
<1>2. Blank.item \in Items /\ Blank.offer \in Offers
  BY BlankType DEF ShopProduct
<1> QED BY <1>1, <1>2, BlankType DEF Off, Pass, Steps, Kinds, Modes

LEMMA CallTypes == NoCall \in Call /\ Done \in Call
<1>1. 0 \in 0 .. MaxProducts
  BY CatalogAssumption
<1>2. NoCall \in Call
  BY <1>1, BlankType DEF NoCall, Call
<1> QED BY <1>2 DEF Done, Call

(* What a pass holds, field by field. *)
LEMMA PassFields ==
  ASSUME TypeOK, NEW w \in Passes
  PROVE  /\ pass[w] \in Pass
         /\ pass[w].kind \in Kinds /\ pass[w].offer \in Offers
         /\ pass[w].item \in Items /\ pass[w].row \in ShopProduct
         /\ pass[w].page \in Pages /\ pass[w].pages \in Pages
  BY DEF TypeOK, Pass

(* A row written over by what a pass or an administrator saves is a row. *)
LEMMA SaveType ==
  ASSUME TypeOK, NEW id, NEW e \in ShopProduct, Save(id, e)
  PROVE  products' \in [Ids -> ShopProduct]
<1>1. ASSUME NEW state \in {"unused", "stored", "deleted", "revived"}
      PROVE  [e EXCEPT !.state = state] \in ShopProduct
  BY DEF ShopProduct
<1>2. id \in Ids => (IF Stored(id) THEN products[id].state ELSE "revived")
                      \in {"unused", "stored", "deleted", "revived"}
  BY DEF TypeOK, ShopProduct
<1>3. id \in Ids => [e EXCEPT !.state = IF Stored(id) THEN products[id].state
                                                      ELSE "revived"]
                      \in ShopProduct
  BY <1>1, <1>2
<1>4. products \in [Ids -> ShopProduct]
  BY DEF TypeOK
<1> QED BY <1>3, <1>4 DEF Save

(* The rest of a pass is a pass. *)
LEMMA AfterType ==
  ASSUME TypeOK, NEW w \in Passes
  PROVE  After(w) \in Pass
<1>1. CASE pass[w].page < pass[w].pages
  <2>1. pass[w].page + 1 \in Pages
    BY <1>1, PassFields, CatalogAssumption DEF Pages
  <2>2. [Off EXCEPT !.pc = "fetch", !.kind = pass[w].kind,
                    !.page = pass[w].page + 1, !.pages = pass[w].pages] \in Pass
    BY <2>1, OffType, PassFields DEF Pass, Steps
  <2> QED BY <1>1, <2>2 DEF After
<1>2. CASE ~(pass[w].page < pass[w].pages)
  <2>1. [Off EXCEPT !.pc = "finish"] \in Pass
    BY OffType DEF Pass, Steps
  <2> QED BY <1>2, <2>1, OffType DEF After
<1> QED BY <1>1, <1>2

LEMMA NextItemType ==
  ASSUME TypeOK, NEW w \in Passes, NextItem(w)
  PROVE  pass' \in [Passes -> Pass]
  BY AfterType DEF NextItem, TypeOK
-----------------------------------------------------------------------------
(* A step of the loop over pages and items keeps the types. *)
LEMMA WorkType ==
  ASSUME TypeOK, NEW w \in Passes, Work(w)
  PROVE  TypeOK'
<1>1. CASE Fetch(w)
  <2>1. ASSUME NEW i \in Items, NEW o \in Offers,
               pass' = [pass EXCEPT ![w].pc = "find", ![w].item = i,
                                    ![w].offer = o, ![w].pages = MaxPages]
        PROVE  pass' \in [Passes -> Pass]
    <3>1. MaxPages \in Pages
      BY CatalogAssumption DEF Pages
    <3>2. [pass[w] EXCEPT !.pc = "find", !.item = i, !.offer = o, !.pages = MaxPages]
            \in Pass
      BY <3>1, PassFields DEF Pass, Steps
    <3>3. pass' = [pass EXCEPT ![w] = [pass[w] EXCEPT
             !.pc = "find", !.item = i, !.offer = o, !.pages = MaxPages]]
      BY <2>1, Zenon DEF TypeOK
    <3> QED BY <3>2, <3>3 DEF TypeOK
  <2> QED BY <1>1, <2>1, NextItemType DEF Fetch, TypeOK
<1>2. CASE Find(w)
  <2>1. ASSUME NEW id \in RowsOf(pass[w].item),
               pass' = [pass EXCEPT ![w].pc = "update", ![w].id = id,
                                    ![w].row = ForUpdate(products[id])]
        PROVE  pass' \in [Passes -> Pass]
    <3>1. id \in Ids /\ id \in 0 .. MaxProducts
      BY DEF RowsOf, Ids
    <3>2. products[id].active \in BOOLEAN
      BY <3>1 DEF TypeOK, ShopProduct
    <3>3. ForUpdate(products[id]) \in ShopProduct
      BY <3>2, BlankType DEF ForUpdate, ShopProduct
    <3>4. [pass[w] EXCEPT !.pc = "update", !.id = id,
                          !.row = ForUpdate(products[id])] \in Pass
      BY <3>1, <3>3, PassFields DEF Pass, Steps
    <3>5. pass' = [pass EXCEPT ![w] = [pass[w] EXCEPT
             !.pc = "update", !.id = id, !.row = ForUpdate(products[id])]]
      BY <2>1, Zenon DEF TypeOK
    <3> QED BY <3>4, <3>5 DEF TypeOK
  <2>2. ASSUME pass' = [pass EXCEPT ![w].pc = "look"]
        PROVE  pass' \in [Passes -> Pass]
    BY <2>2, PassFields DEF TypeOK, Pass, Steps
  <2>3. pass' \in [Passes -> Pass]
    BY <1>2, <2>1, <2>2, NextItemType DEF Find
  <2> QED BY <1>2, <2>3 DEF Find, TypeOK
<1>3. CASE Update(w)
  <2>1. ASSUME NEW id \in Ids
        PROVE  Refreshed(products[id], w) \in ShopProduct
    <3>1. pass[w].row.active \in BOOLEAN
      BY PassFields DEF ShopProduct
    <3> QED BY <3>1, PassFields DEF Refreshed, TypeOK, ShopProduct
  <2>2. products' \in [Ids -> ShopProduct]
    BY <1>3, <2>1 DEF Update, TypeOK
  <2> QED BY <1>3, <2>2, NextItemType DEF Update, TypeOK
<1>4. CASE GiveUpItem(w)
  BY <1>4, NextItemType DEF GiveUpItem, TypeOK
<1>5. CASE Throw(w)
  <2>1. [Off EXCEPT !.pc = "fail"] \in Pass
    BY OffType DEF Pass, Steps
  <2> QED BY <1>5, <2>1, OffType DEF Throw, TypeOK
<1>6. CASE LookAgain(w)
  <2>1. ASSUME NEW id \in RowsOf(pass[w].item),
               pass' = [pass EXCEPT ![w].pc = "save", ![w].id = id,
                 ![w].row = [products[id] EXCEPT !.offer = pass[w].offer,
                                                 !.trashed = FALSE]]
        PROVE  pass' \in [Passes -> Pass]
    <3>1. id \in Ids /\ id \in 0 .. MaxProducts
      BY DEF RowsOf, Ids
    <3>2. [products[id] EXCEPT !.offer = pass[w].offer, !.trashed = FALSE]
            \in ShopProduct
      BY <3>1, PassFields DEF TypeOK, ShopProduct
    <3> DEFINE row == [products[id] EXCEPT !.offer = pass[w].offer, !.trashed = FALSE]
    <3>3. [pass[w] EXCEPT !.pc = "save", !.id = id, !.row = row] \in Pass
      BY <3>1, <3>2, PassFields DEF Pass, Steps
    <3>4. pass' = [pass EXCEPT ![w] =
             [pass[w] EXCEPT !.pc = "save", !.id = id, !.row = row]]
      BY <2>1, Zenon DEF TypeOK
    <3> QED BY <3>3, <3>4 DEF TypeOK
  <2>2. ASSUME pass' = [pass EXCEPT ![w].pc = "insert"]
        PROVE  pass' \in [Passes -> Pass]
    BY <2>2, PassFields DEF TypeOK, Pass, Steps
  <2> QED BY <1>6, <2>1, <2>2 DEF LookAgain, TypeOK
<1>7. CASE Insert(w)
  <2>1. Imported(pass[w].offer, pass[w].item) \in ShopProduct
    BY BlankType, PassFields DEF Imported, ShopProduct
  <2>2. products' \in [Ids -> ShopProduct]
    BY <1>7, <2>1 DEF Insert, TypeOK
  <2> QED BY <1>7, <2>2, NextItemType DEF Insert, TypeOK
<1>8. CASE SaveItem(w)
  BY <1>8, SaveType, PassFields, NextItemType DEF SaveItem, TypeOK
<1> QED BY <1>1, <1>2, <1>3, <1>4, <1>5, <1>6, <1>7, <1>8 DEF Work

(* So does the life of a job around it. *)
LEMMA JobType ==
  ASSUME TypeOK, NEW j \in Jobs, BeginJob(j) \/ EndJob(j)
  PROVE  TypeOK'
<1>1. j \in Passes /\ {"running", "completed", "failed"} \subseteq JobStatus
  BY DEF Passes, JobStatus, Unfinished
<1>2. jobs' \in [Jobs -> JobStatus]
  BY <1>1 DEF BeginJob, EndJob, TypeOK
<1>3. pass' \in [Passes -> Pass]
  <2>1. [pass[j] EXCEPT !.pc = "fetch"] \in Pass
    BY <1>1, PassFields DEF Pass, Steps
  <2> QED BY <1>1, <2>1, OffType DEF BeginJob, EndJob, TypeOK
<1> QED BY <1>2, <1>3 DEF BeginJob, EndJob, TypeOK

LEMMA StarterType ==
  ASSUME TypeOK, NEW s \in Starters, Look(s) \/ Queue(s)
  PROVE  TypeOK'
<1>1. CASE Look(s)
  BY <1>1 DEF Look, TypeOK
<1>2. CASE Queue(s)
  <2>1. PICK j \in Jobs, mode \in Modes :
          /\ jobs' = [jobs EXCEPT ![j] = "queued"]
          /\ pass' = [pass EXCEPT ![j] = [Off EXCEPT !.pc = "begin", !.kind = mode]]
    BY <1>2 DEF Queue
  <2>2. [Off EXCEPT !.pc = "begin", !.kind = mode] \in Pass
    BY OffType DEF Pass, Steps, Kinds
  <2>3. jobs' \in [Jobs -> JobStatus] /\ pass' \in [Passes -> Pass]
    BY <2>1, <2>2 DEF TypeOK, JobStatus, Unfinished
  <2> QED BY <1>2, <2>3 DEF Queue, TypeOK
<1> QED BY <1>1, <1>2

(* Refreshes that no job runs. *)
LEMMA RefresherType ==
  ASSUME TypeOK, NEW a \in Refreshers, Tick(a) \/ \E id \in Ids : Choose(a, id)
  PROVE  TypeOK'
<1>0. a \in Passes
  BY DEF Passes
<1>1. CASE Tick(a)
  <2>1. [pass[a] EXCEPT !.pc = "fetch", !.kind = "timer"] \in Pass
    BY <1>0, PassFields DEF Pass, Steps, Kinds
  <2>2. pass' = [pass EXCEPT ![a] = [pass[a] EXCEPT !.pc = "fetch", !.kind = "timer"]]
    BY <1>1, Zenon DEF Tick, TypeOK
  <2> QED BY <1>1, <2>1, <2>2 DEF Tick, TypeOK
<1>2. ASSUME NEW id \in Ids, Choose(a, id)
      PROVE  TypeOK'
  <2>1. PICK o \in Offers : pass' = [pass EXCEPT ![a] = [Off EXCEPT
          !.pc = "update", !.kind = "chosen", !.id = id, !.offer = o,
          !.row = ForUpdate(products[id])]]
    BY <1>2 DEF Choose
  <2>2. products[id].active \in BOOLEAN
    BY DEF TypeOK, ShopProduct
  <2>3. ForUpdate(products[id]) \in ShopProduct /\ id \in 0 .. MaxProducts
    BY <2>2, BlankType DEF ForUpdate, ShopProduct, Ids
  <2>4. [Off EXCEPT !.pc = "update", !.kind = "chosen", !.id = id, !.offer = o,
           !.row = ForUpdate(products[id])] \in Pass
    BY <2>3, OffType DEF Pass, Steps, Kinds
  <2> QED BY <1>2, <2>1, <2>4 DEF Choose, TypeOK
<1> QED BY <1>1, <1>2

(* Administrators, on the rows themselves and by what they load and save. *)
LEMMA AdminType ==
  ASSUME TypeOK, NEW a \in Admins, SaveEdit(a) \/ \E id \in Ids : Edit(a, id)
  PROVE  TypeOK'
<1>1. CASE SaveEdit(a)
  <2>1. admin[a].row \in ShopProduct
    BY DEF TypeOK, Call
  <2>2. products' \in [Ids -> ShopProduct]
    BY <1>1, <2>1, SaveType DEF SaveEdit
  <2>3. admin' \in [Admins -> Call]
    BY <1>1, CallTypes DEF SaveEdit, TypeOK
  <2> QED BY <1>1, <2>2, <2>3 DEF SaveEdit, TypeOK
<1>2. ASSUME NEW id \in Ids, Edit(a, id)
      PROVE  TypeOK'
  <2>1. PICK e \in EditedRows(products[id]) : admin' = [admin EXCEPT ![a] =
          [NoCall EXCEPT !.pc = "save", !.id = id, !.row = e]]
    BY <1>2 DEF Edit
  <2>2. products[id] \in ShopProduct
    BY DEF TypeOK
  <2>3. e \in ShopProduct
    <3>1. \A o \in Offers :
            [products[id] EXCEPT !.offer = o, !.edited = TRUE] \in ShopProduct
      BY <2>2 DEF ShopProduct
    <3>2. \A b \in BOOLEAN :
            /\ [products[id] EXCEPT !.active = b] \in ShopProduct
            /\ [products[id] EXCEPT !.trashed = b] \in ShopProduct
      BY <2>2 DEF ShopProduct
    <3> QED BY <3>1, <3>2 DEF EditedRows
  <2>4. [NoCall EXCEPT !.pc = "save", !.id = id, !.row = e] \in Call
    <3>1. id \in 0 .. MaxProducts
      BY CatalogAssumption DEF Ids
    <3> QED BY <2>3, <3>1 DEF NoCall, Call
  <2> QED BY <1>2, <2>1, <2>4 DEF Edit, TypeOK
<1> QED BY <1>1, <1>2

LEMMA DeleteType ==
  ASSUME TypeOK, NEW id \in Ids, Delete(id)
  PROVE  TypeOK'
<1>1. [Blank EXCEPT !.state = "deleted"] \in ShopProduct
  BY BlankType DEF ShopProduct
<1> QED BY <1>1 DEF Delete, TypeOK

LEMMA RestartType ==
  ASSUME TypeOK, Restart
  PROVE  TypeOK'
<1>1. \A j \in Jobs : GivenUp(jobs[j]) \in JobStatus
  BY DEF TypeOK, GivenUp, JobStatus
<1>2. \A a \in Admins : (IF admin[a].pc = "save" THEN Done ELSE admin[a]) \in Call
  BY CallTypes DEF TypeOK
<1> QED BY <1>1, <1>2, OffType DEF Restart, TypeOK

LEMMA TypeStep ==
  ASSUME TypeOK, [Next]_vars
  PROVE  TypeOK'
<1>1. CASE UNCHANGED vars
  BY <1>1 DEF vars, TypeOK
<1>2. Jobs \subseteq Passes /\ Refreshers \subseteq Passes
  BY DEF Passes
<1> QED BY <1>1, <1>2, WorkType, JobType, StarterType, RefresherType, AdminType,
           DeleteType, RestartType DEF Next, Run

(* Every reachable state is well typed. *)
THEOREM CatalogTypeCorrect == Spec => []TypeOK
<1>1. Init => TypeOK
  BY BlankType, OffType, CallTypes DEF Init, TypeOK, JobStatus
<1> QED BY <1>1, TypeStep, PTL DEF Spec
-----------------------------------------------------------------------------
(* The loop goes on until the end of the job. *)
LEMMA WorkKeepsOthers ==
  ASSUME TypeOK, NEW w \in Passes, Work(w)
  PROVE  /\ UNCHANGED jobs
         /\ \A v \in Passes \ {w} : pass'[v] = pass[v]
         /\ w \in Jobs => pass[w].pc # "off" /\ pass'[w].pc # "off"
<1>1. w \in Jobs => After(w).pc # "off"
  BY OffType DEF After, Pass
<1>2. [Off EXCEPT !.pc = "fail"].pc = "fail"
  BY OffType DEF Pass
<1>3. pass[w] \in Pass
  BY PassFields
<1>4. UNCHANGED jobs
  BY DEF Work, Fetch, Find, Update, GiveUpItem, Throw, LookAgain, Insert, SaveItem
<1>5. \A v \in Passes \ {w} : pass'[v] = pass[v]
  BY DEF Work, Fetch, Find, Update, GiveUpItem, Throw, LookAgain, Insert, SaveItem,
         NextItem, TypeOK
<1>6. ASSUME w \in Jobs
      PROVE  pass'[w].pc # "off"
  <2>1. CASE NextItem(w)
    BY <1>1, <1>6, <2>1 DEF NextItem, TypeOK
  <2>2. CASE Throw(w)
    BY <1>2, <1>6, <2>2 DEF Throw, TypeOK
  <2>3. CASE ~NextItem(w) /\ ~Throw(w)
    <3>1. CASE Fetch(w)
      <4>1. PICK i \in Items, o \in Offers :
              pass' = [pass EXCEPT ![w].pc = "find", ![w].item = i,
                                   ![w].offer = o, ![w].pages = MaxPages]
        BY <2>3, <3>1 DEF Fetch
      <4>2. pass' = [pass EXCEPT ![w] = [pass[w] EXCEPT
               !.pc = "find", !.item = i, !.offer = o, !.pages = MaxPages]]
        BY <4>1, Zenon DEF TypeOK
      <4> QED BY <4>2, <1>3 DEF TypeOK, Pass
    <3>2. CASE Find(w)
      <4>1. CASE pass' = [pass EXCEPT ![w].pc = "look"]
        BY <4>1, <1>3 DEF TypeOK, Pass
      <4>2. ASSUME NEW id \in RowsOf(pass[w].item),
                   pass' = [pass EXCEPT ![w].pc = "update", ![w].id = id,
                                        ![w].row = ForUpdate(products[id])]
            PROVE  pass'[w].pc # "off"
        <5>1. pass' = [pass EXCEPT ![w] = [pass[w] EXCEPT
                 !.pc = "update", !.id = id, !.row = ForUpdate(products[id])]]
          BY <4>2, Zenon DEF TypeOK
        <5> QED BY <5>1, <1>3 DEF TypeOK, Pass
      <4> QED BY <2>3, <3>2, <4>1, <4>2 DEF Find
    <3>3. CASE LookAgain(w)
      <4>1. CASE pass' = [pass EXCEPT ![w].pc = "insert"]
        BY <4>1, <1>3 DEF TypeOK, Pass
      <4>2. ASSUME NEW id \in RowsOf(pass[w].item), NEW row,
                   pass' = [pass EXCEPT ![w].pc = "save", ![w].id = id,
                                        ![w].row = row]
            PROVE  pass'[w].pc # "off"
        <5>1. pass' = [pass EXCEPT ![w] =
                 [pass[w] EXCEPT !.pc = "save", !.id = id, !.row = row]]
          BY <4>2, Zenon DEF TypeOK
        <5> QED BY <5>1, <1>3 DEF TypeOK, Pass
      <4> QED BY <2>3, <3>3, <4>1, <4>2 DEF LookAgain
    <3> QED BY <2>3, <3>1, <3>2, <3>3 DEF Work, Update, GiveUpItem, Insert, SaveItem
  <2> QED BY <2>1, <2>2, <2>3
<1>7. pass[w].pc # "off"
  BY DEF Work, Fetch, Find, Update, GiveUpItem, Throw, LookAgain, Insert, SaveItem
<1> QED BY <1>4, <1>5, <1>6, <1>7

LEMMA JobsRunStep ==
  ASSUME TypeOK, UnfinishedJobsRun, [Next]_vars
  PROVE  UnfinishedJobsRun'
<1>0. Jobs \subseteq Passes /\ Refreshers \subseteq Passes \ Jobs
  BY CatalogAssumption DEF Passes
<1>1. CASE UNCHANGED vars
  BY <1>1 DEF vars, UnfinishedJobsRun
<1>2. ASSUME NEW w \in Passes, Work(w)
      PROVE  UnfinishedJobsRun'
  BY <1>0, <1>2, WorkKeepsOthers DEF UnfinishedJobsRun
<1>3. ASSUME NEW j \in Jobs, BeginJob(j)
      PROVE  UnfinishedJobsRun'
  BY <1>0, <1>3 DEF BeginJob, UnfinishedJobsRun, Unfinished, TypeOK, Pass
<1>4. ASSUME NEW j \in Jobs, EndJob(j)
      PROVE  UnfinishedJobsRun'
  BY <1>0, <1>4, OffType DEF EndJob, UnfinishedJobsRun, Unfinished, TypeOK, Off
<1>5. ASSUME NEW s \in Starters, Queue(s)
      PROVE  UnfinishedJobsRun'
  <2>1. PICK j \in Jobs, mode \in Modes :
          /\ jobs' = [jobs EXCEPT ![j] = "queued"]
          /\ pass' = [pass EXCEPT ![j] = [Off EXCEPT !.pc = "begin", !.kind = mode]]
    BY <1>5 DEF Queue
  <2>2. [Off EXCEPT !.pc = "begin", !.kind = mode].pc = "begin"
    BY OffType DEF Pass
  <2> QED BY <1>0, <2>1, <2>2 DEF UnfinishedJobsRun, Unfinished, TypeOK
<1>6. ASSUME NEW s \in Starters, Look(s)
      PROVE  UnfinishedJobsRun'
  BY <1>6 DEF Look, UnfinishedJobsRun
<1>7. ASSUME NEW a \in Refreshers, Tick(a) \/ \E id \in Ids : Choose(a, id)
      PROVE  UnfinishedJobsRun'
  <2>1. UNCHANGED jobs /\ \A j \in Jobs : pass'[j] = pass[j]
    BY <1>0, <1>7 DEF Tick, Choose, TypeOK
  <2> QED BY <2>1 DEF UnfinishedJobsRun
<1>8. ASSUME NEW a \in Admins, SaveEdit(a) \/ \E id \in Ids : Edit(a, id)
      PROVE  UnfinishedJobsRun'
  BY <1>8 DEF SaveEdit, Edit, UnfinishedJobsRun
<1>9. ASSUME NEW id \in Ids, Delete(id)
      PROVE  UnfinishedJobsRun'
  BY <1>9 DEF Delete, UnfinishedJobsRun
<1>10. CASE Restart
  BY <1>0, <1>10 DEF Restart, UnfinishedJobsRun, GivenUp, Unfinished, Off
<1> QED BY <1>0, <1>1, <1>2, <1>3, <1>4, <1>5, <1>6, <1>7, <1>8, <1>9, <1>10
        DEF Next, Run

(* No job is left unfinished without a pass that works on it, and no pass works
   on a finished one, whatever fails and however often the process restarts. *)
THEOREM JobsStayManned == Spec => []UnfinishedJobsRun
<1>1. Init => UnfinishedJobsRun
  <2>1. Off.pc = "off"
    BY DEF Off
  <2>2. Init => \A j \in Jobs : jobs[j] = "none" /\ pass[j] = Off
    BY DEF Init, Passes
  <2> QED BY <2>1, <2>2 DEF UnfinishedJobsRun, Unfinished
<1> QED BY <1>1, JobsRunStep, CatalogTypeCorrect, PTL DEF Spec
-----------------------------------------------------------------------------
(* How many steps a pass has left at most: a page takes a few, and no step
   goes back to a page. *)
StepsLeft(pc) ==
  CASE pc = "begin" -> 6
    [] pc = "fetch" -> 5
    [] pc = "find" -> 4
    [] pc = "look" -> 3
    [] OTHER -> 2
Left(p) ==
  IF p.pc = "off" THEN 0
  ELSE IF p.pc \in {"finish", "fail"} THEN 1
  ELSE 8 * (MaxPages - p.page) + StepsLeft(p.pc)

LEMMA LeftIsNat == \A p \in Pass : Left(p) \in Nat
  BY CatalogAssumption DEF Left, StepsLeft, Pass, Pages

(* The next page or the end is nearer than any step of this page. *)
LEMMA NextItemNearer ==
  ASSUME TypeOK, NEW j \in Jobs, NextItem(j),
         pass[j].pc \notin {"off", "begin", "finish", "fail"}
  PROVE  Left(pass'[j]) < Left(pass[j])
<1>1. j \in Passes
  BY DEF Passes
<1>2. pass'[j] = After(j) /\ pass[j] \in Pass
  BY <1>1, PassFields DEF NextItem, TypeOK
<1>3. Left(pass[j]) = 8 * (MaxPages - pass[j].page) + StepsLeft(pass[j].pc)
  BY DEF Left
<1>4. StepsLeft(pass[j].pc) \in Nat /\ StepsLeft(pass[j].pc) >= 2
  BY DEF StepsLeft
<1>5. /\ pass[j].page \in Nat /\ pass[j].pages \in Nat /\ MaxPages \in Nat
      /\ pass[j].page <= MaxPages /\ pass[j].pages <= MaxPages
  BY <1>1, PassFields, CatalogAssumption DEF Pages
<1>6. CASE pass[j].page < pass[j].pages
  <2> DEFINE next == [Off EXCEPT !.pc = "fetch", !.kind = pass[j].kind,
                                 !.page = pass[j].page + 1, !.pages = pass[j].pages]
  <2>1. next.pc = "fetch" /\ next.page = pass[j].page + 1
    BY DEF Off
  <2>2. After(j) = next
    BY <1>6 DEF After
  <2> HIDE DEF next
  <2>3. Left(next) = 8 * (MaxPages - (pass[j].page + 1)) + 5
    BY <2>1 DEF Left, StepsLeft
  <2> QED BY <1>2, <1>3, <1>4, <1>5, <2>2, <2>3
<1>7. CASE ~(pass[j].page < pass[j].pages)
  <2>1. [Off EXCEPT !.pc = "finish"].pc = "finish"
    BY DEF Off
  <2>2. Left(After(j)) = 1
    BY <1>7, <2>1 DEF After, Left
  <2> QED BY <1>2, <1>3, <1>4, <1>5, <2>2
<1> QED BY <1>6, <1>7

(* A step of a page that stays on it is nearer to its end. *)
LEMMA SamePageNearer ==
  ASSUME NEW p \in Pass, NEW q \in Pass, p.page = q.page,
         p.pc \notin {"off", "finish", "fail"}, q.pc \notin {"off", "finish", "fail"},
         StepsLeft(q.pc) < StepsLeft(p.pc)
  PROVE  Left(q) < Left(p)
<1>1. p.page \in Nat /\ MaxPages \in Nat
  BY CatalogAssumption DEF Pass, Pages
<1>2. StepsLeft(p.pc) \in Nat /\ StepsLeft(q.pc) \in Nat
  BY DEF StepsLeft
<1> QED BY <1>1, <1>2 DEF Left

(* Every step of a job brings it nearer to its end. *)
LEMMA RunNearer ==
  ASSUME TypeOK, NEW j \in Jobs, Run(j), TypeOK'
  PROVE  Left(pass'[j]) < Left(pass[j])
<1>1. j \in Passes /\ pass[j] \in Pass /\ pass'[j] \in Pass
  BY DEF Passes, TypeOK
<1>2. ASSUME NEW pc \in Steps, pass' = [pass EXCEPT ![j].pc = pc],
             pass[j].pc \notin {"off", "finish", "fail"},
             pc \notin {"off", "finish", "fail"},
             StepsLeft(pc) < StepsLeft(pass[j].pc)
      PROVE  Left(pass'[j]) < Left(pass[j])
  <2>1. pass'[j].pc = pc /\ pass'[j].page = pass[j].page
    BY <1>1, <1>2 DEF TypeOK, Pass
  <2> QED BY <1>1, <1>2, <2>1, SamePageNearer
<1>3. CASE BeginJob(j)
  BY <1>2, <1>3 DEF BeginJob, StepsLeft, Steps
<1>4. CASE EndJob(j)
  <2>1. pass'[j] = Off /\ pass[j].pc \in {"finish", "fail"}
    BY <1>1, <1>4 DEF EndJob, TypeOK
  <2>2. Off.pc = "off"
    BY DEF Off
  <2> QED BY <2>1, <2>2 DEF Left
<1>5. CASE NextItem(j) /\ Work(j)
  <2>1. pass[j].pc \notin {"off", "begin", "finish", "fail"}
    BY <1>5 DEF Work, Fetch, Find, Update, GiveUpItem, Throw, LookAgain, Insert, SaveItem
  <2> QED BY <1>5, <2>1, NextItemNearer
<1>6. CASE Throw(j)
  <2>1. pass'[j] = [Off EXCEPT !.pc = "fail"] /\ pass[j].pc \in {"find", "look"}
    BY <1>1, <1>6 DEF Throw, TypeOK
  <2>2. [Off EXCEPT !.pc = "fail"].pc = "fail"
    BY DEF Off
  <2>3. Left(pass'[j]) = 1
    BY <2>1, <2>2 DEF Left
  <2>4. pass[j].page \in Nat /\ MaxPages \in Nat /\ pass[j].page <= MaxPages
    BY <1>1, CatalogAssumption DEF Pass, Pages
  <2>5. Left(pass[j]) >= 3
    BY <2>1, <2>4 DEF Left, StepsLeft
  <2>6. Left(pass[j]) \in Nat
    BY <1>1, LeftIsNat
  <2> QED BY <2>3, <2>5, <2>6
<1>7. CASE Fetch(j) /\ ~NextItem(j)
  <2>1. PICK i \in Items, o \in Offers :
          pass' = [pass EXCEPT ![j].pc = "find", ![j].item = i,
                               ![j].offer = o, ![j].pages = MaxPages]
    BY <1>7 DEF Fetch
  <2>2. pass' = [pass EXCEPT ![j] = [pass[j] EXCEPT
           !.pc = "find", !.item = i, !.offer = o, !.pages = MaxPages]]
    BY <2>1, Zenon DEF TypeOK
  <2>3. /\ pass'[j].pc = "find" /\ pass'[j].page = pass[j].page
        /\ pass[j].pc = "fetch"
    BY <1>1, <1>7, <2>2 DEF TypeOK, Pass, Fetch
  <2> QED BY <1>1, <2>3, SamePageNearer DEF StepsLeft
<1>8. ASSUME NEW id, NEW row, NEW pc \in {"update", "save"},
             pass' = [pass EXCEPT ![j].pc = pc, ![j].id = id, ![j].row = row],
             pass[j].pc \in {"find", "look"}
      PROVE  Left(pass'[j]) < Left(pass[j])
  <2>1. pass' = [pass EXCEPT ![j] = [pass[j] EXCEPT !.pc = pc, !.id = id, !.row = row]]
    BY <1>8, Zenon DEF TypeOK
  <2>2. pass'[j].pc = pc /\ pass'[j].page = pass[j].page
    BY <1>1, <2>1 DEF TypeOK, Pass
  <2>3. StepsLeft(pass'[j].pc) = 2 /\ StepsLeft(pass[j].pc) \in {3, 4}
    BY <1>8, <2>2 DEF StepsLeft
  <2>4. StepsLeft(pass'[j].pc) < StepsLeft(pass[j].pc)
    BY <2>3
  <2> QED BY <1>1, <1>8, <2>2, <2>4, SamePageNearer
<1>9. CASE Find(j) /\ ~NextItem(j)
  <2>1. pass[j].pc = "find"
    BY <1>9 DEF Find
  <2>2. CASE pass' = [pass EXCEPT ![j].pc = "look"]
    BY <1>2, <2>1, <2>2 DEF StepsLeft, Steps
  <2>3. CASE ~(pass' = [pass EXCEPT ![j].pc = "look"])
    <3>1. PICK id : pass' = [pass EXCEPT ![j].pc = "update", ![j].id = id,
                                         ![j].row = ForUpdate(products[id])]
      BY <1>9, <2>3 DEF Find
    <3> QED BY <1>8, <2>1, <3>1
  <2> QED BY <2>2, <2>3
<1>10. CASE LookAgain(j)
  <2>1. pass[j].pc = "look"
    BY <1>10 DEF LookAgain
  <2>2. CASE pass' = [pass EXCEPT ![j].pc = "insert"]
    BY <1>2, <2>1, <2>2 DEF StepsLeft, Steps
  <2>3. CASE ~(pass' = [pass EXCEPT ![j].pc = "insert"])
    <3>1. PICK id, row : pass' = [pass EXCEPT ![j].pc = "save", ![j].id = id,
                                              ![j].row = row]
      BY <1>10, <2>3 DEF LookAgain
    <3> QED BY <1>8, <2>1, <3>1
  <2> QED BY <2>2, <2>3
<1> QED BY <1>3, <1>4, <1>5, <1>6, <1>7, <1>9, <1>10
        DEF Run, Work, Update, GiveUpItem, Insert, SaveItem

(* Between its start and its end a job only gets nearer to its end, and it is
   never taken up again. *)
JobsAdvance ==
  \A j \in Jobs :
    /\ Run(j) => Left(pass'[j]) < Left(pass[j])
    /\ jobs[j] \in Unfinished =>
         pass'[j] = pass[j] \/ Left(pass'[j]) < Left(pass[j])
    /\ jobs[j] \in {"completed", "failed"} => jobs'[j] = jobs[j]

LEMMA AdvanceStep ==
  ASSUME TypeOK, UnfinishedJobsRun, [Next]_vars
  PROVE  JobsAdvance
<1>0. Jobs \subseteq Passes /\ Refreshers \subseteq Passes \ Jobs
  BY CatalogAssumption DEF Passes
<1>1. TypeOK'
  BY TypeStep
<1> SUFFICES ASSUME NEW j \in Jobs
             PROVE  /\ jobs[j] \in Unfinished =>
                         pass'[j] = pass[j] \/ Left(pass'[j]) < Left(pass[j])
                    /\ jobs[j] \in {"completed", "failed"} => jobs'[j] = jobs[j]
  BY <1>1, RunNearer DEF JobsAdvance
<1> DEFINE Advances ==
      /\ jobs[j] \in Unfinished =>
           pass'[j] = pass[j] \/ Left(pass'[j]) < Left(pass[j])
      /\ jobs[j] \in {"completed", "failed"} => jobs'[j] = jobs[j]
<1>2. ASSUME pass'[j] = pass[j], jobs'[j] = jobs[j]
      PROVE  Advances
  BY <1>2
<1>3. CASE Run(j)
  <2>1. Left(pass'[j]) < Left(pass[j])
    BY <1>1, <1>3, RunNearer
  <2>2. pass[j].pc # "off"
    BY <1>3 DEF Run, Work, BeginJob, EndJob, Fetch, Find, Update, GiveUpItem, Throw,
                LookAgain, Insert, SaveItem
  <2>3. jobs[j] \in Unfinished
    BY <2>2 DEF UnfinishedJobsRun
  <2> QED BY <2>1, <2>3 DEF Unfinished
<1>4. ASSUME NEW w \in Passes \ {j}, Work(w)
      PROVE  Advances
  BY <1>0, <1>2, <1>4, WorkKeepsOthers
<1>5. ASSUME NEW i \in Jobs \ {j}, BeginJob(i) \/ EndJob(i)
      PROVE  Advances
  BY <1>0, <1>2, <1>5 DEF BeginJob, EndJob, TypeOK
<1>6. ASSUME NEW s \in Starters, Queue(s)
      PROVE  Advances
  <2>1. PICK i \in Jobs, mode \in Modes :
          /\ jobs[i] = "none"
          /\ jobs' = [jobs EXCEPT ![i] = "queued"]
          /\ pass' = [pass EXCEPT ![i] = [Off EXCEPT !.pc = "begin", !.kind = mode]]
    BY <1>6 DEF Queue
  <2> QED BY <1>0, <2>1 DEF TypeOK, Unfinished
<1>7. ASSUME NEW a \in Refreshers, Tick(a) \/ \E id \in Ids : Choose(a, id)
      PROVE  Advances
  BY <1>0, <1>2, <1>7 DEF Tick, Choose, TypeOK
<1>8. CASE Restart
  <2>1. pass'[j] = Off /\ jobs'[j] = GivenUp(jobs[j]) /\ pass[j] \in Pass
    BY <1>0, <1>8 DEF Restart, TypeOK
  <2>2. Off.pc = "off"
    BY DEF Off
  <2>3. ASSUME jobs[j] \in Unfinished
        PROVE  Left(pass'[j]) < Left(pass[j])
    <3>1. pass[j].pc # "off"
      BY <2>3 DEF UnfinishedJobsRun
    <3>2. pass[j].page \in Nat /\ MaxPages \in Nat /\ pass[j].page <= MaxPages
      BY <2>1, CatalogAssumption DEF Pass, Pages
    <3>3. Left(pass[j]) > 0
      BY <3>1, <3>2 DEF Left, StepsLeft
    <3> QED BY <2>1, <2>2, <3>3 DEF Left
  <2> QED BY <2>1, <2>3 DEF GivenUp, Unfinished
<1>9. CASE UNCHANGED <<jobs, pass>>
  BY <1>2, <1>9
<1> QED BY <1>0, <1>3, <1>4, <1>5, <1>6, <1>7, <1>8, <1>9
        DEF Next, Run, Look, SaveEdit, Edit, Delete, vars

(* Every step of a job, whatever fails in it, leaves it fewer steps to its end
   for every number of pages, nothing but an end comes in between, and none is
   taken up again (runMobileSentrixCatalogSyncJob): with JobsStayManned, what
   EveryJobEnds needs besides the fairness of the event loop. *)
THEOREM JobsOnlyAdvance == Spec => [][JobsAdvance]_vars
<1>1. TypeOK /\ UnfinishedJobsRun /\ [Next]_vars => [JobsAdvance]_vars
  BY AdvanceStep
<1> QED BY <1>1, CatalogTypeCorrect, JobsStayManned, PTL DEF Spec
-----------------------------------------------------------------------------
(* The sync adds no second product of an item. What was loaded to be saved is
   of the item of its row, unless the row was deleted for good meanwhile. *)
Agrees(id, e) ==
  /\ id \in Ids /\ products[id].state # "unused"
  /\ products[id].state = "stored" => e.item = products[id].item
EntitiesAgree ==
  /\ \A w \in Passes : pass[w].pc = "save" => Agrees(pass[w].id, pass[w].row)
  /\ \A a \in Admins : admin[a].pc = "save" => Agrees(admin[a].id, admin[a].row)

(* A refresh of the timer or of a chosen product adds nothing. *)
OnlyJobsImport ==
  \A w \in Refreshers :
    pass[w].kind # "catalog" /\ pass[w].pc \notin {"look", "insert"}

(* No row that was never deleted is of an item about to be inserted: what the
   second look saw is still so when the INSERT comes. *)
InsertedIsNew ==
  \A w \in Passes, id \in Ids :
    pass[w].pc = "insert" /\ products[id].state = "stored"
      => products[id].item # pass[w].item

OneJobAtATime ==
  \A i, j \in Jobs : jobs[i] \in Unfinished /\ jobs[j] \in Unfinished => i = j

(* The rows after a step that inserts none: some go, the others keep item. *)
RowsOnlyGo ==
  \A id \in Ids :
    /\ products[id].state # "unused" => products'[id].state # "unused"
    /\ products'[id].state = "stored"
         => products[id].state = "stored" /\ products'[id].item = products[id].item

(* Where the rest of a pass begins. *)
LEMMA AfterShape ==
  ASSUME TypeOK, NEW w \in Passes
  PROVE  /\ After(w).pc \in {"fetch", "finish", "off"}
         /\ After(w).kind \in {pass[w].kind, "timer"}
<1>1. Off.pc = "off" /\ Off.kind = "timer"
  BY DEF Off
<1>2. Off \in Pass
  BY OffType
<1> QED BY <1>1, <1>2 DEF After, Pass

(* How a pass comes to import, to insert and to save. *)
LEMMA WorkEnters ==
  ASSUME TypeOK, NEW w \in Passes, Work(w)
  PROVE  /\ pass'[w].kind \in {pass[w].kind, "timer"}
         /\ pass'[w].pc = "look" => pass[w].kind = "catalog"
         /\ pass'[w].pc = "insert" => /\ pass[w].pc = "look" /\ UNCHANGED products
                                      /\ pass'[w].item = pass[w].item
                                      /\ RowsOf(pass[w].item) = {}
         /\ pass'[w].pc = "save" =>
              /\ UNCHANGED products
              /\ \E id \in Ids : /\ Stored(id) /\ pass'[w].id = id
                                 /\ pass'[w].row.item = products[id].item
<1>0. pass[w] \in Pass
  BY PassFields
<1>1. CASE NextItem(w)
  <2>1. pass'[w] = After(w)
    BY <1>1 DEF NextItem, TypeOK
  <2> QED BY <2>1, AfterShape
<1>2. CASE Throw(w)
  <2>1. Off.pc = "off" /\ Off.kind = "timer" /\ Off \in Pass
    BY OffType DEF Off
  <2>2. [Off EXCEPT !.pc = "fail"].pc = "fail" /\ [Off EXCEPT !.pc = "fail"].kind = "timer"
    BY <2>1 DEF Pass
  <2>3. pass'[w] \in {Off, [Off EXCEPT !.pc = "fail"]}
    BY <1>2 DEF Throw, TypeOK
  <2> QED BY <2>1, <2>2, <2>3
<1>3. CASE Fetch(w) /\ ~NextItem(w)
  <2>1. PICK i \in Items, o \in Offers :
          pass' = [pass EXCEPT ![w].pc = "find", ![w].item = i,
                               ![w].offer = o, ![w].pages = MaxPages]
    BY <1>3 DEF Fetch
  <2>2. pass'[w] = [pass[w] EXCEPT
           !.pc = "find", !.item = i, !.offer = o, !.pages = MaxPages]
    BY <2>1, Zenon DEF TypeOK
  <2> QED BY <2>2, <1>0 DEF Pass
<1>4. CASE Find(w) /\ ~NextItem(w)
  <2>1. CASE Imports(w) /\ pass' = [pass EXCEPT ![w].pc = "look"]
    <3>1. pass'[w] = [pass[w] EXCEPT !.pc = "look"]
      BY <2>1 DEF TypeOK
    <3> QED BY <2>1, <3>1, <1>0 DEF Pass, Imports
  <2>2. ASSUME NEW id \in RowsOf(pass[w].item),
               pass' = [pass EXCEPT ![w].pc = "update", ![w].id = id,
                                    ![w].row = ForUpdate(products[id])]
        PROVE  pass'[w].pc = "update" /\ pass'[w].kind = pass[w].kind
    <3>1. pass'[w] = [pass[w] EXCEPT
             !.pc = "update", !.id = id, !.row = ForUpdate(products[id])]
      BY <2>2, Zenon DEF TypeOK
    <3> QED BY <3>1, <1>0 DEF Pass
  <2> QED BY <1>4, <2>1, <2>2 DEF Find
<1>5. CASE LookAgain(w)
  <2>0. UNCHANGED products /\ pass[w].pc = "look"
    BY <1>5 DEF LookAgain
  <2>1. CASE RowsOf(pass[w].item) = {} /\ pass' = [pass EXCEPT ![w].pc = "insert"]
    <3>1. pass'[w] = [pass[w] EXCEPT !.pc = "insert"]
      BY <2>1 DEF TypeOK
    <3> QED BY <2>0, <2>1, <3>1, <1>0 DEF Pass
  <2>2. ASSUME NEW id \in RowsOf(pass[w].item), NEW row,
               row.item = products[id].item,
               pass' = [pass EXCEPT ![w].pc = "save", ![w].id = id, ![w].row = row]
        PROVE  /\ pass'[w].pc = "save" /\ pass'[w].kind = pass[w].kind
               /\ pass'[w].id = id /\ pass'[w].row.item = products[id].item
    <3>1. pass'[w] = [pass[w] EXCEPT !.pc = "save", !.id = id, !.row = row]
      BY <2>2, Zenon DEF TypeOK
    <3> QED BY <3>1, <2>2, <1>0 DEF Pass
  <2>3. \A id \in RowsOf(pass[w].item) : id \in Ids /\ Stored(id)
    BY DEF RowsOf
  <2>4. \A id \in RowsOf(pass[w].item) :
          [products[id] EXCEPT !.offer = pass[w].offer, !.trashed = FALSE].item
            = products[id].item
    BY <2>3 DEF TypeOK, ShopProduct
  <2>5. CASE \E id \in RowsOf(pass[w].item) :
               pass' = [pass EXCEPT ![w].pc = "save", ![w].id = id,
                 ![w].row = [products[id] EXCEPT !.offer = pass[w].offer,
                                                 !.trashed = FALSE]]
    <3>1. PICK id \in RowsOf(pass[w].item) :
            pass' = [pass EXCEPT ![w].pc = "save", ![w].id = id,
              ![w].row = [products[id] EXCEPT !.offer = pass[w].offer,
                                              !.trashed = FALSE]]
      BY <2>5
    <3>2. /\ pass'[w].pc = "save" /\ pass'[w].kind = pass[w].kind
          /\ pass'[w].id = id /\ pass'[w].row.item = products[id].item
      BY <2>2, <2>4, <3>1, Zenon
    <3> QED BY <2>0, <2>3, <3>2
  <2> QED BY <1>5, <2>1, <2>5 DEF LookAgain
<1> QED BY <1>1, <1>2, <1>3, <1>4, <1>5
        DEF Work, Update, GiveUpItem, Insert, SaveItem

(* Saving what agrees with its row, or no longer has one to agree with. *)
LEMMA SaveKeepsRows ==
  ASSUME TypeOK, NEW id, NEW e \in ShopProduct, Agrees(id, e), Save(id, e)
  PROVE  RowsOnlyGo
<1>1. id \in Ids /\ products[id] \in ShopProduct
  BY DEF Agrees, TypeOK
<1>2. \A k \in Ids \ {id} : products'[k] = products[k]
  BY DEF Save, TypeOK
<1>3. products'[id] = [e EXCEPT !.state = IF Stored(id) THEN products[id].state
                                                        ELSE "revived"]
  BY <1>1 DEF Save, TypeOK
<1>4. /\ products'[id].item = e.item
      /\ products'[id].state = IF Stored(id) THEN products[id].state ELSE "revived"
  BY <1>3 DEF ShopProduct
<1> QED BY <1>1, <1>2, <1>4 DEF RowsOnlyGo, Agrees, Stored, IsRow

LEMMA RowStep ==
  ASSUME TypeOK, EntitiesAgree, [Next]_vars,
         ~ \E w \in Passes : Insert(w)
  PROVE  RowsOnlyGo
<1>0. Jobs \subseteq Passes /\ Refreshers \subseteq Passes
  BY DEF Passes
<1>1. CASE UNCHANGED products
  BY <1>1 DEF RowsOnlyGo
<1>2. ASSUME NEW w \in Passes, Work(w)
      PROVE  RowsOnlyGo
  <2>1. CASE Update(w) /\ ~UNCHANGED products
    <3>1. MayUpdate(w, pass[w].id)
          /\ products' = [products EXCEPT ![pass[w].id] = Refreshed(@, w)]
      BY <2>1 DEF Update
    <3>2. \A id \in Ids : Refreshed(products[id], w).state = products[id].state
                            /\ Refreshed(products[id], w).item = products[id].item
      BY DEF Refreshed, TypeOK, ShopProduct
    <3>3. \A id \in Ids : products'[id].state = products[id].state
                            /\ products'[id].item = products[id].item
      BY <3>1, <3>2 DEF TypeOK
    <3> QED BY <3>3 DEF RowsOnlyGo
  <2>2. CASE SaveItem(w)
    <3>1. Agrees(pass[w].id, pass[w].row) /\ pass[w].row \in ShopProduct
      BY <2>2, PassFields DEF SaveItem, EntitiesAgree
    <3> QED BY <2>2, <3>1, SaveKeepsRows DEF SaveItem
  <2>3. ~Insert(w)
    OBVIOUS
  <2> QED BY <1>1, <1>2, <2>1, <2>2, <2>3
          DEF Work, Fetch, Find, GiveUpItem, Throw, LookAgain
<1>3. ASSUME NEW a \in Admins, SaveEdit(a)
      PROVE  RowsOnlyGo
  <2>1. Agrees(admin[a].id, admin[a].row) /\ admin[a].row \in ShopProduct
    BY <1>3 DEF SaveEdit, EntitiesAgree, TypeOK, Call
  <2> QED BY <1>3, <2>1, SaveKeepsRows DEF SaveEdit
<1>4. ASSUME NEW id \in Ids, Delete(id)
      PROVE  RowsOnlyGo
  <2>1. [Blank EXCEPT !.state = "deleted"].state = "deleted"
    BY BlankType DEF ShopProduct
  <2>2. products'[id].state = "deleted" /\ \A k \in Ids \ {id} : products'[k] = products[k]
    BY <1>4, <2>1 DEF Delete, TypeOK
  <2> QED BY <2>2 DEF RowsOnlyGo
<1>5. ASSUME NEW s \in Starters, Look(s) \/ Queue(s)
      PROVE  RowsOnlyGo
  BY <1>1, <1>5 DEF Look, Queue
<1>6. ASSUME NEW j \in Jobs, Run(j)
      PROVE  RowsOnlyGo
  BY <1>0, <1>1, <1>2, <1>6 DEF Run, BeginJob, EndJob
<1>7. ASSUME NEW a \in Refreshers, Tick(a) \/ Work(a) \/ \E id \in Ids : Choose(a, id)
      PROVE  RowsOnlyGo
  BY <1>0, <1>1, <1>2, <1>7 DEF Tick, Choose
<1>8. ASSUME NEW a \in Admins, NEW id \in Ids, Edit(a, id)
      PROVE  RowsOnlyGo
  BY <1>1, <1>8 DEF Edit
<1>9. CASE UNCHANGED vars \/ Restart
  BY <1>1, <1>9 DEF vars, Restart
<1> QED BY <1>3, <1>4, <1>5, <1>6, <1>7, <1>8, <1>9 DEF Next

(* An INSERT takes a key that was never used. *)
LEMMA InsertRows ==
  ASSUME TypeOK, NEW w \in Passes, Insert(w)
  PROVE  \E new \in Ids :
           /\ products[new].state = "unused"
           /\ products'[new].state = "stored" /\ products'[new].item = pass[w].item
           /\ \A id \in Ids \ {new} : products'[id] = products[id]
<1>1. PICK new \in Ids :
        /\ products[new].state = "unused"
        /\ products' = [products EXCEPT
             ![new] = Imported(pass[w].offer, pass[w].item)]
  BY DEF Insert
<1>2. /\ Imported(pass[w].offer, pass[w].item).state = "stored"
      /\ Imported(pass[w].offer, pass[w].item).item = pass[w].item
  BY BlankType DEF Imported, ShopProduct
<1> QED BY <1>1, <1>2 DEF TypeOK

(* What a step does to a row that was ever used: it keeps its item, or goes. *)
LEMMA UsedRowsGoOn ==
  ASSUME TypeOK, EntitiesAgree, [Next]_vars,
         NEW id \in Ids, products[id].state # "unused"
  PROVE  /\ products'[id].state # "unused"
         /\ products'[id].state = "stored"
              => products[id].state = "stored" /\ products'[id].item = products[id].item
<1>1. CASE \E w \in Passes : Insert(w)
  BY <1>1, InsertRows
<1>2. CASE ~ \E w \in Passes : Insert(w)
  BY <1>2, RowStep DEF RowsOnlyGo
<1> QED BY <1>1, <1>2

LEMMA AgreesGoesOn ==
  ASSUME TypeOK, EntitiesAgree, [Next]_vars, NEW id, NEW e, Agrees(id, e)
  PROVE  /\ id \in Ids /\ products'[id].state # "unused"
         /\ products'[id].state = "stored" => e.item = products'[id].item
  BY UsedRowsGoOn DEF Agrees

(* Who holds something to save after a step held it before, or has just loaded
   it from the row. *)
LEMMA PassesSaving ==
  ASSUME TypeOK, [Next]_vars, NEW w \in Passes, pass'[w].pc = "save"
  PROVE  \/ pass'[w] = pass[w]
         \/ /\ UNCHANGED products
            /\ \E id \in Ids : /\ Stored(id) /\ pass'[w].id = id
                               /\ pass'[w].row.item = products[id].item
<1>0. Jobs \subseteq Passes /\ Refreshers \subseteq Passes
  BY DEF Passes
<1>1. ASSUME NEW v \in Passes, Work(v)
      PROVE  pass'[w] = pass[w] \/ v = w
  BY <1>1, WorkKeepsOthers
<1>2. ASSUME NEW j \in Jobs, BeginJob(j) \/ EndJob(j)
      PROVE  pass'[w] = pass[w]
  <2>1. pass'[j].pc # "save"
    BY <1>0, <1>2, PassFields DEF BeginJob, EndJob, TypeOK, Pass, Off
  <2> QED BY <1>0, <1>2, <2>1 DEF BeginJob, EndJob, TypeOK
<1>3. ASSUME NEW s \in Starters, Look(s) \/ Queue(s)
      PROVE  pass'[w] = pass[w]
  <2>1. CASE Queue(s)
    <3>1. PICK j \in Jobs, mode \in Modes :
            pass' = [pass EXCEPT ![j] = [Off EXCEPT !.pc = "begin", !.kind = mode]]
      BY <2>1 DEF Queue
    <3>2. [Off EXCEPT !.pc = "begin", !.kind = mode].pc = "begin"
      BY OffType DEF Pass
    <3> QED BY <1>0, <3>1, <3>2 DEF TypeOK
  <2> QED BY <1>3, <2>1 DEF Look
<1>4. ASSUME NEW a \in Refreshers, Tick(a) \/ \E id \in Ids : Choose(a, id)
      PROVE  pass'[w] = pass[w]
  <2>1. CASE Tick(a)
    <3>1. pass'[a] = [pass[a] EXCEPT !.pc = "fetch", !.kind = "timer"]
      BY <1>0, <2>1, Zenon DEF Tick, TypeOK
    <3>2. pass'[a].pc = "fetch" /\ (w # a => pass'[w] = pass[w])
      BY <1>0, <2>1, <3>1, PassFields DEF Tick, TypeOK, Pass
    <3> QED BY <3>2
  <2>2. ASSUME NEW id \in Ids, Choose(a, id)
        PROVE  pass'[w] = pass[w]
    <3>1. PICK o \in Offers : pass' = [pass EXCEPT ![a] = [Off EXCEPT
            !.pc = "update", !.kind = "chosen", !.id = id, !.offer = o,
            !.row = ForUpdate(products[id])]]
      BY <2>2 DEF Choose
    <3>2. [Off EXCEPT !.pc = "update", !.kind = "chosen", !.id = id, !.offer = o,
             !.row = ForUpdate(products[id])].pc = "update"
      BY OffType DEF Pass
    <3> QED BY <1>0, <3>1, <3>2 DEF TypeOK
  <2> QED BY <1>4, <2>1, <2>2
<1>5. Restart => pass'[w].pc = "off"
  BY DEF Restart, Off
<1>6. CASE UNCHANGED pass
  BY <1>6
<1>7. CASE Work(w)
  BY <1>7, WorkEnters
<1> QED BY <1>0, <1>1, <1>2, <1>3, <1>4, <1>5, <1>6, <1>7
        DEF Next, Run, SaveEdit, Edit, Delete, vars

LEMMA AdminsSaving ==
  ASSUME TypeOK, [Next]_vars, NEW a \in Admins, admin'[a].pc = "save"
  PROVE  \/ admin'[a] = admin[a]
         \/ /\ UNCHANGED products
            /\ \E id \in Ids : /\ Stored(id) /\ admin'[a].id = id
                               /\ admin'[a].row.item = products[id].item
<1>1. Done.pc = "done"
  BY CallTypes DEF Done, Call
<1>2. ASSUME NEW b \in Admins, SaveEdit(b)
      PROVE  admin'[a] = admin[a]
  BY <1>1, <1>2 DEF SaveEdit, TypeOK
<1>3. ASSUME NEW b \in Admins, NEW id \in Ids, Edit(b, id)
      PROVE  \/ admin'[a] = admin[a]
             \/ /\ UNCHANGED products
                /\ Stored(id) /\ admin'[a].id = id
                /\ admin'[a].row.item = products[id].item
  <2>1. PICK e \in EditedRows(products[id]) : admin' = [admin EXCEPT ![b] =
          [NoCall EXCEPT !.pc = "save", !.id = id, !.row = e]]
    BY <1>3 DEF Edit
  <2>2. products[id] \in ShopProduct
    BY DEF TypeOK
  <2>3. e.item = products[id].item
    <3>1. \A o \in Offers :
            [products[id] EXCEPT !.offer = o, !.edited = TRUE].item = products[id].item
      BY <2>2 DEF ShopProduct
    <3>2. \A x \in BOOLEAN :
            /\ [products[id] EXCEPT !.active = x].item = products[id].item
            /\ [products[id] EXCEPT !.trashed = x].item = products[id].item
      BY <2>2 DEF ShopProduct
    <3> QED BY <3>1, <3>2 DEF EditedRows
  <2>4. /\ [NoCall EXCEPT !.pc = "save", !.id = id, !.row = e].id = id
        /\ [NoCall EXCEPT !.pc = "save", !.id = id, !.row = e].row = e
    BY CallTypes DEF Call
  <2> QED BY <1>3, <2>1, <2>3, <2>4 DEF Edit, TypeOK
<1>4. Restart => admin'[a] = admin[a]
  BY <1>1 DEF Restart
<1>5. CASE UNCHANGED admin
  BY <1>5
<1> QED BY <1>2, <1>3, <1>4, <1>5
        DEF Next, Run, Work, Fetch, Find, Update, GiveUpItem, Throw, LookAgain, Insert,
            SaveItem, BeginJob, EndJob, Look, Queue, Tick, Choose, Delete, vars

LEMMA EntitiesStep ==
  ASSUME TypeOK, EntitiesAgree, [Next]_vars
  PROVE  EntitiesAgree'
<1>0. ASSUME NEW id \in Ids, Stored(id)
      PROVE  products[id].state # "unused"
  BY <1>0 DEF Stored, IsRow
<1>1. ASSUME NEW w \in Passes, pass'[w].pc = "save"
      PROVE  Agrees(pass[w].id, pass[w].row)'
  <2>1. CASE pass'[w] = pass[w]
    BY <1>1, <2>1, AgreesGoesOn DEF EntitiesAgree, Agrees
  <2> QED BY <1>0, <1>1, <2>1, PassesSaving DEF Agrees
<1>2. ASSUME NEW a \in Admins, admin'[a].pc = "save"
      PROVE  Agrees(admin[a].id, admin[a].row)'
  <2>1. CASE admin'[a] = admin[a]
    BY <1>2, <2>1, AgreesGoesOn DEF EntitiesAgree, Agrees
  <2> QED BY <1>0, <1>2, <2>1, AdminsSaving DEF Agrees
<1> QED BY <1>1, <1>2 DEF EntitiesAgree

(* How the kind and the place of a pass change outside of its work. *)
LEMMA PassesElsewhere ==
  ASSUME TypeOK, [Next]_vars, NEW w \in Passes, ~Work(w)
  PROVE  \/ pass'[w] = pass[w]
         \/ /\ pass'[w].pc \notin {"look", "insert", "save"}
            /\ w \in Refreshers => pass'[w].kind # "catalog"
<1>0. Jobs \subseteq Passes /\ Refreshers \subseteq Passes /\ pass[w] \in Pass
  BY PassFields DEF Passes
<1>1. ASSUME NEW v \in Passes, Work(v)
      PROVE  pass'[w] = pass[w]
  BY <1>1, WorkKeepsOthers
<1>2. ASSUME NEW j \in Jobs, BeginJob(j) \/ EndJob(j)
      PROVE  \/ pass'[w] = pass[w]
             \/ pass'[w].pc \notin {"look", "insert", "save"} /\ w \notin Refreshers
  <2>1. pass'[j].pc \in {"fetch", "off"} /\ j \notin Refreshers
    BY <1>0, <1>2, PassFields, CatalogAssumption DEF BeginJob, EndJob, TypeOK, Pass, Off
  <2> QED BY <1>0, <1>2, <2>1 DEF BeginJob, EndJob, TypeOK
<1>3. ASSUME NEW s \in Starters, Look(s) \/ Queue(s)
      PROVE  \/ pass'[w] = pass[w]
             \/ pass'[w].pc \notin {"look", "insert", "save"} /\ w \notin Refreshers
  <2>1. CASE Queue(s)
    <3>1. PICK j \in Jobs, mode \in Modes :
            pass' = [pass EXCEPT ![j] = [Off EXCEPT !.pc = "begin", !.kind = mode]]
      BY <2>1 DEF Queue
    <3>2. [Off EXCEPT !.pc = "begin", !.kind = mode].pc = "begin" /\ j \notin Refreshers
      BY OffType, CatalogAssumption DEF Pass
    <3> QED BY <1>0, <3>1, <3>2 DEF TypeOK
  <2> QED BY <1>3, <2>1 DEF Look
<1>4. ASSUME NEW a \in Refreshers, Tick(a) \/ \E id \in Ids : Choose(a, id)
      PROVE  \/ pass'[w] = pass[w]
             \/ /\ pass'[w].pc \notin {"look", "insert", "save"}
                /\ pass'[w].kind # "catalog"
  <2>1. CASE Tick(a)
    <3>1. pass'[a] = [pass[a] EXCEPT !.pc = "fetch", !.kind = "timer"]
      BY <1>0, <2>1, Zenon DEF Tick, TypeOK
    <3>2. /\ pass'[a].pc = "fetch" /\ pass'[a].kind = "timer"
          /\ w # a => pass'[w] = pass[w]
      BY <1>0, <2>1, <3>1, PassFields DEF Tick, TypeOK, Pass
    <3> QED BY <3>2
  <2>2. ASSUME NEW id \in Ids, Choose(a, id)
        PROVE  \/ pass'[w] = pass[w]
               \/ pass'[w].pc = "update" /\ pass'[w].kind = "chosen"
    <3>1. PICK o \in Offers : pass' = [pass EXCEPT ![a] = [Off EXCEPT
            !.pc = "update", !.kind = "chosen", !.id = id, !.offer = o,
            !.row = ForUpdate(products[id])]]
      BY <2>2 DEF Choose
    <3>2. /\ [Off EXCEPT !.pc = "update", !.kind = "chosen", !.id = id, !.offer = o,
                !.row = ForUpdate(products[id])].pc = "update"
          /\ [Off EXCEPT !.pc = "update", !.kind = "chosen", !.id = id, !.offer = o,
                !.row = ForUpdate(products[id])].kind = "chosen"
      BY OffType DEF Pass
    <3> QED BY <1>0, <3>1, <3>2 DEF TypeOK
  <2> QED BY <1>4, <2>1, <2>2
<1>5. Restart => pass'[w].pc = "off" /\ pass'[w].kind = "timer"
  BY DEF Restart, Off
<1>6. CASE UNCHANGED pass
  BY <1>6
<1> QED BY <1>0, <1>1, <1>2, <1>3, <1>4, <1>5, <1>6
        DEF Next, Run, SaveEdit, Edit, Delete, vars

LEMMA ImportStep ==
  ASSUME TypeOK, OnlyJobsImport, [Next]_vars
  PROVE  OnlyJobsImport'
<1>1. ASSUME NEW w \in Refreshers
      PROVE  pass'[w].kind # "catalog" /\ pass'[w].pc \notin {"look", "insert"}
  <2>0. w \in Passes
    BY DEF Passes
  <2>1. CASE Work(w)
    BY <2>0, <2>1, WorkEnters DEF OnlyJobsImport
  <2>2. CASE ~Work(w)
    BY <2>0, <2>2, PassesElsewhere DEF OnlyJobsImport
  <2> QED BY <2>1, <2>2
<1> QED BY <1>1 DEF OnlyJobsImport

(* While one job runs, nobody else inserts between its look and its INSERT. *)
LEMMA InsertedStep ==
  ASSUME TypeOK, EntitiesAgree, OnlyJobsImport, InsertedIsNew, UnfinishedJobsRun,
         OneJobAtATime, [Next]_vars
  PROVE  InsertedIsNew'
<1>1. ASSUME NEW w \in Passes, NEW id \in Ids, pass'[w].pc = "insert",
             products'[id].state = "stored"
      PROVE  products'[id].item # pass'[w].item
  <2>1. CASE Work(w)
    <3>1. /\ UNCHANGED products /\ pass'[w].item = pass[w].item
          /\ RowsOf(pass[w].item) = {}
      BY <1>1, <2>1, WorkEnters
    <3> QED BY <1>1, <3>1 DEF RowsOf, Stored, IsRow
  <2>2. CASE ~Work(w)
    <3>1. pass'[w] = pass[w] /\ pass[w].pc = "insert"
      BY <1>1, <2>2, PassesElsewhere
    <3>2. ASSUME NEW v \in Passes, Insert(v)
          PROVE  FALSE
      <4>1. v \in Jobs /\ w \in Jobs /\ pass[v].pc = "insert"
        BY <3>1, <3>2 DEF Insert, OnlyJobsImport, Passes
      <4>2. v = w
        BY <3>1, <4>1 DEF UnfinishedJobsRun, OneJobAtATime
      <4> QED BY <2>2, <3>2, <4>2 DEF Work
    <3>3. RowsOnlyGo
      BY <3>2, RowStep
    <3> QED BY <1>1, <3>1, <3>3 DEF RowsOnlyGo, InsertedIsNew
  <2> QED BY <2>1, <2>2
<1> QED BY <1>1 DEF InsertedIsNew

LEMMA OneProductStep ==
  ASSUME TypeOK, EntitiesAgree, InsertedIsNew, OneProductPerItem, [Next]_vars
  PROVE  OneProductPerItem'
<1>0. \A k \in Ids : products'[k].state \in {"stored", "revived"} <=> Stored(k)'
  BY DEF Stored, IsRow
<1>1. ASSUME NEW k \in Ids, NEW l \in Ids, k # l,
             products'[k].state = "stored", products'[l].state = "stored"
      PROVE  products'[k].item # products'[l].item
  <2>1. ASSUME products[k].state = "stored", products[l].state = "stored"
        PROVE  products[k].item # products[l].item
    BY <1>1, <2>1 DEF OneProductPerItem, Stored, IsRow
  <2>2. CASE \E w \in Passes : Insert(w)
    <3>1. PICK w \in Passes : Insert(w)
      BY <2>2
    <3>2. PICK new \in Ids :
             /\ products[new].state = "unused"
             /\ products'[new].state = "stored" /\ products'[new].item = pass[w].item
             /\ \A id \in Ids \ {new} : products'[id] = products[id]
      BY <3>1, InsertRows
    <3>3. \A id \in Ids : products[id].state = "stored" => products[id].item # pass[w].item
      BY <3>1 DEF Insert, InsertedIsNew
    <3> QED BY <1>1, <2>1, <3>2, <3>3
  <2>3. CASE ~ \E w \in Passes : Insert(w)
    BY <1>1, <2>1, <2>3, RowStep DEF RowsOnlyGo
  <2> QED BY <2>2, <2>3
<1> QED BY <1>0, <1>1 DEF OneProductPerItem

LEMMA CatalogInit ==
  ASSUME Init
  PROVE  EntitiesAgree /\ OnlyJobsImport /\ InsertedIsNew /\ OneProductPerItem
<1>1. Blank.state = "unused" /\ Off.pc = "off" /\ Off.kind = "timer" /\ NoCall.pc = "off"
  BY DEF Blank, Off, NoCall
<1>2. /\ \A w \in Passes : pass[w] = Off
      /\ \A a \in Admins : admin[a] = NoCall
      /\ \A id \in Ids : products[id] = Blank
  BY DEF Init
<1> QED BY <1>1, <1>2 DEF EntitiesAgree, OnlyJobsImport, InsertedIsNew,
                          OneProductPerItem, Stored, IsRow, Passes

(* However many administrators press the button: while no two jobs are
   unfinished at a time, the sync makes one product of an item. *)
THEOREM OneJobMakesOneProduct ==
  Spec /\ []OneJobAtATime => []OneProductPerItem
<1>1. TypeOK /\ EntitiesAgree /\ OnlyJobsImport /\ InsertedIsNew /\ UnfinishedJobsRun
        /\ OneJobAtATime /\ OneProductPerItem /\ [Next]_vars
        => EntitiesAgree' /\ OnlyJobsImport' /\ InsertedIsNew' /\ OneProductPerItem'
  BY EntitiesStep, ImportStep, InsertedStep, OneProductStep
<1> QED BY <1>1, CatalogInit, CatalogTypeCorrect, JobsStayManned, PTL DEF Spec
-----------------------------------------------------------------------------
(* With one administrator to press it, no two jobs are: the look for an
   unfinished job and the INSERT of a new one have nobody between them. *)
OneStarter == \A s, t \in Starters : s = t
DeskIsClear == desk # {} => \A j \in Jobs : jobs[j] \notin Unfinished

LEMMA OneJobStep ==
  ASSUME OneStarter, TypeOK, UnfinishedJobsRun, DeskIsClear, OneJobAtATime, [Next]_vars
  PROVE  DeskIsClear' /\ OneJobAtATime'
<1>0. Jobs \subseteq Passes /\ Refreshers \subseteq Passes
  BY DEF Passes
<1>1. CASE UNCHANGED <<jobs, desk>>
  BY <1>1 DEF DeskIsClear, OneJobAtATime
<1>2. ASSUME NEW s \in Starters, Look(s)
      PROVE  DeskIsClear' /\ OneJobAtATime'
  BY <1>2 DEF Look, DeskIsClear, OneJobAtATime
<1>3. ASSUME NEW s \in Starters, Queue(s)
      PROVE  DeskIsClear' /\ OneJobAtATime'
  <2>1. desk' = {} /\ \A j \in Jobs : jobs[j] \notin Unfinished
    BY <1>3 DEF Queue, TypeOK, OneStarter, DeskIsClear
  <2>2. PICK j \in Jobs : jobs' = [jobs EXCEPT ![j] = "queued"]
    BY <1>3 DEF Queue
  <2>3. \A i \in Jobs : jobs'[i] \in Unfinished => i = j
    BY <2>1, <2>2 DEF TypeOK
  <2> QED BY <2>1, <2>3 DEF DeskIsClear, OneJobAtATime
<1>4. ASSUME NEW j \in Jobs, BeginJob(j) \/ EndJob(j)
      PROVE  DeskIsClear' /\ OneJobAtATime'
  <2>1. jobs[j] \in Unfinished
    BY <1>0, <1>4 DEF BeginJob, EndJob, UnfinishedJobsRun
  <2>2. desk' = {}
    BY <1>4, <2>1 DEF BeginJob, EndJob, DeskIsClear
  <2>3. \A i \in Jobs : jobs'[i] \in Unfinished => jobs[i] \in Unfinished
    BY <1>4, <2>1 DEF BeginJob, EndJob, Unfinished, TypeOK
  <2> QED BY <2>2, <2>3 DEF DeskIsClear, OneJobAtATime
<1>5. CASE Restart
  <2>1. desk' = {} /\ \A j \in Jobs : jobs'[j] \notin Unfinished
    BY <1>5 DEF Restart, GivenUp, Unfinished
  <2> QED BY <2>1 DEF DeskIsClear, OneJobAtATime
<1>6. ASSUME NEW w \in Passes, Work(w)
      PROVE  UNCHANGED <<jobs, desk>>
  BY <1>6 DEF Work, Fetch, Find, Update, GiveUpItem, Throw, LookAgain, Insert, SaveItem
<1> QED BY <1>0, <1>1, <1>2, <1>3, <1>4, <1>5, <1>6
        DEF Next, Run, Tick, Choose, SaveEdit, Edit, Delete, vars

(* One administrator at a time in the dashboard: never two unfinished jobs. *)
THEOREM OneStarterOneJob == OneStarter => (Spec => []OneJobAtATime)
<1>1. SUFFICES ASSUME OneStarter PROVE Spec => []OneJobAtATime
  OBVIOUS
<1>2. Init => DeskIsClear /\ OneJobAtATime
  BY DEF Init, DeskIsClear, OneJobAtATime, Unfinished
<1>3. TypeOK /\ UnfinishedJobsRun /\ DeskIsClear /\ OneJobAtATime /\ [Next]_vars
        => DeskIsClear' /\ OneJobAtATime'
  BY <1>1, OneJobStep
<1> QED BY <1>2, <1>3, CatalogTypeCorrect, JobsStayManned, PTL DEF Spec

(* So the sync of one administrator, whatever the timer, the refreshes and
   the others do to the rows meanwhile, makes one product of an item. *)
THEOREM OneStarterOneProduct == OneStarter => (Spec => []OneProductPerItem)
<1>1. SUFFICES ASSUME OneStarter PROVE Spec => []OneProductPerItem
  OBVIOUS
<1>2. Spec => []OneJobAtATime
  BY <1>1, OneStarterOneJob
<1> QED BY <1>2, OneJobMakesOneProduct, PTL
=============================================================================
