---------------------------- MODULE CatalogSync -----------------------------
(***************************************************************************)
(* The supplier's products in the shop: the sync jobs of an administrator, *)
(* the timer's refresh, the refresh of a chosen product (MobileSentrix in  *)
(* integrations.service) and the administrators who edit, show, trash and  *)
(* delete the same rows meanwhile (shop.service).                          *)
(*                                                                         *)
(* Nothing is locked. A pass over the catalogue reads a page from the      *)
(* supplier, then rows, then writes them, with requests to the supplier in *)
(* between; `pass` is where it stands and what it holds. A page is reduced *)
(* to one item of it: items meet in no rule, and the same one may be on    *)
(* the next page, when the catalogue has grown between the two requests.   *)
(***************************************************************************)
EXTENDS Naturals

CONSTANTS
  Jobs,         \* the rows of mobilesentrix_sync_jobs that may be inserted
  Refreshers,   \* passes of the timer and refreshes of a chosen product
  Starters,     \* calls of startMobileSentrixCatalogSync
  Admins,       \* bound: the calls on single products, one each
  Items,        \* the supplier's products, by supplier_product_id
  Offers,       \* what price, stock and the supplier's columns can say
  MaxPages,     \* pages of the supplier's catalogue
  MaxProducts   \* bound: products ever inserted

VARIABLES
  products,   \* the rows of shop_products with supplier MOBILESENTRIX
  jobs,       \* the status of the rows of mobilesentrix_sync_jobs
  desk,       \* Starters that saw no unfinished job
  pass,       \* the passes over the catalogue
  admin       \* the calls on single products

vars == <<products, jobs, desk, pass, admin>>
-----------------------------------------------------------------------------
Passes == Jobs \union Refreshers
Pages == 1 .. MaxPages
Ids == 1 .. MaxProducts

ASSUME CatalogAssumption ==
  /\ Jobs \intersect Refreshers = {}
  /\ Items # {} /\ Offers # {} /\ MaxPages \in Nat \ {0} /\ MaxProducts \in Nat

(* `edited` is supplier_auto_sync_disabled, `trashed` is deleted_at; "revived":
   a row that was deleted and inserted again under its key. *)
ShopProduct ==
  [state : {"unused", "stored", "deleted", "revived"}, item : Items,
   offer : Offers, active : BOOLEAN, edited : BOOLEAN, trashed : BOOLEAN]
Blank ==
  [state |-> "unused", item |-> CHOOSE i \in Items : TRUE,
   offer |-> CHOOSE o \in Offers : TRUE,
   active |-> FALSE, edited |-> FALSE, trashed |-> FALSE]

IsRow(row) == row.state \in {"stored", "revived"}
Stored(id) == IsRow(products[id])

Unfinished == {"queued", "running"}
JobStatus == Unfinished \union {"none", "completed", "failed"}

(* The mode of a job, and what else a pass may be. *)
Modes == {"catalog", "refresh-existing"}
Kinds == Modes \union {"timer", "chosen"}

Steps ==
  {"off", "begin", "fetch", "find", "update", "look", "insert", "save",
   "finish", "fail"}
Pass ==
  [pc : Steps, kind : Kinds, page : Pages, pages : Pages,
   item : Items, offer : Offers, id : 0 .. MaxProducts, row : ShopProduct]
Off ==
  [pc |-> "off", kind |-> "timer", page |-> 1, pages |-> 1,
   item |-> Blank.item, offer |-> Blank.offer, id |-> 0, row |-> Blank]

Call == [pc : {"off", "save", "done"}, id : 0 .. MaxProducts, row : ShopProduct]
NoCall == [pc |-> "off", id |-> 0, row |-> Blank]
Done == [NoCall EXCEPT !.pc = "done"]
-----------------------------------------------------------------------------
(* repository.save(entity) reads the row, updates the columns in which it
   differs from the entity, and inserts an entity whose row is gone under its
   old key. One step: a write of another request that falls between the read
   and the update ends up as if the entity had been loaded after it. *)
Save(id, e) ==
  products' = [products EXCEPT
    ![id] = [e EXCEPT !.state = IF Stored(id) THEN products[id].state
                                             ELSE "revived"]]
-----------------------------------------------------------------------------
(* startMobileSentrixCatalogSync looks for an unfinished job and inserts one
   after it found none. *)
Look(s) ==
  /\ s \notin desk
  /\ \A j \in Jobs : jobs[j] \notin Unfinished
  /\ desk' = desk \union {s}
  /\ UNCHANGED <<products, jobs, pass, admin>>

Queue(s) ==
  /\ s \in desk
  /\ desk' = desk \ {s}
  /\ \E j \in Jobs, mode \in Modes :
       /\ jobs[j] = "none"
       /\ jobs' = [jobs EXCEPT ![j] = "queued"]
       /\ pass' = [pass EXCEPT ![j] = [Off EXCEPT !.pc = "begin", !.kind = mode]]
  /\ UNCHANGED <<products, admin>>

BeginJob(j) ==
  /\ pass[j].pc = "begin"
  /\ jobs' = [jobs EXCEPT ![j] = "running"]
  /\ pass' = [pass EXCEPT ![j].pc = "fetch"]
  /\ UNCHANGED <<products, desk, admin>>

EndJob(j) ==
  /\ \/ /\ pass[j].pc = "finish"
        /\ jobs' = [jobs EXCEPT ![j] = "completed"]
     \/ /\ pass[j].pc = "fail"
        /\ jobs' = [jobs EXCEPT ![j] = "failed"]
  /\ pass' = [pass EXCEPT ![j] = Off]
  /\ UNCHANGED <<products, desk, admin>>
-----------------------------------------------------------------------------
(* updateExistingMobileSentrixProductFromCatalog decides on the row it is given
   whether there is anything to write; of that row it writes is_active. *)
Changed(row, offer) == row.offer # offer \/ row.trashed
ForUpdate(row) == [Blank EXCEPT !.active = row.active]

(* The timer: mobileSentrixAutoSyncRunning is cleared as soon as the promise is
   returned, so it keeps no pass from starting. *)
Tick(a) ==
  /\ pass[a].pc = "off"
  /\ pass' = [pass EXCEPT ![a].pc = "fetch", ![a].kind = "timer"]
  /\ UNCHANGED <<products, jobs, desk, admin>>

(* refreshSelectedMobileSentrixProducts reads the row and asks the supplier. *)
Choose(a, id) ==
  /\ pass[a].pc = "off" /\ Stored(id)
  /\ \E o \in Offers :
       /\ Changed(products[id], o)
       /\ pass' = [pass EXCEPT ![a] = [Off EXCEPT
            !.pc = "update", !.kind = "chosen", !.id = id, !.offer = o,
            !.row = ForUpdate(products[id])]]
  /\ UNCHANGED <<products, jobs, desk, admin>>

(* What the rest of a pass does after an item is done or was given up. *)
AfterOneTooMany(w) ==
  IF pass[w].page <= pass[w].pages
    THEN [Off EXCEPT !.pc = "fetch", !.kind = pass[w].kind,
                     !.page = pass[w].page + 1, !.pages = pass[w].pages]
    ELSE IF w \in Jobs THEN [Off EXCEPT !.pc = "finish"] ELSE Off
After(w) ==
  IF pass[w].page < pass[w].pages
    THEN [Off EXCEPT !.pc = "fetch", !.kind = pass[w].kind,
                     !.page = pass[w].page + 1, !.pages = pass[w].pages]
    ELSE IF w \in Jobs THEN [Off EXCEPT !.pc = "finish"] ELSE Off
NextItem(w) == pass' = [pass EXCEPT ![w] = After(w)]

(* The supplier answers, or has failed three times and the page is left out;
   how many pages there are is known once a page has come. *)
Fetch(w) ==
  /\ pass[w].pc = "fetch"
  /\ \/ \E i \in Items, o \in Offers :
          pass' = [pass EXCEPT ![w].pc = "find", ![w].item = i, ![w].offer = o,
                               ![w].pages = MaxPages]
     \/ NextItem(w)
  /\ UNCHANGED <<products, jobs, desk, admin>>

Imports(w) == pass[w].kind = "catalog"

(* The rows of an item, in the trash or not: `where` names the supplier's id
   only. *)
RowsInShopOf(item) ==
  {id \in Ids : Stored(id) /\ products[id].item = item /\ ~products[id].trashed}
RowsOf(item) == {id \in Ids : Stored(id) /\ products[id].item = item}

Find(w) ==
  /\ pass[w].pc = "find"
  /\ \/ /\ RowsOf(pass[w].item) = {}
        /\ IF Imports(w) THEN pass' = [pass EXCEPT ![w].pc = "look"]
                         ELSE NextItem(w)
     \/ \E id \in RowsOf(pass[w].item) :
          IF \/ pass[w].kind = "timer" /\ products[id].edited
             \/ ~Changed(products[id], pass[w].offer)
            THEN NextItem(w)
            ELSE pass' = [pass EXCEPT ![w].pc = "update", ![w].id = id,
                                      ![w].row = ForUpdate(products[id])]
  /\ UNCHANGED <<products, jobs, desk, admin>>

(* After the exchange rate has come: one UPDATE, with is_active as it was read. *)
MayUpdate(w, id) ==
  Stored(id) /\ (pass[w].kind = "timer" => ~products[id].edited)

Refreshed(row, w) ==
  [row EXCEPT !.offer = pass[w].offer, !.active = pass[w].row.active,
              !.trashed = FALSE]

Update(w) ==
  /\ pass[w].pc = "update"
  /\ products' =
       IF MayUpdate(w, pass[w].id)
         THEN [products EXCEPT ![pass[w].id] = Refreshed(@, w)]
         ELSE products
  /\ NextItem(w)
  /\ UNCHANGED <<jobs, desk, admin>>

(* No exchange rate, a refused INSERT, an item that maps to nothing. *)
GiveUpItem(w) ==
  /\ pass[w].pc \in {"update", "look", "insert", "save"}
  /\ NextItem(w)
  /\ UNCHANGED <<products, jobs, desk, admin>>

(* Tags, exchange rates or the rows of a page cannot be read, which nothing in
   the loop catches. *)
ThrowUncaught(w) ==
  /\ pass[w].pc \in {"find", "look"}
  /\ pass' = [pass EXCEPT ![w] = Off]
  /\ UNCHANGED <<products, jobs, desk, admin>>
Throw(w) ==
  /\ pass[w].pc \in {"find", "look"}
  /\ pass' = [pass EXCEPT ![w] = IF w \in Jobs THEN [Off EXCEPT !.pc = "fail"]
                                               ELSE Off]
  /\ UNCHANGED <<products, jobs, desk, admin>>

(* upsertMobileSentrixProduct looks for the row again. *)
Imported(offer, item) ==
  [Blank EXCEPT !.state = "stored", !.item = item, !.offer = offer]

LookAgain(w) ==
  /\ pass[w].pc = "look"
  /\ \/ /\ RowsOf(pass[w].item) = {}
        /\ pass' = [pass EXCEPT ![w].pc = "insert"]
     \/ \E id \in RowsOf(pass[w].item) :
          pass' = [pass EXCEPT ![w].pc = "save", ![w].id = id,
            ![w].row = [products[id] EXCEPT !.offer = pass[w].offer,
                                            !.trashed = FALSE]]
  /\ UNCHANGED <<products, jobs, desk, admin>>

Insert(w) ==
  /\ pass[w].pc = "insert"
  /\ \E id \in Ids :
       /\ products[id].state = "unused"
       /\ products' = [products EXCEPT
            ![id] = Imported(pass[w].offer, pass[w].item)]
  /\ NextItem(w)
  /\ UNCHANGED <<jobs, desk, admin>>

SaveItem(w) ==
  /\ pass[w].pc = "save"
  /\ Save(pass[w].id, pass[w].row)
  /\ NextItem(w)
  /\ UNCHANGED <<jobs, desk, admin>>
-----------------------------------------------------------------------------
(* updateProduct, softDeleteProduct and restoreProduct: the row is read,
   changed in memory and saved. What is edited belongs to the administrator
   from then on, but for its visibility. *)
EditedRows(row) ==
  {[row EXCEPT !.offer = o, !.edited = TRUE] : o \in Offers}
  \union {[row EXCEPT !.active = b] : b \in BOOLEAN}
  \union {[row EXCEPT !.trashed = b] : b \in BOOLEAN}

Edit(a, id) ==
  /\ admin[a].pc = "off" /\ Stored(id)
  /\ \E e \in EditedRows(products[id]) :
       admin' = [admin EXCEPT ![a] = [NoCall EXCEPT
            !.pc = "save", !.id = id, !.row = e]]
  /\ UNCHANGED <<products, jobs, desk, pass>>

SaveEdit(a) ==
  /\ admin[a].pc = "save"
  /\ Save(admin[a].id, admin[a].row)
  /\ admin' = [admin EXCEPT ![a] = Done]
  /\ UNCHANGED <<jobs, desk, pass>>

(* permanentlyDeleteProduct, or purgeExpiredTrash on a row of its cutoff. *)
Delete(id) ==
  /\ Stored(id)
  /\ products' = [products EXCEPT ![id] = [Blank EXCEPT !.state = "deleted"]]
  /\ UNCHANGED <<jobs, desk, pass, admin>>

(* The process dies; onModuleInit gives up what it had not finished. *)
LeftAlone(status) == status
GivenUp(status) == IF status \in Unfinished THEN "failed" ELSE status

Restart ==
  /\ jobs' = [j \in Jobs |-> GivenUp(jobs[j])]
  /\ desk' = {}
  /\ pass' = [w \in Passes |-> Off]
  /\ admin' = [a \in Admins |-> IF admin[a].pc = "save" THEN Done ELSE admin[a]]
  /\ UNCHANGED products

Init ==
  /\ products = [id \in Ids |-> Blank]
  /\ jobs = [j \in Jobs |-> "none"]
  /\ desk = {}
  /\ pass = [w \in Passes |-> Off]
  /\ admin = [a \in Admins |-> NoCall]

Work(w) ==
  \/ Fetch(w) \/ Find(w) \/ Update(w) \/ GiveUpItem(w) \/ Throw(w)
  \/ LookAgain(w) \/ Insert(w) \/ SaveItem(w)
Run(j) == BeginJob(j) \/ Work(j) \/ EndJob(j)

Next ==
  \/ \E s \in Starters : Look(s) \/ Queue(s)
  \/ \E j \in Jobs : Run(j)
  \/ \E a \in Refreshers :
       Tick(a) \/ Work(a) \/ \E id \in Ids : Choose(a, id)
  \/ \E a \in Admins : SaveEdit(a) \/ \E id \in Ids : Edit(a, id)
  \/ \E id \in Ids : Delete(id)
  \/ Restart

(* The event loop resumes a job whose await was answered; the supplier is taken
   to answer or to break the connection, for the code sets no timeout. *)
Fairness == \A j \in Jobs : WF_vars(Run(j))

Spec == Init /\ [][Next]_vars
FairSpec == Spec /\ Fairness
-----------------------------------------------------------------------------
TypeOK ==
  /\ products \in [Ids -> ShopProduct] /\ jobs \in [Jobs -> JobStatus]
  /\ desk \subseteq Starters /\ pass \in [Passes -> Pass]
  /\ admin \in [Admins -> Call]

(* A job that calls itself unfinished, and so keeps any other from starting, is
   being worked on; a finished one is not, in spite of restarts. *)
UnfinishedJobsRun ==
  \A j \in Jobs : jobs[j] \in Unfinished <=> pass[j].pc # "off"

(* The sync makes no second product of an item: two there are only if one was
   deleted for good under an administrator's hands and saved again. *)
OneProductPerItem ==
  \A k, l \in Ids :
    Stored(k) /\ Stored(l) /\ products[k].item = products[l].item /\ k # l
      => "revived" \in {products[k].state, products[l].state}

(* Every job ends, whatever pages fail: one that did not would keep all later
   ones from starting. *)
EveryJobEnds ==
  \A j \in Jobs : jobs[j] \in Unfinished
                    ~> jobs[j] \in {"completed", "failed"}

(* A sync leaves the visibility an administrator has chosen. *)
ChosenVisibilityKept ==
  [][\A w \in Passes, id \in Ids :
       Update(w) => products'[id].active = products[id].active]_vars
=============================================================================
