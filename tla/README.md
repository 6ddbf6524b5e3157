# A model of the gstore warranty portal

The portal (`backend/src`, NestJS and TypeORM on MySQL/InnoDB) runs a repair
desk, a small shop, a trade-in counter and two integrations, with a supplier's
catalogue and a point of sale. All of its state is in database tables; every
HTTP request is served by one Node process whose handlers interleave at every
`await`, and several processes may run beside one another. Nearly every handler
reads an entity, awaits something and saves the entity; a few take row locks.
This directory models that: what requests read, when they write it back, and
what holds in spite of it.

## 1. Inventory

| part | state | operations | interacts with | modelled |
|---|---|---|---|---|
| cases (`cases.service.ts`) | `service_cases`, `case_status_history` | create, update, changeStatus, reopen, parts waiting, internal notes, remove | locks the case row in changeStatus, the partner's row in create; reads and inserts payments; calls pickup after its commit; SMS, notifications, audit | `CaseDesk`, `CaseIntake` |
| offers (`payments.service.ts`) | `case_payments` | createOffer, update, markAsPaid, markAsFailed, sendPaymentReminder, remove | reads the case's stage; no lock | `CaseDesk` |
| bank (`bog.service.ts`) | the bank's order | initiatePayment, handleCallback | saves the payment after an HTTP call; callbacks call markAsPaid and markAsFailed | `CaseDesk` |
| pickup (`pickup.service.ts`) | `case_pickups` | issue, verify, collectWithoutPin, resetForReopen | reads case and payments in its transactions; locks the pickup row, collectWithoutPin the case row as well | `CaseDesk` |
| partners (`partners.service.ts`) | `partners` | create, update, archiveOrDelete, restore | row lock; cases name them by foreign key | `CaseIntake` |
| shop (`shop.service.ts`, `shop-payments.service.ts`) | `shop_orders`, payment attempts and events | order creation, update, trash, purge; start of a payment, callback, poll of the receipt | bank by HTTP, callbacks | `ShopOrders` |
| trade-in (`trade-in.service.ts`, `trade-in-agreement.service.ts`) | quotes, agreements, signing links, signature profiles | quotes, drafts, customer's and staff's signatures, finalization | row locks on quotes, agreements and links, in several orders | `TradeInAgreement` |
| supplier (`integrations.service.ts`, MobileSentrix) | `shop_products`, `mobilesentrix_sync_jobs`, an in-memory guard | sync jobs, the timer's refresh, refresh of chosen products | HTTP to the supplier; administrators edit the same rows | `CatalogSync` |
| point of sale (`integrations.service.ts`) and warranties (`warranties.service.ts`) | `pos_warranty_inbound_events`, `warranties` | handlePosOrderUpsert; create, update, extend, remove | cases name warranties by foreign key | `PosWarranties` |
| WooCommerce (`woocommerce.service.ts`) and upload (`import.service.ts`) | progress of a sync, in memory | createWarrantyFromOrder, called by webhook, syncOrder, syncOrdersByStatus and staff; CSV rows | reads orders by HTTP, inserts into `warranties` for the orders the point of sale reports too | `PosWarranties` |
| SLA (`sla.service.ts`, hourly cron) | none | alerts, statistics | reads cases, sends SMS | no |
| users, settings, files, SMS log, notifications, audit | one table each | single-row reads and writes | | no |
| dashboard, statistics, public status, frontend | none | queries | | no |

What is hard in it: saves of entities read before another request's commit
(`save()` compares with the row *now*, updates the columns that differ and
inserts an entity whose row is gone); locks taken by one handler and not by the
others, and in different orders; snapshots of REPEATABLE READ transactions; work
done after a commit (clearing the pickup row, issuing the PIN); the callbacks of
the bank and the events of the point of sale, in any order and number; a process
that dies between two statements. `PROJECT.json` lists the hazards by line.

What makes each part correct: *cases* - the stage columns agree, technicians
move forward only, the history tells the stage, numbering goes on; *offers* - one
per type, paid only by a confirmation, a payable case completed only after one;
*pickup* - the device is given out once per repair, from a completed case, and
PIN attempts are counted; *partners* - never deleted under their cases; *shop* -
an order counts as paid, or is completed after an online checkout, only if the
bank took the money, and a payment taken is recorded; *trade-in* - an agreement
is concluded once, by both, and does not change afterwards; *supplier* - no dead
job blocks the next, no second product of an item, edits stay; *point of sale and
WooCommerce* - one warranty per order whatever is repeated or imported, as far as the
two can find each other's, and every event processed.

## 2. Modules

| module | models |
|---|---|
| `CaseStore` | the tables of one case, the requests with what they hold in memory, row lock, saves, crash (`Abort`) |
| `CaseStatus` | `cases.service`: changeStatus, update, reopen, parts waiting, internal notes |
| `CaseOffers` | `payments.service` and `bog.service` |
| `CasePickup` | `pickup.service`, PIN expiry and lockout |
| `CaseDesk` | all three composed, the routes in use (`Calls`), the properties |
| `Handover` | the abstract promise: a device is in repair, ready, or given; given once per repair |
| `CaseIntake` | create, update and remove of several cases, and `partners.service` |
| `ShopOrders` | `shop.service` and `shop-payments.service`: one order of the web shop, its attempt, the bank |
| `TradeInAgreement` | one quote, its agreement, tokens and links: eleven handlers, their row locks, deadlock and rollback |
| `Contract` | the abstract promise: drafted and signed, concluded once, unchanged afterwards |
| `CatalogSync` | sync jobs, the timer's refresh, refreshes of one product, administrators' edits, restart |
| `PosWarranties` | the inbox of the point of sale, its warranties and those WooCommerce imports or staff enter, edits and removals, crashes |
| `MC...` | instances for TLC |
| `...Proofs` | the TLAPS proofs (section 4) |

`CaseStore` holds every variable of a repair case; the three components extend
it and add actions; `CaseDesk` extends the three. In every module a request, pass or delivery
has a `pc` that names the step after its last `await`, and memory with the
entities it read. An action is one stretch of a handler between two awaits that
matter; a stretch that only reads is joined to the next decision it feeds.

### The repair case

- **changeStatus** is a transaction. `ChangeStatus` takes the lock on the case
  row (419-423), reads the payments *without* a lock (428), and decides
  (425-473); `ChangeStatusCommit` writes case, offer and history at once
  (484-508), frees the lock, and goes on to `ResetForReopen` (517) or `Issue`
  (524), both after the commit. A refused `issue` becomes a warning
  (`IssueRefused`).
- **`repository.save(entity)`** is two steps, as TypeORM does it: read the row
  and compare (`SaveCase`, `SaveOffer`), then update the columns that differed
  (`WriteCase`, `WriteOffer`), whatever the row holds by then. An offer whose
  row is gone is inserted again (`InsertAgain`).
- **findOne** of a case loads `status_history` and `payments`. Saving such an
  entity after a row has been added to one of them makes TypeORM take that row
  out of the relation (`SET case_id = NULL`), which the NOT NULL column refuses:
  the save fails (`SaveCaseFails`). It is an accidental optimistic lock, and it
  is why `update` cannot take a status change back. `fresh` is the set of
  requests whose loaded history is complete. `reopen` escapes it: its case row
  is written before its history row.
- **Locks.** Only SELECT ... FOR UPDATE on the case row is a state (`lock`).
  Updates of the row and insertions of child rows (foreign key) wait for it;
  updates of offers do not.
- **pickup transactions** take their snapshot at `completedCase()` and lock the
  pickup row when they load it for update. The load, the decision and the save
  are one step under that lock; `mem[r].snapshot` is the row the snapshot shows.
  `save()` compares with the snapshot: a column equal to it is not written,
  a row absent from it is inserted and collides if it exists by now.
- **resetForReopen** is one UPDATE.
- **Abort** is a process crash, or an error no handler catches (a deadlock
  victim, a failed save of file rows): the transaction is rolled back, finished
  statements stay.

An offer is its type, status and amount (title and method are not compared by
any rule but the replay check, where the amount stands for them; 0 stands for
NULL); closed_at, locked_until and parts_waiting_started_at are flags; pin_hash
with its dates is one value; a PIN is right or wrong, by nondeterminism. Notes
exist or not. `UpdateCaseDto` has no workflow column and the ValidationPipe
strips others, so `Update` changes none of those modelled. `paidEver`,
`recorded` and `handovers` are history variables. `LockoutEnds` assumes that no
verification started before the lockout is still waiting when it ends: a lock
wait is at most 50 seconds, a lockout lasts 15 minutes.

### Case intake

A case is its number, its partner and whether it has a history. `Create` reads
the newest number (`generateCaseNumber`), `InsertCase` meets the unique key. A
partner case locks its partner first (`LockForCase`); archiveOrDelete is
`ArchiveOrDelete` (lock), `Count`, `Dispose` (write and commit). Rows that come
to name a partner take its row shared, by the foreign key (`MayName`). `update`
of a case may give a partner to a case that has none; a case with a partner
keeps it, because `save()` goes by the relation that was loaded. Saves of rows
removed in between insert them again ("revived"). A standard case may carry a
`partner_id` and is not refused for an archived partner: `PartnerCasesNeedAvailable`
is about partner cases, as the code's check is.

### The shop

No lock at all. `ShopOrders` keeps `order` and `attempt` (rows), the bank's
order, and per request `pc` and `mem`. start is `CreateAttempt` .. `Redirect` or
the catch block (`StartFails`); callback and publicStatus load two rows one after
the other and save both, order first; `SaveOrder`/`WriteOrder` and
`SaveAttempt`/`WriteAttempt` are the two steps of `save()`. updateOrder finds
orders in the trash too: TypeORM leaves `deleted_at: null` out of the query. An
attempt keeps its order from deletion (foreign key of the migrations). Time is
left out: what is in the trash may be purged at any moment. The event log,
viewed_at, the admin note and the amounts are left out; a settings change shows
as online payment being unavailable at any moment (`OnlineUnavailable`).
`source` says how the order was checked out, which no handler changes.

### Trade-in

`job[r]` is the call, `held[r]` its locks, `loaded[r]` what it has read. A
handler reads the quote (`Begin`), opens a transaction and takes the locks of its
`Plan` one stage after another (`Lock`), the shared ones of foreign keys and the
index gap of a DELETE of links included; then it commits (one action per
operation) or is refused. Nobody sees writes before the commit, so they are one
step. `Deadlock(group)` is a cycle of waits, which InnoDB ends by `Rollback` of
one of them. A deployment (`Restart`) may bring other terms, which makes the
customer's signature outdated. "open" stands for pending, contacted and accepted.
Contract's text, signatures and conclusion are read off the rows (`Deal`).

`markQuoteViewed` opens no transaction: it loads the quote (`Begin`), and its save()
reads the row again (`Compare`) and updates the columns that differ, or inserts a
quote that is gone (`MarkQuoteViewed`). The UPDATE waits for a lock on the quote, but
what it writes was read before: after a finalization in between, the quote goes back
to the status and the price it had, although 'Finalized trade-in requests cannot be
edited.' (trade-in.service 667). So the quote of a concluded agreement is final only
for the handlers that lock, which is what `KeepsContract` says: every step is one of
`Contract` or a late save of that handler. A save that compares before and updates
after the commit of finalize writes only what had changed before, hence the
columns of its UPDATE are drawn at `Compare`.

The INSERT of getOrCreate checks its foreign key, and so locks the quote shared,
before it enters the unique index of `quote_id`, where the gap may be locked by
updateQuote or deleteQuote, which go on to the quote: these deadlock, and so do the
handlers of staff links (`OnlyKnownDeadlocks`).

### The supplier's catalogue

`pass` is where a job, a refresh of the timer or of one chosen product stands. A
page is one item: items meet in no rule, and one item may come again on the next
page. `Fetch` is the request with its three attempts; `Find`, `Update`, `LookAgain`,
`Insert` and `SaveItem` are the reads and writes of the loop; `GiveUpItem` and
`Throw` its errors, caught per item or per job. mobileSentrixAutoSyncRunning is
cleared as soon as the promise is returned (797), so it keeps no `Tick` away.
`Restart` is a crash with `onModuleInit`, which gives unfinished jobs up. The
job's own status updates are taken to succeed, and one process to run the jobs: a
second would give up the jobs of the first when it starts. `save()` is one step here and in
`PosWarranties`: a write between its read and its update ends up as if the entity
had been loaded after it. Slugs, prices and pictures are left out.

### The point of sale and WooCommerce

`Deliver` is the lookup of the event's row, `Receive` its save, `Process`, `Update`,
`Create` and `Finish` the work; `Throw` and `Fail` are the catch block, `Crash` the
process. `LookForItem`, `InsertItem` and `GiveUpItem` are one call of
createWarrantyFromOrder, whoever makes it: a webhook and a sync call it once for
every item of an order, at any time, and look for the row first, which the call
does again.

A row of `warranties` is reduced to the columns the two sides look by:
`findExistingPosWarranty` by the analytics id (in `product_id`) or by order, SKU and
serial (`order`), createWarrantyFromOrder by `order_id` and `order_line_index`
(`item`). The point of sale stores every row under index 0, so WooCommerce finds it
only if the item is the first of its order (`first`); WooCommerce stores its own
product id and a serial if it knows one, so the point of sale finds that row only
then. `origin` says what a key was made for and by whom. It gives the unique
`warranty_id` too: an import uses WP-<order>-<product>, which a second import of the
item meets (`Taken`), other numbers are sequential.

Staff load a warranty with its cases (`Load`, `LoadForRemoval`) and save or delete
it later; `save()` carries the loaded list of cases along, so a case that came in
between is unlinked. `Enter` is WarrantiesService.create, by hand or for a row of an
uploaded file. `strays` are the rows one of the two sides cannot find: what staff
entered, or edited out of sight, and what WooCommerce inserted without the serial.

Assumed: the events of an order name it alike; two orders of the model are different
items; an analytics id is not the WooCommerce product id of another row (the
lookup at 1601 does not ask for the order: if the number spaces of the two systems
meet, the event takes over a warranty of another order, and neither property of this
section holds); the items of one order are different products; an edit takes columns away
and does not give a warranty those of another order. Left out: orders with neither
id nor serial number (each of their events makes a warranty), dates and extensions.
Two sequential numbers that meet are a throw.

**TypeORM, InnoDB and Nest** are outside `src/`; they are modelled as the code
relies on them and marked external in the map. The repository pins
`typeorm ^0.3.17` and sets no isolation level, hence REPEATABLE READ. Columns no
rule reads are left out everywhere, with SMS, notifications and the audit log.

## 3. Runs

| run | result | shows |
|---|---|---|
| `technician_desk` | passes | `TypeOK`; `HandedOverOnce`: with technicians only, the device is given out once; `OnlyManagersMoveBack`: no stale save moves a case back; `KeepsPromise`: the desk implements `Handover` |
| `editing` | passes | `StagesCoherent`, `TimelineMatches`, `CompletedPayableWasPaid`, `PaidOnlyByConfirmation` while edits, notes, parts, bank, customer and staff compete with managers' status changes in both directions |
| `reopening` | passes | three requests: `CollectsCompletedOnly`, `OpenCollectionIsBeingCleared` and `OneOfferPerType` while the case is completed, collected, moved back and reopened |
| `waiting` | passes | `EveryRequestReturns` under fairness; `FullCountLocks` |
| `intake` | passes | `NumberingGoesOn`, `OpeningIsRecorded`, `DeletesUnlinkedOnly`, `PartnerCasesNeedAvailable`, `EveryRequestReturns` while cases come in, change and go as their partner is edited, archived, deleted and restored, and requests die |
| `shop` | passes | `PaidWasTaken`, `CompletedWasTaken` whatever stale entities callbacks, polls and edits save; `PaymentIsRecorded` under fairness, in spite of a request that dies |
| `agreement` | passes | `KeepsContract`: the handlers implement `Contract`, late saves of markQuoteViewed apart; `LoadedIsCurrent`, `CancelledIsNotCompleted`, with all handlers, two administrators and two releases |
| `staff_links` | passes | `OnlyKnownDeadlocks`: deadlocks occur, with a staff QR code or with the insertion of the agreement in them; `EveryRequestEnds` by InnoDB's rollback; `OneLinkPerEmployee`, `LinkSignsOnce` |
| `catalogue` | passes | `UnfinishedJobsRun`, `OneProductPerItem`, and `EveryJobEnds` under fairness |
| `pos` | passes | `OneWarrantyPerOrder`, `AnswersNameTheOrder`, `KnownCasesStay`, and `EventsAreProcessed` under fairness |
| `collect_twice` | violated | 'collects exactly once': resetForReopen runs after its commit and clears a later collection |
| `visibility` | violated | 'preserves manually chosen visibility during sync': a refresh writes back the visibility it read before it asked for the exchange rate |

What the passing properties leave open is part of what they say.
`HandedOverOnce` passes with technicians and fails with managers: only a manager
can move a completed case back. `StagesCoherent`, `TimelineMatches` and
`CompletedPayableWasPaid` are stated for desks without `reopen` (or without
managers, whose route it is), which writes the case row on its own; the other ways
back from COMPLETED (changeStatus of a manager) are in their run. `OneOfferPerType`
is stated for desks that neither create offers by `createOffer`, which locks
nothing, nor remove any, which a late save would insert again. `FullCountLocks` is stated for technicians who do
not call `issue`: a verification that began before a new issue may find its count
equal to its snapshot's and not write it. A save of a stale entity may take a
paid shop order back to pending, or a refunded one back to paid: no rule in the
code says otherwise, and the properties say what is kept, that nothing becomes
paid that never was; an order to be paid on site may be set to online and
completed in one edit, so `CompletedWasTaken` is about orders checked out online.
`OneWarrantyPerOrder` names its exceptions, and TLC finds a violation when any one of
them is dropped (a row brought back takes a second clerk): two deliveries of one order
at once, or a delivery and an import, do make two warranties, for the inbox row is no
lock; and where the point of sale and
WooCommerce look by different columns (a stray, or an item that is not the first),
each makes its own. Two imports at once do not: they meet in the unique number.

Messages of the code that hold only without interleaving, for the same reason as
the two violated runs, and are not properties: 'Paid offers cannot be edited'
(payments 170) and the removal of an offer (293), which may have been paid since
it was loaded; 'Payable cases can only be completed after payment is marked as
paid' (cases 466) when a failed callback comes between check and commit
(`CompletedPayableWasPaid` is what remains); 'Finalized trade-in requests cannot be
edited.' (trade-in 667), which markQuoteViewed does not ask for; 'Archived partners
must be restored before editing' (partners 87): an edit loaded before writes archived_at back; a
second offer by two calls of `createOffer`; name and drawing of two
representatives on one draft agreement (agreement 391).

**Bounds.** Two requests are enough for every pair of handlers, three where a
third must act between two (`reopening`). One result covers the branches the
run is about (`covered` gets its default offer, `payable` needs a payment);
amounts, offers and texts matter only as equal or different, so two suffice.
Keys are bounded (`MaxOffers`, `MaxCases`, `MaxProducts`, `MaxWarranties`, tokens
and links): where the bound could stop a request half way, room is reserved
(`RoomForOffer`) or the insertion fails as it would for another reason
(`InsertCaseFails`, `GiveUpItem`, `Throw` when `Exhausted`). `MaxAttempts` is 2 or 3
instead of 5: the limit is reached and passed. `catalogue` has one job, one other
pass, one starter, two edits, two pages; the proofs of section 4 are for any
number. With two starters the look and the insertion of a job (300) are apart and
two jobs run, which only the import's `OneProductPerItem` would notice. `pos` has
one order, whose item is the first of its shop order or not, and one event, which is
due a warranty or not; two deliveries at once, an import, a clerk, a case, three
rows and one fault. A second event of the order would add nothing: an event that
failed is processed again just as another one is; and orders meet in no rule but
the numbers (the proofs are for any number of both). `agreement` leaves staff links
to `staff_links`, which leaves drafts and customers to it. `ShopOrders` has two requests and one
crash. Runs say CHECK_DEADLOCK FALSE where the system may stop: the shop when
its only order is deleted for good, the point of sale when the bounded calls
have run out.

**Fairness.** Steps of an accepted request are fair: the event loop resumes every
request whose await is answered, and InnoDB grants a row lock in the order of the
requests, so one that is enabled again and again is granted (strong fairness
where locks are waited for, weak elsewhere). New calls are not fair: nobody has
to call. The bank is assumed to repeat a confirmation until the shop has recorded
it, and the point of sale an event until it is answered (strong fairness of that
callback and of `Deliver`). The supplier is assumed to answer or to break the
connection, for the code sets no timeout on its requests.

## 4. Proofs

For all values of the constants (any number of requests, rows, routes):

- `TypeCorrect`, `ShopTypeCorrect`, `TypesAreKept`, `CatalogTypeCorrect`,
  `IntakeTypeCorrect`, `PosTypeCorrect`: `Spec => []TypeOK` of the six systems.
- `StagesStayCoherent`, `TimelineStaysMatched` (`CaseDeskProofs`): neither is
  inductive, for an `update` writes back the whole entity it loaded. The
  strengthening is `StagesKept`: an entity that is still `fresh` agrees with the
  row in the stage columns, and the columns a save found changed are at most
  `partsWaiting`. It is inductive because a status change adds a history row,
  which empties `fresh`.
- `PaidOnlyConfirmed` and `CompletedPayableWasAlwaysPaid` (`CasePaymentProofs`),
  from `PaidIsConfirmed` (a request holds a paid offer only to confirm it, a paid
  payable offer has been confirmed) with `RowsSettled` (the row a status change
  is about to write satisfies the property already).
- `CollectsCompleted` and `OneOfferOfEachType` (`CasePaymentProofs`) rest on
  `LockHeld`: between the halves of changeStatus, or of a collection without a PIN,
  a request holds the lock on the case row. So the case is at the commit what it
  was at the look (`FoundCompleted`), and an offer is inserted under the lock that
  saw none of its type (`OfferWork`).
- `TechniciansGoForward`, `TechniciansHandOverOnce` and `TechniciansKeepPromise`
  (the last two in `CasePickupProofs`): the row a technician is about to write is
  not behind the case (`GoesForward`), hence no collection is ever cleared, and the
  number of handovers is the `collected` of the pickup row (`GivenOnce`). The last
  is the refinement of `Handover`; managers are excluded, as `collect_twice` demands.
- `FullCountAlwaysLocks` (`CasePickupProofs`): `FullCountLocks` is not inductive, for
  a verification adds to the count of its snapshot and saves only the columns that
  differ from it. Technicians complete a case once, so without the route `issue` the
  PIN goes once into a row nobody tried on (`OneIssue`), and a lockout that is over
  was over in every snapshot still to be saved (`PastAsSeen`). Hence a full count
  comes with a lock (`CountLocks`). A PIN issued again resets the count under
  verifications that remember the old one; the property excludes it.
- `OpenCollectionsAreCleared` (`CasePickupProofs`): a collection on an open case is one
  `reset` or `reopenReset` away from being cleared. The invariants: only `reopen`
  saves an earlier stage (`OnlyReopenSaves`), a collection without a PIN finds the
  case completed (`FoundCompleted`), who moved a case back stays at its reset
  (`ResetStays`), and a case that moves back is reset next (`MoveBackClears`).
  Managers need the theorem's hypotheses, for the code lets three things come between
  the commit and the reset, after which the collection stays: a verification
  that saves after the reset, a reset whose statement fails, and an edit that
  loaded the case before `reopen` and saves after it.
- `PaidWasAlwaysTaken`, `CompletedWasAlwaysTaken` (`ShopOrdersProofs`), from
  `PaymentInv`: whatever a request holds - entities, or the state a callback
  announced - agrees with the bank as the rows must (`HeldWasTaken`), since a row
  is a mixture of the columns it had and those of an entity; an order checked out
  online stays online (`OnlineStaysOnline`); and the start runs once
  (`StartedOnce`), so the bank never starts afresh after a payment.
- `LocksKeepReadings`, `CancelledStaysCancelled` and `AgreementIsContract`
  (`TradeInProofs`): `LoadedIsCurrent`, `CancelledIsNotCompleted`, and the refinement,
  `Spec => KeepsContract`. `UnviewedIsContract` is the refinement without an exception,
  `Spec => Deal!Spec`, where markQuoteViewed is not among the operations served. The invariant is `IInv`: exclusive locks exclude
  (`Alone`), no agreement is inserted into a locked gap (`GapIsEmpty`), the rows
  are related as Contract's are (`RowsAgree`), and what was read under a lock is
  the row (`Current`). Every commit is then a Draft, a Conclude or a stutter of
  Contract, or a late save of markQuoteViewed.
- `EmployeesHaveOneLink` and `LinksSignOnce` (`TradeInProofs`), from `LinkInv`:
  locks on links exclude, the key of a link being issued is new and of one request,
  and a link found open under its lock was at most withdrawn since. `OnlyKnownDeadlocksOccur`:
  without a staff link every wait is for the agreement or the quote; without
  getOrCreate or without the three that lock agreement and quote they are locked in one
  order, so the waits cannot form a circle.
- `JobsStayManned` (`CatalogProofs`): `UnfinishedJobsRun` is inductive once a pass
  of a job is known to be at a step a job has.
- `OneStarterOneProduct` (`CatalogProofs`): the import looks a product up and inserts
  it later, so two jobs at once can make two products of an item. The look for an
  unfinished job and the start of one are two steps as well, so two administrators
  can start two jobs; one cannot (`OneStarterOneJob`, from `DeskIsClear`: between
  look and start no job is unfinished). While one job runs, the item it found
  missing is still missing when it inserts (`InsertedIsNew`), because refreshers and
  editors write only rows that exist (`OnlyJobsImport`) and an entity in memory has
  the item of its row (`EntitiesAgree`). `OneJobMakesOneProduct` says the same under
  the assumption `[]OneJobAtATime` itself.
- `PartnersStayGuarded`, `UnlinkedOnlyDeleted`, `AvailablePartnersOnly`
  (`IntakeProofs`): the invariant is `PartnersGuarded`: who has a partner's row
  locked finds it as it was when the lock was taken, and after a count of zero no
  case comes to name it, since the foreign key waits for the lock.
- `NumberingContinues` and `OpeningsAreRecorded` (`IntakeProofs`): as long as no
  case was removed, the case under key k has number k and a number that was drawn
  follows that of a stored case (`NumbersInv`), so if it is free at the insertion it
  is the next one still. The second is inductive.
- `AnswersAreRight`, `OrdersHaveOneWarranty` and `KnownCasesRemain` (`PosProofs`): the
  first rests on `Home`: rows, saves in memory, handlers and inbox agree with `origin`,
  which only an insertion extends. The second is `OneInv`: a row that is no stray is
  found by both sides, as far as they can (`FindablesAreFound`); stored imports have
  different numbers (`NumbersDiffer`); two deliveries at work on an order, or a
  delivery and an import, put it into `overlapped` (`MeetingsAreKnown`), so a delivery
  that found nothing still finds nothing (`StillMissing`), and an import (`NotMadeYet`).

Liveness needs fairness and ENABLED, both out of the prover's reach; what it needs
besides them is proved of the model:

- `LockHoldersGoOn` (`CasePaymentProofs`), for `EveryRequestReturns` of the desk: the
  only wait is for the lock on the case row, and who has it has a step to take.
  Every way out releases the lock (`LockUsed`), and an offer that is to be inserted
  finds a key: at least as many are unused as requests are about to insert
  (`OffersSetAside`, an argument by counting, hence the hypothesis that `Requests` is
  finite), because saves write only under keys already used (`OfferKept`).
- `PartnerLocksAreGivenBack` (`IntakeProofs`), for `EveryRequestReturns` of the intake:
  a locked partner is locked by a request inside its transaction.
- `ConfirmationsAreHeard` (`ShopOrdersProofs`), for `PaymentIsRecorded`: until the
  payment is recorded, the bank's confirmation finds the attempt by its link, finds
  the order, and is not passed over as processed. The invariant is `ConfirmInv`: one
  request starts the order at the bank, and knows the link before the customer can
  pay (`StartFits`); no attempt in memory has lost the link (`LinkFits`); who is to
  save an attempt as paid saves, or has saved, the order as paid first, under a row
  that is there (`PaymentFits`).
- `JobsOnlyAdvance` (`CatalogProofs`), for `EveryJobEnds`: `Left`, the steps a job has
  left at most, falls with each of them. With `JobsStayManned` a job that has none left
  is finished.

Assumptions: the named ASSUMEs of the modules (types of the constants, `Nobody` is
no request). Model-checked only: liveness (`EveryRequestReturns` of desk and
intake, `EveryRequestEnds`, `PaymentIsRecorded`, `EveryJobEnds`, `EventsAreProcessed`),
beyond the theorems just listed; and the two claims of tests that runs refute.

## 5. Not modelled

Parts that hold no state another part decides on: SLA alerts, SMS log,
notifications, files, users, settings, audit, queries, the frontend. The schemes of
quote and order numbers, which are the scheme of the case numbers (`NextNumber`)
again. In the modelled parts: an employee's saved signature, deletion of internal notes, checkouts of two
orders under one `checkout_request_id` (a unique key), products of the shop other
than the supplier's.

## 6. Plan

Done: the repair case, the shop's orders, trade-in, catalogue, intake, point of
sale and the warranties of WooCommerce; every safety property that a passing run
checks is a theorem, the liveness properties are checked, and section 4 says what of them is proved. What could
follow: the steps a request of the desk or of the point of sale has left, as `Left`
counts them for a job; what `reopen` leaves of `StagesCoherent` and of
`CompletedPayableWasPaid`, which are proved without it; the SLA alerts as a component
of their own, should they come to write what others read.
