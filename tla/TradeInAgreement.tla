-------------------------- MODULE TradeInAgreement ---------------------------
(***************************************************************************)
(* One trade-in quote, its purchase agreement and the QR links on which    *)
(* customer and staff sign it (trade-in-agreement.service; updateQuote,    *)
(* markQuoteViewed and deleteQuote of trade-in.service).                   *)
(*                                                                         *)
(* A request reads, opens a transaction, locks rows one after another      *)
(* (SELECT ... FOR UPDATE, the rows a DELETE removes, the parents that     *)
(* foreign keys check), and writes; nobody sees its writes before it       *)
(* commits, so they are one step here. InnoDB rolls a transaction back     *)
(* when it closes a cycle of waits. Handlers of other quotes share only    *)
(* the rows of `users` with these, and only to read them.                  *)
(***************************************************************************)
EXTENDS Integers

CONSTANTS
  Requests,    \* the HTTP calls that may be served at the same time
  Served,      \* the operations that are called
  Users,       \* administrators, who represent the shop
  Offers,      \* what name, phone, device and price can say
  Incomplete,  \* details that requireCompleteDetails refuses
  Nobody,
  MaxTokens,   \* bound: QR codes for the customer
  MaxLinks,    \* bound: QR codes for staff
  MaxReleases  \* bound: releases of the backend, each with terms of its own

VARIABLES
  quote,      \* the row of trade_in_quotes
  agreement,  \* the row of trade_in_agreements
  late,       \* signing_token_expires_at has passed
  links,      \* the rows of trade_in_staff_signing_links
  release,    \* the terms the running backend has compiled in
  drawn,      \* how many tokens were drawn for customers and for staff
  job,        \* what every request was called with
  held,       \* the locks of its transaction
  loaded      \* the rows it has read

db == <<quote, agreement, late, links, release, drawn>>
vars == <<quote, agreement, late, links, release, drawn, job, held, loaded>>
-----------------------------------------------------------------------------
Texts == Offers \union {Incomplete}
Links == 1 .. MaxLinks

(* "open" is pending, contacted and accepted: no rule tells them apart.
   "gone": the row is deleted. *)
QuoteStatus == {"open", "completed", "cancelled", "gone"}
TradeInQuote == [status : QuoteStatus, offer : Offers, viewed : BOOLEAN]

(* `release` is terms_hash, `name` representative_name; a customer signature is
   the release it was given under, 0 is none; `drawing` is whose hand
   representative_signature is; token 0 is no token. *)
Signers == Users \union {Nobody}
AgreementDetails ==
  [text : Texts, release : 0 .. MaxReleases, name : Signers]
AgreementRow ==
  [exists : BOOLEAN, details : AgreementDetails, customer : 0 .. MaxReleases,
   drawing : Signers, user : Signers, token : 0 .. MaxTokens, final : BOOLEAN]

NoAgreement ==
  [exists |-> FALSE,
   details |-> [text |-> Incomplete, release |-> 0, name |-> Nobody],
   customer |-> 0, drawing |-> Nobody, user |-> Nobody, token |-> 0,
   final |-> FALSE]

(* A link of purpose 'agreement'; "none": not issued yet; "void": expired. *)
LinkStates == {"none", "open", "used", "void", "deleted"}
StaffSigningLink ==
  [state : {"none"}, user : {Nobody}]
  \union [state : LinkStates \ {"none"}, user : Users]
NoLink == [state |-> "none", user |-> Nobody]
Stored(l) == links[l].state \in {"open", "used", "void"}

(* A call and its arguments. *)
Operations ==
  {"getOrCreate", "saveDraft", "startSigning", "submitCustomerSignature",
   "startStaffSigning", "submitStaffSignature", "setRepresentativeSignature",
   "finalize", "updateQuote", "markQuoteViewed", "deleteQuote"}
ASSUME TradeInAssumption ==
  /\ Incomplete \notin Offers /\ Nobody \notin Users \union Texts
  /\ Served \subseteq Operations
  /\ MaxTokens \in Nat /\ MaxLinks \in Nat /\ MaxReleases \in Nat \ {0}

NoJob ==
  [op |-> "none", user |-> Nobody, item |-> 0, text |-> Incomplete,
   status |-> "any"]
Job ==
  {j \in [op : Operations \union {"none"}, user : Signers, item : Nat,
          text : Texts, status : QuoteStatus \union {"any"}] :
     /\ j.op \in {"startStaffSigning", "submitStaffSignature"} => j.item \in Links
     /\ j.op = "startSigning" => j.item \in 1 .. MaxTokens
     /\ j.op \in {"getOrCreate", "saveDraft", "startStaffSigning", "finalize",
                  "submitStaffSignature", "setRepresentativeSignature"}
          => j.user \in Users}

(* markQuoteViewed begins with the entity it has loaded, and its `item` is how
   far it is with it; save() then finds the row and writes what differs, or
   does not and inserts the entity. *)
Entity == 0
Updates == 1
Inserts == 2

(* The calls that can be made; `item` is a token or a link. The tokens of a
   call that issues one are drawn when it begins. *)
Call(ops, users, items, texts, statuses) ==
  [op : ops, user : users, item : items, text : texts, status : statuses]
No == {Nobody}
Calls ==
  Call({"deleteQuote"}, No, {0}, {Incomplete}, {"any"})
  \union Call({"startSigning"}, No, {drawn.customer + 1} \ {MaxTokens + 1},
              {Incomplete}, {"any"})
  \union Call({"startStaffSigning"}, Users, {drawn.staff + 1} \ {MaxLinks + 1},
              {Incomplete}, {"any"})
  \union Call({"getOrCreate", "setRepresentativeSignature", "finalize"}, Users,
              {0}, {Incomplete}, {"any"})
  \union Call({"saveDraft"}, Users, {0}, Texts, {"any"})
  \union Call({"submitCustomerSignature"}, No, 1 .. drawn.customer,
              {Incomplete}, {"any"})
  \union {j \in Call({"submitStaffSignature"}, Users, Links, {Incomplete}, {"any"}) :
            Stored(j.item) /\ links[j.item].user = j.user}
  \union Call({"markQuoteViewed"}, No, {Entity}, {quote.offer}, {quote.status})
  \union Call({"updateQuote"}, No, {0}, Texts,
              {"any", "open", "completed", "cancelled"})

(* What a transaction has read: the agreement and the quote, the agreement as
   of its snapshot, the state of the link it signs on. *)
Loaded ==
  [agreement : AgreementRow,
   quote : [status : QuoteStatus, offer : Texts, viewed : BOOLEAN],
   base : AgreementRow, link : LinkStates]
NothingRead ==
  [agreement |-> NoAgreement,
   quote |-> [status |-> "gone", offer |-> Incomplete, viewed |-> FALSE],
   base |-> NoAgreement, link |-> "none"]
-----------------------------------------------------------------------------
(* Rows and locks. LinkGap is the gap of the index of links that a DELETE of
   an employee's links locks: neighbours in the index have it in common. *)
Agreement == <<"agreement", 0>>
Quote == <<"quote", 0>>
LinkGap == <<"gap", 0>>
User(u) == <<"user", u>>
Link(l) == <<"link", l>>
Rows == {Agreement, Quote, LinkGap} \union {User(u) : u \in Users}
        \union {Link(l) : l \in Links}

X(row) == [row |-> row, mode |-> "X"]   \* exclusive
S(row) == [row |-> row, mode |-> "S"]   \* shared, or a gap
I(row) == [row |-> row, mode |-> "I"]   \* insertion into a gap
Locks == [row : Rows, mode : {"X", "S", "I"}]

(* Whether the held lock b keeps another transaction from taking a. *)
Blocks(b, a) ==
  /\ a.row = b.row
  /\ \/ "X" \in {a.mode, b.mode}
     \/ a.mode = "I" /\ b.mode = "S"

OpenLinksOf(u) == {l \in Links : links[l].state = "open" /\ links[l].user = u}
LinksOf(u) == {l \in Links : Stored(l) /\ links[l].user = u}
XLinks(ls) == {X(Link(l)) : l \in ls}

(* A locking read that finds no agreement locks the gap: other readers may
   share it, an insertion may not. *)
AgreementOrGap == IF agreement.exists THEN X(Agreement) ELSE S(Agreement)

DraftReads == {S(Agreement)}
DraftLocks == {X(Agreement)}

FinalizeLocksQuoteFirst(j) == <<{X(Quote)}, {X(Agreement)}, {S(User(j.user))}>>
FinalizeLocks(j) == <<{X(Agreement)}, {X(Quote)}, {S(User(j.user))}>>

(* The locks of a transaction, in the order it takes them. An insertion locks
   the parent of a foreign key before it enters the index of that key, which
   for the agreement is the unique one. *)
Plan(j) ==
  CASE j.op = "getOrCreate" -> <<{S(Quote)}, {X(Agreement)}, {}>>
    [] j.op \in {"saveDraft", "startSigning", "submitCustomerSignature"} ->
         <<DraftLocks, {}, {}>>
    [] j.op = "setRepresentativeSignature" ->
         <<{X(Agreement)},
           IF agreement.user = j.user THEN {} ELSE {S(User(j.user))},
           {S(LinkGap)} \union XLinks(LinksOf(j.user))>>
    [] j.op = "startStaffSigning" ->
         <<{X(User(j.user))},
           {S(LinkGap)} \union XLinks(LinksOf(j.user)),
           {I(LinkGap), S(Quote)}>>
    [] j.op = "submitStaffSignature" ->
         <<{X(Link(j.item))}, {X(Agreement)}, {S(User(j.user))}>>
    [] j.op = "finalize" -> FinalizeLocks(j)
    [] j.op = "updateQuote" -> <<{AgreementOrGap}, {X(Quote)}, {}>>
    [] j.op = "markQuoteViewed" /\ j.item # Entity -> <<{X(Quote)}, {}, {}>>
    [] j.op = "deleteQuote" ->
         <<{AgreementOrGap}, {X(Quote)},
           XLinks({l \in Links : Stored(l)})>>
    [] OTHER -> <<{}, {}, {}>>

(* The first step of its plan that a transaction has not done; 4: all are. *)
Stage(r) ==
  LET plan == Plan(job[r]) IN
  IF ~(plan[1] \subseteq held[r]) THEN 1
  ELSE IF ~(plan[2] \subseteq held[r]) THEN 2
  ELSE IF ~(plan[3] \subseteq held[r]) THEN 3 ELSE 4

Busy(r) == job[r].op # "none"
Missing(r) == Plan(job[r])[Stage(r)] \ held[r]
WaitsFor(r, s) ==
  /\ r # s /\ held[s] # {} /\ Busy(r) /\ Stage(r) < 4
  /\ \E a \in Missing(r), b \in held[s] : Blocks(b, a)

(* A cycle of waits: each of the group waits for another of it and keeps
   another of it waiting. *)
Deadlock(group) ==
  \A r \in group : /\ \E s \in group : WaitsFor(r, s)
                   /\ \E s \in group : WaitsFor(s, r)
-----------------------------------------------------------------------------
(* What a handler refuses, on the rows it has read by the k-th step. *)
Open(q) == q.status \notin {"cancelled", "gone"}
Signable(a) == a.exists /\ ~a.final

(* findOne with `select: ['finalized_at']` makes no entity of a row whose only
   selected column is NULL: updateQuote sees the agreement when it is final. *)
SeesAgreement(a) == a.exists /\ a.final

SignedByBoth(a) ==
  a.details.release = release /\ a.customer # 0 /\ a.drawing # Nobody
Complete(a) ==
  /\ a.details.text # Incomplete /\ a.details.release = release
  /\ a.customer # 0 /\ a.drawing # Nobody

IsToken(a, j) == a.token = j.item

IsIssued(link) == link # "none"
IsOpen(link) == link = "open"

MaySetAnyStatus(j, q) == TRUE
MaySetStatus(j, q) == j.status = "completed" => q.status = "completed"

MayCompleteCancelled(q) == q.status # "gone"
MayComplete(q) == Open(q)

(* Before the transaction. *)
Welcome(j) ==
  CASE j.op = "getOrCreate" -> Open(quote) /\ ~agreement.exists
    [] j.op \in {"saveDraft", "startSigning"} -> Open(quote)
    [] j.op = "submitCustomerSignature" ->
         /\ Signable(agreement) /\ agreement.token = j.item /\ ~late
         /\ Open(quote)
    [] j.op = "submitStaffSignature" -> links[j.item].state = "open"
    [] j.op = "deleteQuote" -> quote.status # "gone"
    [] j.op = "markQuoteViewed" -> quote.status # "gone" /\ ~quote.viewed
    [] OTHER -> TRUE

Admitted(r, k) ==
  LET j == job[r]
      a == loaded[r].agreement
      q == loaded[r].quote IN
  CASE j.op = "getOrCreate" ->
         /\ k > 1 => q.status # "gone"
         /\ k > 2 => ~a.exists
    [] j.op \in {"saveDraft", "startSigning", "setRepresentativeSignature"} ->
         k > 1 => Signable(a)
    [] j.op = "submitCustomerSignature" -> k > 1 => Signable(a) /\ IsToken(a, j)
    [] j.op = "startStaffSigning" ->
         /\ k > 1 => Open(q) /\ Signable(a)
         /\ k > 3 => quote.status # "gone"
    [] j.op = "submitStaffSignature" ->
         /\ k > 1 => IsOpen(loaded[r].link)
         /\ k > 2 => Open(q) /\ Signable(a)
    [] j.op = "finalize" ->
         /\ k > 1 => Signable(a)
         /\ k > 2 => MayComplete(q) /\ Complete(a)
    [] j.op = "updateQuote" ->
         /\ k > 1 => ~(SeesAgreement(a) /\ a.final)
         /\ k > 2 => /\ q.status # "gone"
                     /\ ~(SeesAgreement(a) /\ j.text # Incomplete)
                     /\ MaySetStatus(j, q)
    [] j.op = "markQuoteViewed" ->
         k > 1 /\ j.item # Entity => (q.status = "gone") = (j.item = Inserts)
    [] j.op = "deleteQuote" -> k > 1 => ~a.final
    [] OTHER -> FALSE

(* What a transaction reads when it has done the k-th step: the rows it locks
   as they are; submitStaffSignature and startStaffSigning take their snapshot
   after their first lock and read the quote (the latter the agreement too)
   from it. *)
Read(j, l, k) ==
  LET locks == Plan(j)[k]
      snapshot == k = 1 /\ j.op \in {"submitStaffSignature", "startStaffSigning"} IN
  [agreement |-> IF snapshot \/ {X(Agreement), S(Agreement)} \intersect locks # {}
                   THEN agreement ELSE l.agreement,
   quote |-> IF snapshot \/ {X(Quote), S(Quote)} \intersect locks # {}
               THEN quote ELSE l.quote,
   base |-> IF snapshot THEN agreement ELSE l.base,
   link |-> IF k = 1 /\ j.op = "submitStaffSignature"
              THEN links[j.item].state ELSE l.link]
-----------------------------------------------------------------------------
(* manager.save(entity) writes the columns that differ from the row that `base`
   shows, and the columns with `select: false`, which base does not have:
   customer_signature, representative_signature, signing_token_hash. *)
Save(e, base) ==
  [e EXCEPT
    !.details = IF e.details = base.details THEN agreement.details ELSE e.details,
    !.user = IF e.user = base.user THEN agreement.user ELSE e.user,
    !.final = IF e.final = base.final THEN agreement.final ELSE e.final]

Deleted(ls) ==
  [l \in Links |-> IF l \in ls THEN [links[l] EXCEPT !.state = "deleted"]
                               ELSE links[l]]

End(r) ==
  /\ job' = [job EXCEPT ![r] = NoJob]
  /\ held' = [held EXCEPT ![r] = {}]
  /\ loaded' = [loaded EXCEPT ![r] = NothingRead]

Begin(r) ==
  /\ ~Busy(r)
  /\ \E j \in Calls :
       /\ j.op \in Served /\ Welcome(j)
       /\ job' = [job EXCEPT ![r] = j]
       /\ drawn' = [customer |-> IF j.op = "startSigning"
                                   THEN j.item ELSE drawn.customer,
                    staff |-> IF j.op = "startStaffSigning"
                                THEN j.item ELSE drawn.staff]
  /\ UNCHANGED <<quote, agreement, late, links, release, held, loaded>>

(* save() of markQuoteViewed reads the row again, for what it has to write. *)
Differing(j) ==
  IF quote.status = "gone" THEN [j EXCEPT !.item = Inserts]
  ELSE [j EXCEPT !.item = Updates,
                 !.status = IF @ = quote.status THEN "any" ELSE @,
                 !.text = IF @ = quote.offer THEN Incomplete ELSE @]
Compare(r) ==
  /\ job[r].op = "markQuoteViewed" /\ job[r].item = Entity
  /\ job' = [job EXCEPT ![r] = Differing(@)]
  /\ UNCHANGED <<db, held, loaded>>

Lock(r) ==
  /\ Busy(r) /\ Stage(r) < 4 /\ Admitted(r, Stage(r))
  /\ \A s \in Requests : ~WaitsFor(r, s)
  /\ held' = [held EXCEPT ![r] = @ \union Missing(r)]
  /\ loaded' = [loaded EXCEPT ![r] = Read(job[r], @, Stage(r))]
  /\ UNCHANGED <<db, job>>

RefuseWhileLocking(r) ==
  /\ Busy(r) /\ Stage(r) < 4 /\ ~Admitted(r, Stage(r))
  /\ End(r) /\ UNCHANGED db

(* An early return; is_postponed may be set for the employee at any time. *)
Refuse(r) ==
  /\ Busy(r)
  /\ \/ ~Admitted(r, Stage(r))
     \/ /\ job[r].op \in {"startStaffSigning", "submitStaffSignature"}
        /\ Stage(r) > 1
  /\ End(r) /\ UNCHANGED db

(* InnoDB rolls back a transaction of a cycle of waits. *)
Rollback(r) ==
  /\ \E group \in SUBSET Requests : r \in group /\ Deadlock(group)
  /\ End(r) /\ UNCHANGED db

(* The last step of a transaction: its writes, and its commit. *)
Commits(r, op) ==
  /\ job[r].op = op /\ Stage(r) = 4 /\ Admitted(r, 4)
  /\ End(r)

GetOrCreate(r) ==
  /\ Commits(r, "getOrCreate")
  /\ agreement' = [NoAgreement EXCEPT
       !.exists = TRUE, !.details.release = release, !.details.name = job[r].user]
  /\ UNCHANGED <<quote, late, links, release, drawn>>

SaveDraft(r) ==
  LET a == loaded[r].agreement IN
  /\ Commits(r, "saveDraft")
  /\ agreement' = Save([a EXCEPT !.details =
       [text |-> job[r].text, release |-> release,
        name |-> IF a.drawing = Nobody THEN job[r].user ELSE a.details.name]],
       agreement)
  /\ UNCHANGED <<quote, late, links, release, drawn>>

StartSigning(r) ==
  /\ Commits(r, "startSigning")
  /\ agreement' = Save([loaded[r].agreement EXCEPT
       !.token = job[r].item, !.customer = 0], agreement)
  /\ late' = FALSE
  /\ UNCHANGED <<quote, links, release, drawn>>

(* One conditional UPDATE. *)
SubmitCustomerSignature(r) ==
  /\ Commits(r, "submitCustomerSignature")
  /\ agreement' = [agreement EXCEPT !.customer = release, !.token = 0]
  /\ late' = FALSE
  /\ UNCHANGED <<quote, links, release, drawn>>

StartStaffSigning(r) ==
  /\ Commits(r, "startStaffSigning")
  /\ links' = [Deleted(LinksOf(job[r].user)) EXCEPT
       ![job[r].item] = [state |-> "open", user |-> job[r].user]]
  /\ UNCHANGED <<quote, agreement, late, release, drawn>>

SubmitStaffSignature(r) ==
  LET u == job[r].user IN
  /\ Commits(r, "submitStaffSignature")
  /\ agreement' = Save([loaded[r].agreement EXCEPT
       !.drawing = u, !.user = u, !.details.name = u], loaded[r].base)
  /\ links' = [links EXCEPT ![job[r].item] = [state |-> "used", user |-> u]]
  /\ UNCHANGED <<quote, late, release, drawn>>

(* From a saved profile of the user's or from a drawing sent along. *)
SetRepresentativeSignature(r) ==
  LET u == job[r].user IN
  /\ Commits(r, "setRepresentativeSignature")
  /\ agreement' = Save([loaded[r].agreement EXCEPT
       !.drawing = u, !.user = u, !.details.name = u], agreement)
  /\ links' = Deleted(LinksOf(u))
  /\ UNCHANGED <<quote, late, release, drawn>>

Finalize(r) ==
  LET a == loaded[r].agreement IN
  /\ Commits(r, "finalize")
  /\ agreement' = Save([a EXCEPT !.final = TRUE, !.token = 0], agreement)
  /\ quote' = [quote EXCEPT !.status = "completed", !.offer = a.details.text]
  /\ late' = FALSE
  /\ UNCHANGED <<links, release, drawn>>

Written(j, q) ==
  [status |-> IF j.status = "any" THEN q.status ELSE j.status,
   offer |-> IF j.text = Incomplete THEN q.offer ELSE j.text,
   viewed |-> TRUE]

UpdateQuote(r) ==
  LET j == job[r] IN
  /\ Commits(r, "updateQuote")
  /\ quote' = Written(j, loaded[r].quote)
  /\ agreement' =
       IF j.status = "cancelled" /\ SeesAgreement(loaded[r].agreement)
         THEN [agreement EXCEPT !.customer = 0, !.drawing = Nobody,
                                !.user = Nobody, !.token = 0]
         ELSE agreement
  /\ UNCHANGED <<late, links, release, drawn>>

MarkQuoteViewed(r) ==
  /\ Commits(r, "markQuoteViewed") /\ job[r].item # Entity
  /\ quote' = Written(job[r], quote)
  /\ UNCHANGED <<agreement, late, links, release, drawn>>

DeleteQuote(r) ==
  /\ Commits(r, "deleteQuote")
  /\ agreement' = NoAgreement /\ late' = FALSE
  /\ quote' = [quote EXCEPT !.status = "gone", !.viewed = FALSE]
  /\ links' = Deleted({l \in Links : Stored(l)})
  /\ UNCHANGED <<release, drawn>>

(* Fifteen minutes pass. *)
Expire ==
  \/ /\ agreement.token # 0 /\ late' = TRUE
     /\ UNCHANGED <<quote, agreement, links, release, drawn, job, held, loaded>>
  \/ /\ \E l \in Links : /\ links[l].state = "open"
                         /\ links' = [links EXCEPT ![l].state = "void"]
     /\ UNCHANGED <<quote, agreement, late, release, drawn, job, held, loaded>>

(* The backend dies or is replaced, maybe by a release with other terms: its
   connections close and its transactions roll back. *)
Restart ==
  /\ release' \in {release, release + 1} \intersect 1 .. MaxReleases
  /\ job' = [r \in Requests |-> NoJob]
  /\ held' = [r \in Requests |-> {}]
  /\ loaded' = [r \in Requests |-> NothingRead]
  /\ UNCHANGED <<quote, agreement, late, links, drawn>>

Init ==
  /\ quote \in [status : {"open"}, offer : Offers, viewed : {FALSE}]
  /\ agreement = NoAgreement /\ late = FALSE
  /\ links = [l \in Links |-> NoLink]
  /\ release = 1 /\ drawn = [customer |-> 0, staff |-> 0]
  /\ job = [r \in Requests |-> NoJob]
  /\ held = [r \in Requests |-> {}]
  /\ loaded = [r \in Requests |-> NothingRead]

Commit(r) ==
  \/ GetOrCreate(r) \/ SaveDraft(r) \/ StartSigning(r)
  \/ SubmitCustomerSignature(r) \/ StartStaffSigning(r)
  \/ SubmitStaffSignature(r) \/ SetRepresentativeSignature(r)
  \/ Finalize(r) \/ UpdateQuote(r) \/ MarkQuoteViewed(r) \/ DeleteQuote(r)

Next ==
  \/ \E r \in Requests :
       Begin(r) \/ Compare(r) \/ Lock(r) \/ Refuse(r) \/ Rollback(r) \/ Commit(r)
  \/ Expire \/ Restart

(* InnoDB grants locks in the order they were asked for, so a request that can
   get its lock again and again does; the rest of a handler only needs the
   event loop and the database to go on. *)
Fairness ==
  \A r \in Requests :
    /\ SF_vars(Lock(r))
    /\ WF_vars(Compare(r) \/ Refuse(r) \/ Rollback(r) \/ Commit(r))

Spec == Init /\ [][Next]_vars
FairSpec == Spec /\ Fairness
-----------------------------------------------------------------------------
TypeOK ==
  /\ quote \in TradeInQuote /\ agreement \in AgreementRow
  /\ late \in BOOLEAN /\ links \in [Links -> StaffSigningLink]
  /\ release \in 1 .. MaxReleases
  /\ drawn \in [customer : 0 .. MaxTokens, staff : 0 .. MaxLinks]
  /\ job \in [Requests -> Job]
  /\ held \in [Requests -> SUBSET Locks]
  /\ loaded \in [Requests -> Loaded]

(* The agreement keeps what a contract promises: it is concluded once, signed
   by both parties, on complete details; its quote is completed then and only
   then, at the agreed terms; the agreement never changes afterwards, and the
   quote only by markQuoteViewed, whose save() may write back a status and an
   offer it loaded before. At stake are the early reads of the quote, which may
   be cancelled or edited before the agreement is locked, and the writes of
   handlers that read it before. *)
Deal == INSTANCE Contract WITH
  Texts <- Offers \union {Incomplete},
  FullTexts <- Offers,
  NoText <- Nobody,
  text <- IF agreement.exists THEN agreement.details.text ELSE Nobody,
  signed <- (IF agreement.customer = 0 THEN {} ELSE {"customer"})
            \union (IF agreement.drawing = Nobody THEN {} ELSE {"shop"}),
  concluded <- agreement.final,
  settled <- IF quote.status = "completed" THEN quote.offer ELSE Nobody
WritesBack == agreement.final /\ \E r \in Requests : MarkQuoteViewed(r)
KeepsContract == Deal!Init /\ [][Deal!Next \/ WritesBack]_(Deal!contract)

(* A transaction works on rows as they are: nobody changes the agreement or the
   quote while it is locked, so what finalize checked is what it finalizes. *)
LoadedIsCurrent ==
  \A r \in Requests :
    /\ {X(Agreement), S(Agreement)} \intersect held[r] # {}
         => loaded[r].agreement = agreement
    /\ {X(Quote), S(Quote)} \intersect held[r] # {} => loaded[r].quote = quote

(* A request that is cancelled or deleted is not completed unless it is opened
   again first, although drafts, signatures and links are let in on a reading
   of its status that may be out of date. *)
CancelledIsNotCompleted ==
  [][quote.status \in {"cancelled", "gone"} => quote'.status # "completed"]_vars

(* An employee has one link for the agreement at most: a new one withdraws the
   older ones, also when two are asked for at once. *)
OneLinkPerEmployee ==
  \A k, l \in Links :
    Stored(k) /\ Stored(l) /\ links[k].user = links[l].user => k = l

(* A link signs once: of two submissions of one link, the second is refused. *)
LinkSignsOnce ==
  [][\A r \in Requests : SubmitStaffSignature(r)
       => links[job[r].item].state \notin {"used", "deleted"}]_vars

(* Handlers that lock the agreement first do not wait for each other in a
   circle: every deadlock has a handler of a staff QR code in it, or the
   insertion of the agreement, which has the quote and waits for the agreement,
   together with a handler that locks them the other way round. *)
AgreementThenQuote == {"finalize", "updateQuote", "deleteQuote"}
OnlyKnownDeadlocks ==
  \A group \in SUBSET Requests :
    group # {} /\ Deadlock(group) =>
      \/ \E r \in group : job[r].op \in {"startStaffSigning", "submitStaffSignature"}
      \/ \E r, s \in group :
           job[r].op = "getOrCreate" /\ job[s].op \in AgreementThenQuote

(* Every request is answered, whatever it waits for. *)
EveryRequestEnds == \A r \in Requests : []<>~Busy(r)
=============================================================================
