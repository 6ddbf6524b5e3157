---------------------------- MODULE TradeInProofs ----------------------------
(***************************************************************************)
(* TradeInAgreement keeps what Contract promises, for any number of        *)
(* requests, administrators, links, tokens and releases. The argument is   *)
(* about locks: whoever writes the agreement or the quote holds its lock,  *)
(* and what a request has read of a row it holds is the row as it is.      *)
(***************************************************************************)
EXTENDS TradeInAgreement, TLAPS

On(row) == {X(row), S(row)}
Holds(r, row) == On(row) \intersect held[r] # {}

(* No other request has a lock on a row that is locked exclusively. *)
Alone ==
  \A row \in {Agreement, Quote} : \A r, s \in Requests :
    r # s /\ X(row) \in held[r] => ~Holds(s, row)

(* Who shares the gap of the agreement found none, and none came since. *)
GapIsEmpty ==
  \A r \in Requests : S(Agreement) \in held[r] => ~agreement.exists

RowsAgree ==
  /\ ~agreement.exists => agreement = NoAgreement
  /\ quote.status = "completed" => agreement.final
  /\ agreement.final => quote.status \notin {"cancelled", "gone"}
  /\ quote.status = "cancelled" => quote.viewed

(* What markQuoteViewed has loaded was not viewed, hence not cancelled; and it
   was completed only if the agreement is final. *)
ViewersLoaded ==
  \A r \in Requests : job[r].op = "markQuoteViewed" =>
    /\ job[r].status \in {"any", "open", "completed"}
    /\ job[r].status = "completed" => agreement.final

Current ==
  \A r \in Requests :
    /\ Holds(r, Agreement) => loaded[r].agreement = agreement
    /\ Holds(r, Quote) => loaded[r].quote = quote

IInv == TypeOK /\ Alone /\ GapIsEmpty /\ RowsAgree /\ ViewersLoaded /\ Current

USE TradeInAssumption
-----------------------------------------------------------------------------
(* The stages of a plan. *)
LEMMA StageIs ==
  ASSUME NEW r \in Requests
  PROVE  /\ Stage(r) \in 1 .. 4
         /\ Stage(r) < 4 => ~(Plan(job[r])[Stage(r)] \subseteq held[r])
         /\ Stage(r) = 4 => /\ Plan(job[r])[1] \subseteq held[r]
                            /\ Plan(job[r])[2] \subseteq held[r]
                            /\ Plan(job[r])[3] \subseteq held[r]
  BY DEF Stage

LEMMA RowsDiffer ==
  /\ Agreement # Quote /\ Agreement # LinkGap /\ Quote # LinkGap
  /\ \A u : User(u) # Agreement /\ User(u) # Quote
  /\ \A l : Link(l) # Agreement /\ Link(l) # Quote
  BY DEF Agreement, Quote, LinkGap, User, Link

LEMMA PlanTyped ==
  ASSUME TypeOK, NEW j \in Job, NEW k \in 1 .. 3
  PROVE  Plan(j)[k] \subseteq Locks
<1> DEFINE all == XLinks({l \in Links : Stored(l)})
           own(u) == XLinks(LinksOf(u))
<1>1. all \subseteq Locks /\ \A u : own(u) \subseteq Locks
  BY DEF XLinks, LinksOf, Locks, Rows, X
<1>2. {X(Agreement), S(Agreement), X(Quote), S(Quote), S(LinkGap), I(LinkGap)}
        \subseteq Locks
  BY DEF Locks, Rows, X, S, I
<1>3. j.user \in Users => X(User(j.user)) \in Locks /\ S(User(j.user)) \in Locks
  BY DEF Locks, Rows, X, S
<1>4. j.item \in Links => X(Link(j.item)) \in Locks
  BY DEF Locks, Rows, X
<1> HIDE DEF all, own
<1>5. k = 1 \/ k = 2 \/ k = 3
  OBVIOUS
<1>6. AgreementOrGap \in {X(Agreement), S(Agreement)}
  BY DEF AgreementOrGap
<1>7. /\ j.op \in {"startStaffSigning", "submitStaffSignature"} => j.item \in Links
      /\ j.op \in {"getOrCreate", "saveDraft", "startStaffSigning", "finalize",
                   "submitStaffSignature", "setRepresentativeSignature"}
          => j.user \in Users
  BY DEF Job
<1>8. CASE j.op \in {"getOrCreate", "saveDraft", "startSigning", "submitCustomerSignature"}
  BY <1>2, <1>5, <1>8 DEF Plan, DraftLocks
<1>9. CASE j.op = "setRepresentativeSignature"
  BY <1>1, <1>2, <1>3, <1>5, <1>7, <1>9 DEF Plan, own
<1>10. CASE j.op = "startStaffSigning"
  BY <1>1, <1>2, <1>3, <1>5, <1>7, <1>10 DEF Plan, own
<1>11. CASE j.op = "submitStaffSignature"
  BY <1>2, <1>3, <1>4, <1>5, <1>7, <1>11 DEF Plan
<1>12. CASE j.op = "finalize"
  BY <1>2, <1>3, <1>5, <1>7, <1>12 DEF Plan, FinalizeLocks
<1>13. CASE j.op \in {"updateQuote", "deleteQuote"}
  BY <1>1, <1>2, <1>5, <1>6, <1>13 DEF Plan, all
<1>14. CASE j.op = "none"
  BY <1>5, <1>14 DEF Plan
<1>15. CASE j.op = "markQuoteViewed"
  BY <1>2, <1>5, <1>15 DEF Plan
<1> QED
  BY <1>8, <1>9, <1>10, <1>11, <1>12, <1>13, <1>14, <1>15 DEF Job, Operations

(* Who writes a row holds its lock. *)
AgreementOps ==
  {"getOrCreate", "saveDraft", "startSigning", "submitCustomerSignature",
   "submitStaffSignature", "setRepresentativeSignature", "finalize",
   "updateQuote", "deleteQuote"}
WritesQuote(j) ==
  \/ j.op \in {"finalize", "updateQuote", "deleteQuote"}
  \/ j.op = "markQuoteViewed" /\ j.item # Entity

LEMMA WritersHold ==
  ASSUME NEW r \in Requests, Stage(r) = 4
  PROVE  /\ job[r].op \in AgreementOps => Holds(r, Agreement)
         /\ WritesQuote(job[r]) => Holds(r, Quote)
         /\ job[r].op \in AgreementOps \ {"updateQuote", "deleteQuote"}
              => X(Agreement) \in held[r]
         /\ WritesQuote(job[r]) => X(Quote) \in held[r]
<1> DEFINE plan == Plan(job[r])
<1>1. plan[1] \subseteq held[r] /\ plan[2] \subseteq held[r]
  BY StageIs
<1>2. job[r].op \in AgreementOps \ {"submitStaffSignature", "updateQuote", "deleteQuote"}
        => X(Agreement) \in plan[1] \union plan[2]
  BY DEF Plan, DraftLocks, FinalizeLocks, AgreementOps
<1>3. job[r].op = "submitStaffSignature" => X(Agreement) \in plan[2]
  BY DEF Plan
<1>4. job[r].op \in {"updateQuote", "deleteQuote"} => AgreementOrGap \in plan[1]
  BY DEF Plan
<1>5. WritesQuote(job[r]) => X(Quote) \in plan[1] \union plan[2]
  BY DEF Plan, FinalizeLocks, WritesQuote
<1>6. AgreementOrGap \in On(Agreement)
  BY DEF AgreementOrGap, On
<1> HIDE DEF plan
<1> QED
  BY <1>1, <1>2, <1>3, <1>4, <1>5, <1>6 DEF Holds, On, AgreementOps, WritesQuote

(* While one request writes a row nobody else has read it under a lock. *)
LEMMA WritersAreAlone ==
  ASSUME Alone, GapIsEmpty, NEW r \in Requests, Stage(r) = 4,
         NEW s \in Requests, s # r
  PROVE  /\ job[r].op \in AgreementOps /\ Holds(s, Agreement)
              => /\ job[r].op \in {"updateQuote", "deleteQuote"}
                 /\ ~agreement.exists
         /\ WritesQuote(job[r]) => ~Holds(s, Quote)
<1>1. job[r].op \in AgreementOps \ {"updateQuote", "deleteQuote"} => ~Holds(s, Agreement)
  BY WritersHold DEF Alone
<1>2. WritesQuote(job[r]) => ~Holds(s, Quote)
  BY WritersHold DEF Alone
<1>3. ASSUME job[r].op \in {"updateQuote", "deleteQuote"}, Holds(s, Agreement)
      PROVE  ~agreement.exists
  <2>1. Holds(r, Agreement)
    BY <1>3, WritersHold DEF AgreementOps
  <2>2. X(Agreement) \notin held[r]
    BY <1>3 DEF Alone
  <2>3. S(Agreement) \in held[r]
    BY <2>1, <2>2 DEF Holds, On
  <2> QED
    BY <2>3 DEF GapIsEmpty
<1> QED
  BY <1>1, <1>2, <1>3
-----------------------------------------------------------------------------
(* A step that takes locks. *)
LEMMA LockTakes ==
  ASSUME Alone, NEW r \in Requests, Lock(r),
         NEW row \in {Agreement, Quote}, NEW s \in Requests, s # r
  PROVE  /\ X(row) \in Missing(r) => ~Holds(s, row)
         /\ Holds(r, row)' /\ ~Holds(r, row) => X(row) \notin held[s]
<1>1. ~WaitsFor(r, s)
  BY DEF Lock
<1>2. \A a \in Missing(r), b \in held[s] : ~Blocks(b, a)
  BY <1>1 DEF WaitsFor, Lock
<1>3. X(row) \in Missing(r) => ~Holds(s, row)
  BY <1>2 DEF Blocks, Holds, On, X, S
<1>4. ASSUME Holds(r, row)', ~Holds(r, row)
      PROVE  X(row) \notin held[s]
  <2>1. X(row) \in Missing(r) \/ S(row) \in Missing(r)
    BY <1>4 DEF Lock, Holds, On
  <2> QED
    BY <1>2, <2>1 DEF Blocks, X, S
<1> QED
  BY <1>3, <1>4

LEMMA LockReads ==
  ASSUME TypeOK, Current, NEW r \in Requests, Lock(r)
  PROVE  /\ Holds(r, Agreement)' => loaded'[r].agreement = agreement
         /\ Holds(r, Quote)' => loaded'[r].quote = quote
<1> DEFINE k == Stage(r)
           locks == Plan(job[r])[k]
<1>1. loaded'[r] = Read(job[r], loaded[r], k)
  BY DEF Lock, TypeOK
<1>2. Missing(r) \subseteq locks /\ held'[r] = held[r] \union Missing(r)
  BY DEF Missing, Lock, TypeOK
<1>3. \A row : Holds(r, row)' => Holds(r, row) \/ On(row) \intersect locks # {}
  BY <1>2 DEF Holds
<1>4. /\ loaded'[r].agreement \in {agreement, loaded[r].agreement}
      /\ On(Agreement) \intersect locks # {} => loaded'[r].agreement = agreement
      /\ loaded'[r].quote \in {quote, loaded[r].quote}
      /\ On(Quote) \intersect locks # {} => loaded'[r].quote = quote
  BY <1>1 DEF Read, On
<1> QED
  BY <1>3, <1>4 DEF Current
-----------------------------------------------------------------------------
(* Types. *)
LEMMA SaveTyped ==
  ASSUME NEW e \in AgreementRow, NEW base, agreement \in AgreementRow
  PROVE  Save(e, base) \in AgreementRow
  BY DEF Save, AgreementRow

LEMMA ConstantsTyped ==
  /\ NoAgreement \in AgreementRow /\ NoLink \in StaffSigningLink
  /\ NoJob \in Job /\ NothingRead \in Loaded
<1>1. NoAgreement \in AgreementRow
  BY DEF NoAgreement, AgreementRow, AgreementDetails, Texts, Signers
<1>2. NothingRead \in Loaded
  BY <1>1 DEF NothingRead, Loaded, QuoteStatus, Texts, LinkStates
<1> QED
  BY <1>1, <1>2 DEF NoLink, StaffSigningLink, NoJob, Job, Signers, Texts

LEMMA CallsTyped ==
  ASSUME TypeOK
  PROVE  Calls \subseteq Job
<1>1. drawn.customer \in 0 .. MaxTokens /\ drawn.staff \in 0 .. MaxLinks
  BY DEF TypeOK
<1>2. /\ {drawn.customer + 1} \ {MaxTokens + 1} \subseteq 1 .. MaxTokens
      /\ {drawn.staff + 1} \ {MaxLinks + 1} \subseteq Links
      /\ 1 .. MaxTokens \subseteq Nat /\ 1 .. drawn.customer \subseteq Nat
      /\ Links \subseteq Nat /\ 0 \in Nat
  BY <1>1 DEF Links
<1>3. Call({"markQuoteViewed"}, No, {Entity}, {quote.offer}, {quote.status}) \subseteq Job
  BY DEF TypeOK, TradeInQuote, Entity, Call, No, Job, Operations, Signers, Texts
<1> QED
  BY <1>2, <1>3 DEF Calls, Call, No, Job, Operations, Signers, Texts, QuoteStatus

LEMMA EndTyped ==
  ASSUME TypeOK, NEW r \in Requests, End(r)
  PROVE  /\ job' \in [Requests -> Job] /\ held' \in [Requests -> SUBSET Locks]
         /\ loaded' \in [Requests -> Loaded]
  BY ConstantsTyped DEF TypeOK, End

LEMMA CommitTyped ==
  ASSUME TypeOK, Current, NEW r \in Requests, Commit(r)
  PROVE  TypeOK'
<1> DEFINE a == loaded[r].agreement
           j == job[r]
<1>1. /\ a \in AgreementRow /\ j \in Job /\ loaded[r] \in Loaded
      /\ agreement \in AgreementRow /\ quote \in TradeInQuote
      /\ links \in [Links -> StaffSigningLink]
      /\ drawn \in [customer : 0 .. MaxTokens, staff : 0 .. MaxLinks]
      /\ release \in 1 .. MaxReleases /\ late \in BOOLEAN
  BY DEF TypeOK, Loaded
<1>2. \A e, base : e \in AgreementRow => Save(e, base) \in AgreementRow
  BY <1>1, SaveTyped
<1>3. End(r)
  BY DEF Commit, Commits, GetOrCreate, SaveDraft, StartSigning,
         SubmitCustomerSignature, StartStaffSigning, SubmitStaffSignature,
         SetRepresentativeSignature, Finalize, UpdateQuote, MarkQuoteViewed, DeleteQuote
<1>4. /\ job' \in [Requests -> Job] /\ held' \in [Requests -> SUBSET Locks]
      /\ loaded' \in [Requests -> Loaded]
  BY <1>3, EndTyped
<1>0. /\ 0 \in 0 .. MaxReleases /\ release \in 0 .. MaxReleases
      /\ 0 \in 0 .. MaxTokens
  BY <1>1
<1>5. SUFFICES /\ quote' \in TradeInQuote /\ agreement' \in AgreementRow
               /\ late' \in BOOLEAN /\ links' \in [Links -> StaffSigningLink]
               /\ release' = release /\ drawn' = drawn
  BY <1>1, <1>4 DEF TypeOK
<1>6. CASE GetOrCreate(r)
  BY <1>0, <1>1, <1>6, ConstantsTyped
     DEF GetOrCreate, Commits, AgreementRow, AgreementDetails, Job, Signers
<1>7. CASE SaveDraft(r)
  <2>1. [text |-> j.text, release |-> release,
         name |-> IF a.drawing = Nobody THEN j.user ELSE a.details.name]
          \in AgreementDetails
    BY <1>1, <1>7 DEF SaveDraft, Commits, AgreementDetails, AgreementRow, Job, Signers
  <2> QED
    BY <1>1, <1>2, <1>7, <2>1 DEF SaveDraft, AgreementRow
<1>8. CASE StartSigning(r)
  <2>1. j.item \in 0 .. MaxTokens
    BY <1>1, <1>8 DEF StartSigning, Commits, Job
  <2> QED
    <3>1. [a EXCEPT !.token = j.item, !.customer = 0] \in AgreementRow
      BY <1>0, <1>1, <2>1 DEF AgreementRow
    <3> QED
      BY <1>1, <1>2, <1>8, <3>1 DEF StartSigning
<1>9. CASE SubmitCustomerSignature(r)
  BY <1>0, <1>1, <1>9 DEF SubmitCustomerSignature, AgreementRow
<1>10. CASE StartStaffSigning(r)
  <2>1. j.user \in Users /\ j.item \in Links
    BY <1>1, <1>10 DEF StartStaffSigning, Commits, Job
  <2>2. Deleted(LinksOf(j.user)) \in [Links -> StaffSigningLink]
    BY <1>1 DEF Deleted, LinksOf, Stored, StaffSigningLink, LinkStates
  <2>3. [state |-> "open", user |-> j.user] \in StaffSigningLink
    BY <2>1 DEF StaffSigningLink, LinkStates
  <2> QED
    BY <1>1, <1>10, <2>1, <2>2, <2>3 DEF StartStaffSigning
<1>11. CASE SubmitStaffSignature(r)
  <2>1. j.user \in Users /\ j.item \in Links
    BY <1>1, <1>11 DEF SubmitStaffSignature, Commits, Job
  <2>2. [a EXCEPT !.drawing = j.user, !.user = j.user, !.details.name = j.user]
          \in AgreementRow
    BY <1>1, <2>1 DEF AgreementRow, AgreementDetails, Signers
  <2> QED
    BY <1>1, <1>2, <1>11, <2>1, <2>2
       DEF SubmitStaffSignature, StaffSigningLink, LinkStates
<1>12. CASE SetRepresentativeSignature(r)
  <2>1. j.user \in Users
    BY <1>1, <1>12 DEF SetRepresentativeSignature, Commits, Job
  <2>2. [a EXCEPT !.drawing = j.user, !.user = j.user, !.details.name = j.user]
          \in AgreementRow
    BY <1>1, <2>1 DEF AgreementRow, AgreementDetails, Signers
  <2>3. Deleted(LinksOf(j.user)) \in [Links -> StaffSigningLink]
    BY <1>1 DEF Deleted, LinksOf, Stored, StaffSigningLink, LinkStates
  <2> QED
    BY <1>1, <1>2, <1>12, <2>2, <2>3 DEF SetRepresentativeSignature
<1>13. CASE Finalize(r)
  <2>1. Complete(a)
    BY <1>13 DEF Finalize, Commits, Admitted
  <2>2. a.details.text \in Offers
    BY <1>1, <2>1 DEF Complete, AgreementRow, AgreementDetails, Texts
  <2> QED
    <3>1. [a EXCEPT !.final = TRUE, !.token = 0] \in AgreementRow
      BY <1>0, <1>1 DEF AgreementRow
    <3>2. [quote EXCEPT !.status = "completed", !.offer = a.details.text]
            \in TradeInQuote
      BY <1>1, <2>2 DEF TradeInQuote, QuoteStatus
    <3> QED
      BY <1>1, <1>2, <1>13, <3>1, <3>2 DEF Finalize
<1>14. CASE UpdateQuote(r)
  <2>1. loaded[r].quote = quote
    BY <1>14, WritersHold DEF UpdateQuote, Commits, WritesQuote, Current
  <2>2. quote' \in TradeInQuote
    BY <1>1, <1>14, <2>1 DEF UpdateQuote, Written, TradeInQuote, Job, QuoteStatus, Texts
  <2>3. agreement' \in AgreementRow
    BY <1>0, <1>1, <1>14 DEF UpdateQuote, AgreementRow, Signers
  <2> QED
    BY <1>1, <1>14, <2>2, <2>3 DEF UpdateQuote
<1>15. CASE DeleteQuote(r)
  <2>1. Deleted({l \in Links : Stored(l)}) \in [Links -> StaffSigningLink]
    BY <1>1 DEF Deleted, Stored, StaffSigningLink, LinkStates
  <2> QED
    BY <1>1, <1>15, <2>1, ConstantsTyped DEF DeleteQuote, TradeInQuote, QuoteStatus
<1>16. CASE MarkQuoteViewed(r)
  BY <1>1, <1>16 DEF MarkQuoteViewed, Written, TradeInQuote, Job, QuoteStatus, Texts
<1> QED
  BY <1>6, <1>7, <1>8, <1>9, <1>10, <1>11, <1>12, <1>13, <1>14, <1>15, <1>16 DEF Commit

LEMMA CommitEnds ==
  ASSUME NEW r \in Requests, Commit(r)
  PROVE  End(r)
  BY DEF Commit, Commits, GetOrCreate, SaveDraft, StartSigning,
         SubmitCustomerSignature, StartStaffSigning, SubmitStaffSignature,
         SetRepresentativeSignature, Finalize, UpdateQuote, MarkQuoteViewed, DeleteQuote

LEMMA TypeStep ==
  ASSUME TypeOK, Current, [Next]_vars
  PROVE  TypeOK'
<1>1. ASSUME NEW r \in Requests, Begin(r)
      PROVE  TypeOK'
  <2>1. PICK j \in Calls : /\ job' = [job EXCEPT ![r] = j]
                           /\ drawn' = [customer |-> IF j.op = "startSigning"
                                          THEN j.item ELSE drawn.customer,
                                        staff |-> IF j.op = "startStaffSigning"
                                          THEN j.item ELSE drawn.staff]
    BY <1>1 DEF Begin
  <2>2. j \in Job
    BY CallsTyped
  <2>3. /\ j.op = "startSigning" => j.item \in 0 .. MaxTokens
        /\ j.op = "startStaffSigning" => j.item \in 0 .. MaxLinks
    BY <2>2 DEF Job, Links
  <2> QED
    BY <1>1, <2>1, <2>2, <2>3 DEF Begin, TypeOK
<1>2. ASSUME NEW r \in Requests, Lock(r)
      PROVE  TypeOK'
  <2>1. Stage(r) \in 1 .. 3 /\ job[r] \in Job
    BY <1>2, StageIs DEF Lock, TypeOK
  <2>2. Missing(r) \subseteq Locks
    BY <2>1, PlanTyped DEF Missing
  <2>3. Read(job[r], loaded[r], Stage(r)) \in Loaded
    <3>1. job[r].op = "submitStaffSignature" => links[job[r].item].state \in LinkStates
      BY <2>1 DEF TypeOK, Job, StaffSigningLink, LinkStates
    <3>2. loaded[r] \in Loaded /\ agreement \in AgreementRow
          /\ quote \in [status : QuoteStatus, offer : Texts, viewed : BOOLEAN]
      BY DEF TypeOK, TradeInQuote, Texts
    <3> QED
      BY <3>1, <3>2 DEF Read, Loaded
  <2> QED
    BY <1>2, <2>2, <2>3 DEF Lock, TypeOK, db
<1>3. ASSUME NEW r \in Requests, Refuse(r) \/ Rollback(r)
      PROVE  TypeOK'
  <2>1. End(r) /\ UNCHANGED db
    BY <1>3 DEF Refuse, Rollback
  <2> QED
    BY <2>1, EndTyped DEF TypeOK, db
<1>4. ASSUME NEW r \in Requests, Commit(r)
      PROVE  TypeOK'
  BY <1>4, CommitTyped
<1>5. CASE Expire
  <2>1. ASSUME NEW l \in Links, links[l].state = "open"
        PROVE  [links EXCEPT ![l].state = "void"] \in [Links -> StaffSigningLink]
    <3>1. links[l] \in StaffSigningLink /\ links \in [Links -> StaffSigningLink]
      BY DEF TypeOK
    <3>2. [links[l] EXCEPT !.state = "void"] \in StaffSigningLink
      BY <2>1, <3>1 DEF StaffSigningLink, LinkStates
    <3> QED
      BY <3>1, <3>2
  <2>2. CASE late' = TRUE /\ UNCHANGED <<quote, agreement, links, release, drawn,
                                         job, held, loaded>>
    BY <2>2 DEF TypeOK
  <2>3. CASE UNCHANGED <<quote, agreement, late, release, drawn, job, held, loaded>>
             /\ \E l \in Links : links[l].state = "open"
                                 /\ links' = [links EXCEPT ![l].state = "void"]
    <3>1. links' \in [Links -> StaffSigningLink]
      BY <2>1, <2>3
    <3> QED
      BY <2>3, <3>1 DEF TypeOK
  <2> QED
    BY <1>5, <2>2, <2>3 DEF Expire
<1>6. CASE Restart
  BY <1>6, ConstantsTyped DEF Restart, TypeOK
<1>7. CASE UNCHANGED vars
  BY <1>7 DEF vars, TypeOK
<1>8. ASSUME NEW r \in Requests, Compare(r)
      PROVE  TypeOK'
  <2>1. job[r] \in Job /\ job[r].op = "markQuoteViewed"
    BY <1>8 DEF Compare, TypeOK
  <2>2. Differing(job[r]) \in Job
    BY <2>1 DEF Differing, Inserts, Updates, Job, Texts
  <2> QED
    BY <1>8, <2>2 DEF Compare, TypeOK, db
<1> QED
  BY <1>1, <1>2, <1>3, <1>4, <1>5, <1>6, <1>7, <1>8 DEF Next
-----------------------------------------------------------------------------
(* What a step does to locks and readings: it takes some (Lock), gives all of
   one request or of every request back, or leaves them alone. *)
Releases ==
  \A s \in Requests :
    \/ held'[s] = {}
    \/ held'[s] = held[s] /\ loaded'[s] = loaded[s]

LEMMA StepReleases ==
  ASSUME TypeOK, [Next]_vars
  PROVE  Releases \/ \E r \in Requests : Lock(r)
<1>1. ASSUME NEW r \in Requests, End(r)
      PROVE  Releases
  BY <1>1 DEF End, TypeOK, Releases
<1>2. ASSUME NEW r \in Requests, Begin(r) \/ Compare(r)
      PROVE  Releases
  BY <1>2 DEF Begin, Compare, Releases
<1>3. CASE Expire \/ Restart \/ UNCHANGED vars
  BY <1>3 DEF Expire, Restart, vars, Releases
<1>4. \A r \in Requests : Refuse(r) \/ Rollback(r) \/ Commit(r) => End(r)
  BY CommitEnds DEF Refuse, Rollback
<1> QED
  BY <1>1, <1>2, <1>3, <1>4 DEF Next

(* What a request was called with stays, is forgotten or begins; markQuoteViewed
   keeps in it what it has loaded. *)
LEMMA JobsStep ==
  ASSUME TypeOK, [Next]_vars, NEW s \in Requests
  PROVE  Begin(s) \/ Compare(s) \/ job'[s] = job[s] \/ job'[s] = NoJob
<1>1. ASSUME NEW r \in Requests, End(r)
      PROVE  job'[s] = job[s] \/ job'[s] = NoJob
  BY <1>1 DEF End, TypeOK
<1>2. ASSUME NEW r \in Requests, Begin(r) \/ Compare(r), r # s
      PROVE  job'[s] = job[s]
  BY <1>2 DEF Begin, Compare, TypeOK
<1>3. ASSUME NEW r \in Requests, Refuse(r) \/ Rollback(r) \/ Commit(r) PROVE End(r)
  BY <1>3, CommitEnds DEF Refuse, Rollback
<1>4. CASE Expire \/ Restart \/ UNCHANGED vars \/ \E r \in Requests : Lock(r)
  BY <1>4 DEF Expire, Restart, vars, Lock
<1> QED
  BY <1>1, <1>2, <1>3, <1>4 DEF Next

\* The jobs other than markQuoteViewed do not change on the way.
LEMMA OtherJobsStep ==
  ASSUME TypeOK, [Next]_vars, NEW s \in Requests, job'[s].op # "markQuoteViewed"
  PROVE  Begin(s) \/ job'[s] = job[s] \/ job'[s] = NoJob
<1>1. Compare(s) => job'[s].op = "markQuoteViewed"
  BY DEF Compare, Differing, TypeOK, Job
<1> QED
  BY <1>1, JobsStep

LEMMA AloneStep ==
  ASSUME TypeOK, Alone, [Next]_vars
  PROVE  Alone'
<1>1. CASE Releases
  BY <1>1 DEF Releases, Alone, Holds
<1>2. ASSUME NEW r \in Requests, Lock(r)
      PROVE  Alone'
  <2> SUFFICES ASSUME NEW row \in {Agreement, Quote}, NEW p \in Requests,
                      NEW q \in Requests, p # q, X(row) \in held'[p],
                      Holds(q, row)'
               PROVE  FALSE
    <3>1. {Agreement, Quote}' = {Agreement, Quote}
      BY DEF Agreement, Quote
    <3> QED
      BY DEF Alone, Agreement, Quote, X
  <2>1. /\ held'[r] = held[r] \union Missing(r)
        /\ \A s \in Requests : s # r => held'[s] = held[s]
    BY <1>2 DEF Lock, TypeOK
  <2>2. CASE p = r
    <3>1. Holds(q, row)
      BY <2>1, <2>2 DEF Holds, On, X, S
    <3>2. X(row) \notin held[r]
      BY <2>2, <3>1 DEF Alone
    <3>3. X(row) \in Missing(r)
      BY <2>1, <2>2, <3>2
    <3> QED
      BY <1>2, <2>2, <3>1, <3>3, LockTakes
  <2>3. CASE q = r
    <3>1. X(row) \in held[p]
      BY <2>1, <2>3
    <3>2. ~Holds(r, row)
      BY <2>3, <3>1 DEF Alone
    <3> QED
      BY <1>2, <2>3, <3>1, <3>2, LockTakes
  <2>4. CASE p # r /\ q # r
    BY <2>1, <2>4 DEF Alone, Holds, On, X, S
  <2> QED
    BY <2>2, <2>3, <2>4
<1> QED
  BY <1>1, <1>2, StepReleases
-----------------------------------------------------------------------------
(* What the commits write, once what they have read is known to be current. *)
LEMMA PlanFindsGap ==
  ASSUME NEW j, NEW k \in 1 .. 3, S(Agreement) \in Plan(j)[k]
  PROVE  ~agreement.exists
<1>1. \A ls : S(Agreement) \notin XLinks(ls)
  BY DEF XLinks, X, S
<1>2. S(Agreement) \notin {X(Agreement), S(Quote), X(Quote), S(LinkGap), I(LinkGap)}
  BY RowsDiffer DEF X, S, I
<1>3. \A u : S(Agreement) \notin {X(User(u)), S(User(u)), X(Link(u))}
  BY RowsDiffer DEF X, S
<1>4. k = 1 \/ k = 2 \/ k = 3
  OBVIOUS
<1>5. S(Agreement) = AgreementOrGap => ~agreement.exists
  BY DEF AgreementOrGap, X, S
<1>6. CASE j.op \in {"getOrCreate", "saveDraft", "startSigning", "submitCustomerSignature"}
  BY <1>2, <1>4, <1>6 DEF Plan, DraftLocks
<1>7. CASE j.op = "setRepresentativeSignature"
  BY <1>1, <1>2, <1>3, <1>4, <1>7 DEF Plan
<1>8. CASE j.op = "startStaffSigning"
  BY <1>1, <1>2, <1>3, <1>4, <1>8 DEF Plan
<1>9. CASE j.op \in {"submitStaffSignature", "finalize"}
  BY <1>2, <1>3, <1>4, <1>9 DEF Plan, FinalizeLocks
<1>10. CASE j.op \in {"updateQuote", "markQuoteViewed", "deleteQuote"}
  BY <1>1, <1>2, <1>4, <1>5, <1>10 DEF Plan
<1>11. CASE j.op \notin Operations
  BY <1>4, <1>11 DEF Plan, Operations
<1> QED
  BY <1>6, <1>7, <1>8, <1>9, <1>10, <1>11 DEF Operations

(* A commit by kind: it draws up the agreement, rewrites it while it is not
   final, makes it final, edits the quote, marks it viewed or removes both; or
   it touches neither. *)
Drafts ==
  /\ ~agreement.final /\ quote' = quote
  /\ agreement'.exists /\ ~agreement'.final
Concludes ==
  /\ agreement.exists /\ ~agreement.final /\ Complete(agreement)
  /\ agreement' = [agreement EXCEPT !.final = TRUE, !.token = 0]
  /\ quote' = [quote EXCEPT !.status = "completed", !.offer = agreement.details.text]
  /\ Open(quote)
Edits ==
  /\ ~agreement.final /\ agreement' = agreement
  /\ quote'.status = "completed" => quote.status = "completed"
  /\ quote'.viewed
Views ==
  /\ agreement' = agreement /\ quote'.viewed
  /\ quote'.status = "completed" => agreement.final
  /\ agreement.final => quote'.status \notin {"cancelled", "gone"}
Removes ==
  /\ ~agreement.final /\ agreement' = NoAgreement /\ quote'.status = "gone"
Ignores == UNCHANGED <<agreement, quote>>

LEMMA CommitKinds ==
  ASSUME IInv, NEW r \in Requests, Commit(r)
  PROVE  \/ Drafts /\ job[r].op \in AgreementOps \ {"updateQuote", "deleteQuote"}
         \/ Concludes /\ job[r].op = "finalize"
         \/ Edits /\ job[r].op = "updateQuote"
         \/ Views /\ MarkQuoteViewed(r) /\ WritesQuote(job[r])
         \/ Removes /\ job[r].op = "deleteQuote"
         \/ Ignores /\ job[r].op = "startStaffSigning"
<1> DEFINE a == loaded[r].agreement
<1>1. /\ Stage(r) = 4
      /\ Admitted(r, 4)
      /\ job[r].op \in AgreementOps => a = agreement
      /\ WritesQuote(job[r]) => loaded[r].quote = quote
  BY WritersHold
     DEF IInv, Current, Commit, Commits, GetOrCreate, SaveDraft, StartSigning,
         SubmitCustomerSignature, StartStaffSigning, SubmitStaffSignature,
         SetRepresentativeSignature, Finalize, UpdateQuote, MarkQuoteViewed, DeleteQuote
<1>2. agreement \in AgreementRow /\ quote \in TradeInQuote /\ a \in AgreementRow
  BY DEF IInv, TypeOK, Loaded
<1>3. CASE GetOrCreate(r)
  <2>1. ~agreement.exists
    BY <1>1, <1>3 DEF GetOrCreate, Commits, Admitted, AgreementOps
  <2>2. ~agreement.final
    BY <2>1 DEF IInv, RowsAgree, NoAgreement
  <2>3. agreement'.exists /\ ~agreement'.final
    BY <1>3 DEF GetOrCreate, NoAgreement
  <2> QED
    BY <1>3, <2>2, <2>3 DEF GetOrCreate, Commits, Drafts, AgreementOps
<1>4. CASE SaveDraft(r)
  <2> DEFINE e == [a EXCEPT !.details =
                    [text |-> job[r].text, release |-> release,
                     name |-> IF a.drawing = Nobody THEN job[r].user
                              ELSE a.details.name]]
  <2>1. a = agreement /\ Signable(a)
    BY <1>1, <1>4 DEF SaveDraft, Commits, Admitted, AgreementOps
  <2>2. agreement' = Save(e, agreement) /\ e.exists = a.exists /\ e.final = a.final
    BY <1>2, <1>4 DEF SaveDraft, AgreementRow
  <2>3. Save(e, agreement).exists = e.exists /\ Save(e, agreement).final = e.final
    BY <1>2, <2>1, <2>2 DEF Save, AgreementRow
  <2> QED
    BY <1>4, <2>1, <2>2, <2>3 DEF SaveDraft, Commits, Drafts, Signable, AgreementOps
<1>5. CASE StartSigning(r)
  <2> DEFINE e == [a EXCEPT !.token = job[r].item, !.customer = 0]
  <2>1. a = agreement /\ Signable(a)
    BY <1>1, <1>5 DEF StartSigning, Commits, Admitted, AgreementOps
  <2>2. agreement' = Save(e, agreement) /\ e.exists = a.exists /\ e.final = a.final
    BY <1>2, <1>5 DEF StartSigning, AgreementRow
  <2>3. Save(e, agreement).exists = e.exists /\ Save(e, agreement).final = e.final
    BY <1>2, <2>1, <2>2 DEF Save, AgreementRow
  <2> QED
    BY <1>5, <2>1, <2>2, <2>3 DEF StartSigning, Commits, Drafts, Signable, AgreementOps
<1>6. CASE SubmitCustomerSignature(r)
  <2>1. a = agreement /\ Signable(a)
    BY <1>1, <1>6 DEF SubmitCustomerSignature, Commits, Admitted, AgreementOps, IsToken
  <2>2. agreement'.exists = agreement.exists /\ agreement'.final = agreement.final
    BY <1>2, <1>6 DEF SubmitCustomerSignature, AgreementRow
  <2> QED
    BY <1>6, <2>1, <2>2
       DEF SubmitCustomerSignature, Commits, Drafts, Signable, AgreementOps
<1>7. CASE StartStaffSigning(r)
  BY <1>7 DEF StartStaffSigning, Commits, Ignores
<1>8. ASSUME NEW base, SubmitStaffSignature(r) \/ SetRepresentativeSignature(r),
             agreement' = Save([a EXCEPT !.drawing = job[r].user, !.user = job[r].user,
                                         !.details.name = job[r].user], base)
      PROVE  Drafts /\ job[r].op \in AgreementOps \ {"updateQuote", "deleteQuote"}
  <2> DEFINE e == [a EXCEPT !.drawing = job[r].user, !.user = job[r].user,
                            !.details.name = job[r].user]
  <2>1. a = agreement /\ Signable(a)
    BY <1>1, <1>8 DEF SubmitStaffSignature, SetRepresentativeSignature, Commits,
                      Admitted, AgreementOps
  <2>2. e.exists = a.exists /\ e.final = a.final
    BY <1>2 DEF AgreementRow
  <2>3. agreement'.exists = e.exists /\ agreement'.final \in {e.final, agreement.final}
    BY <1>2, <1>8 DEF Save, AgreementRow
  <2> QED
    BY <1>8, <2>1, <2>2, <2>3
       DEF SubmitStaffSignature, SetRepresentativeSignature, Commits, Drafts,
           Signable, AgreementOps
<1>9. CASE SubmitStaffSignature(r)
  BY <1>8, <1>9 DEF SubmitStaffSignature
<1>10. CASE SetRepresentativeSignature(r)
  BY <1>8, <1>10 DEF SetRepresentativeSignature
<1>11. CASE Finalize(r)
  <2>1. /\ a = agreement /\ loaded[r].quote = quote
        /\ Signable(a) /\ Complete(a) /\ Open(quote)
    BY <1>1, <1>11 DEF Finalize, Commits, Admitted, MayComplete, AgreementOps, WritesQuote
  <2>2. agreement' = [agreement EXCEPT !.final = TRUE, !.token = 0]
    BY <1>2, <1>11, <2>1 DEF Finalize, Save, Signable, AgreementRow
  <2> QED
    BY <1>11, <2>1, <2>2 DEF Finalize, Commits, Concludes, Signable
<1>12. CASE UpdateQuote(r)
  <2>1. /\ a = agreement /\ loaded[r].quote = quote
        /\ ~(SeesAgreement(a) /\ a.final)
        /\ job[r].status = "completed" => quote.status = "completed"
    BY <1>1, <1>12 DEF UpdateQuote, Commits, Admitted, MaySetStatus, AgreementOps, WritesQuote
  <2>2. ~agreement.final
    BY <2>1 DEF SeesAgreement, IInv, RowsAgree, NoAgreement
  <2> QED
    BY <1>12, <2>1, <2>2 DEF UpdateQuote, Written, Commits, SeesAgreement, Edits
<1>13. CASE DeleteQuote(r)
  <2>1. a = agreement /\ ~a.final
    BY <1>1, <1>13 DEF DeleteQuote, Commits, Admitted, AgreementOps
  <2> QED
    BY <1>2, <1>13, <2>1 DEF DeleteQuote, Commits, Removes, TradeInQuote
<1>14. CASE MarkQuoteViewed(r)
  <2>1. /\ job[r].op = "markQuoteViewed" /\ WritesQuote(job[r])
        /\ quote' = Written(job[r], quote) /\ agreement' = agreement
    BY <1>14 DEF MarkQuoteViewed, Commits, WritesQuote
  <2>2. /\ job[r].status \in {"any", "open", "completed"}
        /\ job[r].status = "completed" => agreement.final
        /\ RowsAgree
    BY <2>1 DEF IInv, ViewersLoaded
  <2> QED
    BY <1>14, <2>1, <2>2 DEF Written, Views, RowsAgree
<1> QED
  BY <1>3, <1>4, <1>5, <1>6, <1>7, <1>9, <1>10, <1>11, <1>12, <1>13, <1>14 DEF Commit

LEMMA StepKinds ==
  ASSUME [Next]_vars
  PROVE  Ignores \/ \E r \in Requests : Commit(r)
<1>1. ASSUME NEW r \in Requests,
             Begin(r) \/ Compare(r) \/ Lock(r) \/ Refuse(r) \/ Rollback(r)
      PROVE  Ignores
  BY <1>1 DEF Begin, Compare, Lock, Refuse, Rollback, db, Ignores
<1>2. CASE Expire \/ Restart \/ UNCHANGED vars
  BY <1>2 DEF Expire, Restart, vars, Ignores
<1> QED
  BY <1>1, <1>2 DEF Next

LEMMA RowsAgreeStep ==
  ASSUME IInv, [Next]_vars
  PROVE  RowsAgree'
<1>1. CASE Ignores
  BY <1>1 DEF Ignores, IInv, RowsAgree, NoAgreement
<1>2. ASSUME NEW r \in Requests, Commit(r)
      PROVE  RowsAgree'
  <2>1. agreement \in AgreementRow /\ quote \in TradeInQuote /\ RowsAgree
    BY DEF IInv, TypeOK
  <2>2. CASE Drafts
    BY <2>1, <2>2 DEF Drafts, RowsAgree
  <2>3. CASE Concludes
    BY <2>1, <2>3 DEF Concludes, RowsAgree, AgreementRow, TradeInQuote
  <2>4. CASE Edits
    BY <2>1, <2>4 DEF Edits, RowsAgree, NoAgreement
  <2>5. CASE Removes
    BY <2>1, <2>5 DEF Removes, RowsAgree, NoAgreement
  <2>6. CASE Ignores
    BY <1>1, <2>6
  <2>7. CASE Views
    BY <2>1, <2>7 DEF Views, RowsAgree, NoAgreement
  <2> QED
    BY <1>2, <2>2, <2>3, <2>4, <2>5, <2>6, <2>7, CommitKinds
<1> QED
  BY <1>1, <1>2, StepKinds

LEMMA ViewersLoadedStep ==
  ASSUME IInv, [Next]_vars
  PROVE  ViewersLoaded'
<1>1. TypeOK /\ RowsAgree /\ ViewersLoaded
  BY DEF IInv
<1>2. agreement.final => agreement'.final
  <2>1. ASSUME NEW r \in Requests, Commit(r)
        PROVE  agreement.final => agreement'.final
    BY <2>1, CommitKinds DEF Drafts, Concludes, Edits, Views, Removes, Ignores
  <2> QED
    BY <2>1, StepKinds DEF Ignores
<1>3. SUFFICES ASSUME NEW s \in Requests, job'[s].op = "markQuoteViewed"
               PROVE  /\ job'[s].status \in {"any", "open", "completed"}
                      /\ job'[s].status = "completed" => agreement'.final
  BY DEF ViewersLoaded
<1>4. CASE job'[s] = job[s]
  BY <1>1, <1>2, <1>3, <1>4 DEF ViewersLoaded
<1>5. CASE Begin(s)
  <2>1. PICK j \in Calls : job' = [job EXCEPT ![s] = j] /\ Welcome(j)
    BY <1>5 DEF Begin
  <2>2. job'[s] = j /\ j.op = "markQuoteViewed"
    BY <1>1, <1>3, <2>1 DEF TypeOK
  <2>3. j.status = quote.status
    BY <2>2 DEF Calls, Call
  <2>4. quote.status # "gone" /\ ~quote.viewed
    BY <2>1, <2>2 DEF Welcome
  <2>5. quote.status \in {"open", "completed"}
    BY <1>1, <2>4 DEF TypeOK, TradeInQuote, QuoteStatus, RowsAgree
  <2> QED
    BY <1>1, <1>2, <2>2, <2>3, <2>5 DEF RowsAgree
<1>6. CASE Compare(s)
  <2>1. job'[s] = Differing(job[s]) /\ job[s].op = "markQuoteViewed" /\ job[s] \in Job
    BY <1>1, <1>6 DEF Compare, TypeOK
  <2>2. job'[s].status \in {"any", job[s].status}
    BY <2>1 DEF Differing, Job
  <2> QED
    BY <1>1, <1>2, <2>1, <2>2 DEF ViewersLoaded
<1> QED
  BY <1>1, <1>3, <1>4, <1>5, <1>6, JobsStep DEF NoJob

LEMMA GapIsEmptyStep ==
  ASSUME IInv, [Next]_vars
  PROVE  GapIsEmpty'
<1> SUFFICES ASSUME NEW s \in Requests, S(Agreement) \in held'[s]
             PROVE  ~agreement'.exists
  BY DEF GapIsEmpty, S, Agreement
<1>1. ASSUME NEW r \in Requests, Lock(r)
      PROVE  ~agreement'.exists
  <2>1. CASE S(Agreement) \in held[s]
    BY <1>1, <2>1 DEF Lock, db, IInv, GapIsEmpty
  <2>2. CASE S(Agreement) \notin held[s]
    <3>1. S(Agreement) \in Plan(job[r])[Stage(r)]
      BY <1>1, <2>2 DEF Lock, Missing, IInv, TypeOK
    <3>2. Stage(r) \in 1 .. 3
      BY <1>1, StageIs DEF Lock
    <3> QED
      BY <1>1, <3>1, <3>2, PlanFindsGap DEF Lock, db
  <2> QED
    BY <2>1, <2>2
<1>2. CASE Releases
  <2>1. S(Agreement) \in held[s] /\ ~agreement.exists
    BY <1>2 DEF Releases, IInv, GapIsEmpty
  <2>2. CASE Ignores
    BY <2>1, <2>2 DEF Ignores
  <2>3. ASSUME NEW r \in Requests, Commit(r)
        PROVE  ~agreement'.exists
    <3>1. Stage(r) = 4 /\ held'[r] = {}
      BY <2>3, CommitEnds
         DEF End, IInv, TypeOK, Commit, Commits, GetOrCreate, SaveDraft,
             StartSigning, SubmitCustomerSignature, StartStaffSigning,
             SubmitStaffSignature, SetRepresentativeSignature, Finalize,
             UpdateQuote, MarkQuoteViewed, DeleteQuote
    <3>2. s # r /\ Holds(s, Agreement)
      BY <2>1, <3>1 DEF Holds, On
    <3>3. job[r].op \notin AgreementOps \ {"updateQuote", "deleteQuote"}
      BY <3>1, <3>2, WritersAreAlone DEF IInv
    <3>4. (Edits \/ Removes \/ Views \/ Ignores) \/ Concludes
      BY <2>3, <3>3, CommitKinds
    <3> QED
      BY <2>1, <3>4 DEF Edits, Removes, Views, Ignores, Concludes, NoAgreement
  <2> QED
    BY <2>2, <2>3, StepKinds
<1> QED
  BY <1>1, <1>2, StepReleases DEF IInv

LEMMA CurrentStep ==
  ASSUME IInv, [Next]_vars
  PROVE  Current'
<1> SUFFICES ASSUME NEW s \in Requests
             PROVE  /\ Holds(s, Agreement)' => loaded'[s].agreement = agreement'
                    /\ Holds(s, Quote)' => loaded'[s].quote = quote'
  BY DEF Current, Holds, On, X, S, Agreement, Quote
<1>0. TypeOK /\ Alone /\ GapIsEmpty /\ RowsAgree /\ Current
  BY DEF IInv
<1>1. ASSUME NEW r \in Requests, Lock(r)
      PROVE  /\ Holds(s, Agreement)' => loaded'[s].agreement = agreement'
             /\ Holds(s, Quote)' => loaded'[s].quote = quote'
  <2>1. agreement' = agreement /\ quote' = quote
    BY <1>1 DEF Lock, db
  <2>2. CASE s = r
    BY <1>0, <1>1, <2>1, <2>2, LockReads
  <2>3. CASE s # r
    <3>1. held'[s] = held[s] /\ loaded'[s] = loaded[s]
      BY <1>0, <1>1, <2>3 DEF Lock, TypeOK
    <3> QED
      BY <1>0, <2>1, <3>1 DEF Current, Holds, On, X, S, Agreement, Quote
  <2> QED
    BY <2>2, <2>3
<1>2. ASSUME held'[s] = {}
      PROVE  ~Holds(s, Agreement)' /\ ~Holds(s, Quote)'
  BY <1>2 DEF Holds
<1>3. ASSUME held'[s] = held[s], loaded'[s] = loaded[s]
      PROVE  /\ Holds(s, Agreement)' => loaded'[s].agreement = agreement'
             /\ Holds(s, Quote)' => loaded'[s].quote = quote'
  <2>1. /\ Holds(s, Agreement)' = Holds(s, Agreement)
        /\ Holds(s, Quote)' = Holds(s, Quote)
    BY <1>3 DEF Holds, On, X, S, Agreement, Quote
  <2>2. CASE Ignores
    BY <1>0, <1>3, <2>1, <2>2 DEF Ignores, Current
  <2>3. ASSUME NEW r \in Requests, Commit(r), held[s] # {}
        PROVE  /\ Holds(s, Agreement) => agreement' = agreement
               /\ Holds(s, Quote) => quote' = quote
    <3>1. Stage(r) = 4 /\ held'[r] = {}
      BY <2>3, <1>0, CommitEnds
         DEF End, TypeOK, Commit, Commits, GetOrCreate, SaveDraft,
             StartSigning, SubmitCustomerSignature, StartStaffSigning,
             SubmitStaffSignature, SetRepresentativeSignature, Finalize,
             UpdateQuote, MarkQuoteViewed, DeleteQuote
    <3>2. s # r
      BY <1>3, <2>3, <3>1
    <3>3. /\ job[r].op \in AgreementOps /\ Holds(s, Agreement)
               => job[r].op \in {"updateQuote", "deleteQuote"} /\ ~agreement.exists
          /\ WritesQuote(job[r]) => ~Holds(s, Quote)
      BY <1>0, <3>1, <3>2, WritersAreAlone
    <3>9. CASE Views /\ WritesQuote(job[r])
      BY <3>3, <3>9 DEF Views
    <3>4. CASE Drafts /\ job[r].op \in AgreementOps \ {"updateQuote", "deleteQuote"}
      BY <3>3, <3>4 DEF Drafts
    <3>5. CASE Concludes /\ job[r].op = "finalize"
      BY <3>3, <3>5 DEF AgreementOps, WritesQuote
    <3>6. CASE Edits /\ job[r].op = "updateQuote"
      BY <3>3, <3>6 DEF Edits, WritesQuote
    <3>7. CASE Removes /\ job[r].op = "deleteQuote"
      BY <1>0, <3>3, <3>7 DEF Removes, AgreementOps, WritesQuote, RowsAgree
    <3>8. CASE Ignores
      BY <3>8 DEF Ignores
    <3> QED
      BY <2>3, <3>4, <3>5, <3>6, <3>7, <3>8, <3>9, CommitKinds
  <2>4. CASE held[s] = {}
    BY <2>1, <2>4 DEF Holds
  <2> QED
    BY <1>0, <1>3, <2>1, <2>2, <2>3, <2>4, StepKinds DEF Current
<1> QED
  BY <1>0, <1>1, <1>2, <1>3, StepReleases DEF Releases
-----------------------------------------------------------------------------
LEMMA InitIInv == Init => IInv
<1> SUFFICES ASSUME Init PROVE IInv
  OBVIOUS
<1>1. NothingRead \in Loaded /\ NoAgreement \in AgreementRow /\ NoJob \in Job
      /\ NoLink \in StaffSigningLink
  BY ConstantsTyped
<1>2. TypeOK
  <2>1. quote \in TradeInQuote /\ agreement \in AgreementRow /\ late \in BOOLEAN
    BY <1>1 DEF Init, TradeInQuote, QuoteStatus
  <2>2. links \in [Links -> StaffSigningLink]
    BY <1>1 DEF Init
  <2>3. release \in 1 .. MaxReleases
        /\ drawn \in [customer : 0 .. MaxTokens, staff : 0 .. MaxLinks]
    BY DEF Init
  <2>4. /\ job \in [Requests -> Job] /\ held \in [Requests -> SUBSET Locks]
        /\ loaded \in [Requests -> Loaded]
    BY <1>1 DEF Init
  <2> QED
    BY <2>1, <2>2, <2>3, <2>4 DEF TypeOK
<1>3. \A r \in Requests : held[r] = {} /\ job[r].op = "none"
  BY DEF Init, NoJob
<1>4. quote.status = "open" /\ agreement = NoAgreement
  BY DEF Init
<1> QED
  BY <1>2, <1>3, <1>4
  DEF IInv, Alone, GapIsEmpty, RowsAgree, ViewersLoaded, Current, Holds, NoAgreement

LEMMA StepIInv == IInv /\ [Next]_vars => IInv'
<1> SUFFICES ASSUME IInv, [Next]_vars PROVE IInv'
  OBVIOUS
<1>1. TypeOK' /\ Alone'
  BY TypeStep, AloneStep DEF IInv
<1>2. GapIsEmpty' /\ RowsAgree' /\ ViewersLoaded' /\ Current'
  BY GapIsEmptyStep, RowsAgreeStep, ViewersLoadedStep, CurrentStep
<1> QED
  BY <1>1, <1>2 DEF IInv

LEMMA SpecIInv == Spec => []IInv
  BY InitIInv, StepIInv, PTL DEF Spec

(* Every variable keeps its type: in particular no transaction locks a row that
   does not exist, and no write leaves a column out of its range. *)
THEOREM TypesAreKept == Spec => []TypeOK
<1>1. IInv => TypeOK
  BY DEF IInv
<1> QED
  BY <1>1, SpecIInv, PTL

(* What a handler checks under a lock is still so when it writes: nobody else
   has changed the agreement or the quote. *)
THEOREM LocksKeepReadings == Spec => []LoadedIsCurrent
<1>1. IInv => LoadedIsCurrent
  BY DEF IInv, Current, LoadedIsCurrent, Holds, On
<1> QED
  BY <1>1, SpecIInv, PTL

(* A cancelled or deleted request is not completed without being opened again. *)
THEOREM CancelledStaysCancelled == Spec => CancelledIsNotCompleted
<1>1. IInv /\ [Next]_vars
        => [quote.status \in {"cancelled", "gone"} => quote'.status # "completed"]_vars
  <2> SUFFICES ASSUME IInv, [Next]_vars, quote.status \in {"cancelled", "gone"},
                      quote'.status = "completed"
               PROVE  FALSE
    OBVIOUS
  <2>1. ~Ignores
    BY DEF Ignores
  <2>2. PICK r \in Requests : Commit(r)
    BY <2>1, StepKinds
  <2>3. Drafts \/ Concludes \/ Edits \/ Views \/ Removes
    BY <2>1, <2>2, CommitKinds
  <2> QED
    BY <2>3 DEF Drafts, Concludes, Edits, Views, Removes, Open, IInv, RowsAgree
<1> QED
  BY <1>1, SpecIInv, PTL DEF Spec, CancelledIsNotCompleted

(* The agreement with its quote is a contract: whatever the interleaving,
   every step drafts it, concludes it, or leaves it as it is, but for a save of
   markQuoteViewed once it is concluded. *)
THEOREM AgreementIsContract == Spec => KeepsContract
<1>1. Init => Deal!Init
  BY DEF Init, Deal!Init, NoAgreement
<1>2. IInv /\ IInv' /\ [Next]_vars => [Deal!Next \/ WritesBack]_(Deal!contract)
  <2> SUFFICES ASSUME IInv, IInv', [Next]_vars
               PROVE  [Deal!Next \/ WritesBack]_(Deal!contract)
    OBVIOUS
  <2>1. /\ agreement \in AgreementRow /\ quote \in TradeInQuote
        /\ agreement' \in AgreementRow /\ quote' \in TradeInQuote
        /\ RowsAgree /\ RowsAgree'
    BY DEF IInv, TypeOK
  <2>2. ASSUME Ignores
        PROVE  UNCHANGED Deal!contract
    BY <2>2 DEF Ignores, Deal!contract
  <2>3. ASSUME ~agreement.final, ~agreement'.final, quote'.status # "completed"
        PROVE  Deal!Draft
    <3>1. quote.status # "completed"
      BY <2>1, <2>3 DEF RowsAgree
    <3>2. ~agreement'.exists => agreement' = NoAgreement
      BY <2>1 DEF RowsAgree
    <3>3. agreement'.details.text \in Texts /\ Nobody \notin Texts
      BY <2>1 DEF AgreementRow, AgreementDetails
    <3> DEFINE text(a) == IF a.exists THEN a.details.text ELSE Nobody
               signed(a) == (IF a.customer = 0 THEN {} ELSE {"customer"})
                            \union (IF a.drawing = Nobody THEN {} ELSE {"shop"})
               settled(q) == IF q.status = "completed" THEN q.offer ELSE Nobody
    <3>4. text(agreement') \in Texts \union {Nobody}
          /\ signed(agreement') \in SUBSET Deal!Parties
      BY <3>3 DEF Deal!Parties
    <3>5. text(agreement') = Nobody => signed(agreement') = {}
      BY <3>2, <3>3 DEF NoAgreement
    <3>6. settled(quote) = settled(quote')
      BY <2>3, <3>1
    <3> QED
      BY <2>1, <2>3, <3>4, <3>5, <3>6 DEF Deal!Draft, Texts, AgreementRow
  <2>4. ASSUME Concludes
        PROVE  Deal!Conclude
    <3>1. agreement.details.text \in Offers /\ agreement.customer # 0
          /\ agreement.drawing # Nobody
      BY <2>1, <2>4 DEF Concludes, Complete, AgreementRow, AgreementDetails, Texts
    <3>2. /\ agreement'.exists = agreement.exists
          /\ agreement'.details = agreement.details
          /\ agreement'.customer = agreement.customer
          /\ agreement'.drawing = agreement.drawing /\ agreement'.final
      BY <2>1, <2>4 DEF Concludes, AgreementRow
    <3>3. quote'.status = "completed" /\ quote'.offer = agreement.details.text
      BY <2>4 DEF Concludes
    <3> QED
      BY <2>1, <2>4, <3>1, <3>2, <3>3 DEF Concludes, Deal!Conclude, Deal!Parties
  <2>5. ASSUME NEW r \in Requests, Commit(r)
        PROVE  [Deal!Next \/ WritesBack]_(Deal!contract)
    <3>4. CASE Views /\ MarkQuoteViewed(r)
      <4>1. CASE agreement.final
        BY <3>4, <4>1 DEF WritesBack
      <4>2. CASE ~agreement.final
        BY <2>1, <2>3, <3>4, <4>2 DEF Views, Deal!Next
      <4> QED
        BY <2>1, <4>1, <4>2
    <3>1. CASE Drafts
      BY <2>1, <2>3, <3>1 DEF Drafts, RowsAgree, Deal!Next
    <3>2. CASE Edits
      BY <2>1, <2>3, <3>2 DEF Edits, RowsAgree, Deal!Next
    <3>3. CASE Removes
      BY <2>1, <2>3, <3>3 DEF Removes, RowsAgree, NoAgreement, Deal!Next
    <3> QED
      BY <2>2, <2>4, <2>5, <3>1, <3>2, <3>3, <3>4, CommitKinds DEF Deal!Next
  <2> QED
    BY <2>2, <2>5, StepKinds
<1> QED
  BY <1>1, <1>2, SpecIInv, PTL DEF Spec, KeepsContract

(* Where nobody marks a quote as viewed, the implementation is exact: nothing at
   all about a concluded agreement or its quote changes. *)
THEOREM UnviewedIsContract ==
  ASSUME "markQuoteViewed" \notin Served
  PROVE  Spec => Deal!Spec
<1> DEFINE NobodyViews == \A r \in Requests : job[r].op # "markQuoteViewed"
<1>1. Init => NobodyViews
  <2> SUFFICES ASSUME Init, NEW r \in Requests PROVE job[r].op # "markQuoteViewed"
    OBVIOUS
  <2>1. job[r].op = "none"
    BY DEF Init, NoJob
  <2> QED
    BY <2>1
<1>2. TypeOK /\ NobodyViews /\ [Next]_vars => NobodyViews'
  <2> SUFFICES ASSUME TypeOK, NobodyViews, [Next]_vars, NEW s \in Requests
               PROVE  job'[s].op # "markQuoteViewed"
    OBVIOUS
  <2>1. Begin(s) => job'[s].op \in Served
    BY DEF Begin, TypeOK
  <2>2. ~Compare(s)
    BY DEF Compare
  <2> QED
    BY <2>1, <2>2, JobsStep DEF NoJob
<1>3. NobodyViews => ~WritesBack
  BY DEF WritesBack, MarkQuoteViewed, Commits
<1>4. [Deal!Next \/ WritesBack]_(Deal!contract) /\ ~WritesBack
        => [Deal!Next]_(Deal!contract)
  OBVIOUS
<1> HIDE DEF NobodyViews
<1> QED
  BY <1>1, <1>2, <1>3, <1>4, TypesAreKept, AgreementIsContract, PTL
  DEF Spec, KeepsContract, Deal!Spec
-----------------------------------------------------------------------------
(* The links of staff. *)

\* No two requests have the same link locked: links are only locked exclusively.
LinkAlone ==
  \A l \in Links : \A r, s \in Requests :
    r # s /\ X(Link(l)) \in held[r] => X(Link(l)) \notin held[s]

IssuesLink(r) == job[r].op = "startStaffSigning"
SignsByLink(r) == job[r].op = "submitStaffSignature"

\* A link to be issued is new, and of one request.
LinksDrawn ==
  /\ \A l \in Links : l > drawn.staff => links[l].state = "none"
  /\ \A r \in Requests : IssuesLink(r) =>
       /\ job[r].item \in Links /\ job[r].item <= drawn.staff
       /\ links[job[r].item].state = "none"
  /\ \A r, s \in Requests :
       IssuesLink(r) /\ IssuesLink(s) /\ job[r].item = job[s].item => r = s

\* A link to sign on was issued to the employee who signs, and while it is locked
\* it may expire but not be used or deleted.
LinksSign ==
  \A r \in Requests : SignsByLink(r) =>
    /\ job[r].item \in Links /\ links[job[r].item].state # "none"
    /\ links[job[r].item].user = job[r].user
    /\ X(Link(job[r].item)) \in held[r] /\ loaded[r].link = "open"
         => links[job[r].item].state \in {"open", "void"}

LinkInv == LinkAlone /\ LinksDrawn /\ LinksSign /\ OneLinkPerEmployee

\* A step keeps the locks of links exclusive.
LEMMA LinkAloneStep ==
  ASSUME TypeOK, LinkAlone, [Next]_vars
  PROVE  LinkAlone'
<1>1. CASE Releases
  BY <1>1 DEF Releases, LinkAlone
<1>2. ASSUME NEW r \in Requests, Lock(r)
      PROVE  LinkAlone'
  <2>1. /\ held'[r] = held[r] \union Missing(r)
        /\ \A s \in Requests : s # r => held'[s] = held[s]
    BY <1>2 DEF Lock, TypeOK
  <2>2. ASSUME NEW s \in Requests, s # r, NEW l \in Links, X(Link(l)) \in Missing(r)
        PROVE  X(Link(l)) \notin held[s]
    <3>1. ~WaitsFor(r, s)
      BY <1>2 DEF Lock
    <3>2. \A b \in held[s] : ~Blocks(b, X(Link(l)))
      BY <1>2, <2>2, <3>1 DEF WaitsFor, Lock
    <3> QED
      BY <3>2 DEF Blocks, X
  <2>3. ASSUME NEW l \in Links, NEW p \in Requests, NEW q \in Requests, p # q,
               X(Link(l)) \in held'[p], X(Link(l)) \in held'[q]
        PROVE  FALSE
    BY <2>1, <2>2, <2>3 DEF LinkAlone
  <2> QED
    BY <2>3 DEF LinkAlone, X, Link
<1> QED
  BY <1>1, <1>2, StepReleases

\* The transaction of a signature on a link finds it unused.
LEMMA SubmitFindsUnused ==
  ASSUME LinksSign, NEW r \in Requests, SubmitStaffSignature(r)
  PROVE  /\ job[r].item \in Links /\ X(Link(job[r].item)) \in held[r]
         /\ links[job[r].item].user = job[r].user
         /\ links[job[r].item].state \in {"open", "void"}
<1>1. SignsByLink(r) /\ Stage(r) = 4 /\ Admitted(r, 4)
  BY DEF SubmitStaffSignature, Commits, SignsByLink
<1>2. Plan(job[r])[1] = {X(Link(job[r].item))}
  BY <1>1 DEF SignsByLink, Plan
<1>3. X(Link(job[r].item)) \in held[r]
  BY <1>1, <1>2, StageIs
<1>4. loaded[r].link = "open"
  BY <1>1 DEF Admitted, SignsByLink, IsOpen
<1> QED
  BY <1>1, <1>3, <1>4 DEF LinksSign

\* What a commit does to a link: it withdraws or uses a stored one that it has
\* locked, or issues a new one as its employee's only one.
LEMMA CommitLinks ==
  ASSUME TypeOK, LinksSign, NEW r \in Requests, Commit(r), NEW l \in Links
  PROVE  \/ links'[l] = links[l]
         \/ /\ Stored(l) /\ X(Link(l)) \in held[r]
            /\ links'[l].user = links[l].user /\ links'[l].state \in {"deleted", "used"}
         \/ StartStaffSigning(r) /\ l = job[r].item
<1>1. links[l] \in StaffSigningLink /\ links \in [Links -> StaffSigningLink]
  BY DEF TypeOK
<1>2. Stage(r) = 4
  BY DEF Commit, Commits, GetOrCreate, SaveDraft, StartSigning,
         SubmitCustomerSignature, StartStaffSigning, SubmitStaffSignature,
         SetRepresentativeSignature, Finalize, UpdateQuote, MarkQuoteViewed, DeleteQuote
<1>3. /\ Plan(job[r])[2] \subseteq held[r] /\ Plan(job[r])[3] \subseteq held[r]
  BY <1>2, StageIs
<1>4. ASSUME NEW ls \in SUBSET Links, XLinks(ls) \subseteq held[r], l \in ls, Stored(l)
      PROVE  /\ X(Link(l)) \in held[r]
             /\ Deleted(ls)[l].user = links[l].user /\ Deleted(ls)[l].state = "deleted"
  BY <1>1, <1>4 DEF XLinks, Deleted, StaffSigningLink
<1>5. \A ls \in SUBSET Links : l \notin ls => Deleted(ls)[l] = links[l]
  BY DEF Deleted
<1>6. CASE StartStaffSigning(r)
  <2>1. XLinks(LinksOf(job[r].user)) \subseteq held[r]
    BY <1>3, <1>6 DEF StartStaffSigning, Commits, Plan
  <2>2. LinksOf(job[r].user) \in SUBSET Links
        /\ (l \in LinksOf(job[r].user) => Stored(l))
    BY DEF LinksOf
  <2>3. Deleted(LinksOf(job[r].user)) \in [Links -> {Deleted(LinksOf(job[r].user))[k] : k \in Links}]
    BY DEF Deleted
  <2>4. l # job[r].item => links'[l] = Deleted(LinksOf(job[r].user))[l]
    BY <1>6, <2>3 DEF StartStaffSigning
  <2> QED
    BY <1>4, <1>5, <1>6, <2>1, <2>2, <2>4
<1>7. CASE SubmitStaffSignature(r)
  <2>1. /\ job[r].item \in Links /\ X(Link(job[r].item)) \in held[r]
        /\ links[job[r].item].user = job[r].user /\ Stored(job[r].item)
    BY <1>7, SubmitFindsUnused DEF Stored
  <2>2. links' = [links EXCEPT ![job[r].item] = [state |-> "used", user |-> job[r].user]]
    BY <1>7 DEF SubmitStaffSignature
  <2> QED
    BY <1>1, <2>1, <2>2
<1>8. CASE SetRepresentativeSignature(r)
  <2>1. XLinks(LinksOf(job[r].user)) \subseteq held[r]
    BY <1>3, <1>8 DEF SetRepresentativeSignature, Commits, Plan
  <2>2. LinksOf(job[r].user) \in SUBSET Links
        /\ (l \in LinksOf(job[r].user) => Stored(l))
    BY DEF LinksOf
  <2> QED
    BY <1>4, <1>5, <1>8, <2>1, <2>2 DEF SetRepresentativeSignature
<1>9. CASE DeleteQuote(r)
  <2> DEFINE all == {k \in Links : Stored(k)}
  <2>1. XLinks(all) \subseteq held[r] /\ all \in SUBSET Links
    BY <1>3, <1>9 DEF DeleteQuote, Commits, Plan
  <2>2. links' = Deleted(all) /\ (l \in all => Stored(l))
    BY <1>9 DEF DeleteQuote
  <2> HIDE DEF all
  <2> QED
    BY <1>4, <1>5, <2>1, <2>2
<1>10. CASE UNCHANGED links
  BY <1>10
<1> QED
  BY <1>6, <1>7, <1>8, <1>9, <1>10
  DEF Commit, GetOrCreate, SaveDraft, StartSigning, SubmitCustomerSignature, Finalize,
      UpdateQuote, MarkQuoteViewed

\* A new link is the only one its employee has.
LEMMA IssuesOnlyLink ==
  ASSUME TypeOK, NEW r \in Requests, StartStaffSigning(r), NEW k \in Links,
         Stored(k)', k # job[r].item
  PROVE  Stored(k) /\ links'[k] = links[k] /\ links[k].user # job[r].user
<1> DEFINE ls == LinksOf(job[r].user)
<1>1. Deleted(ls) \in [Links -> {Deleted(ls)[l] : l \in Links}]
  BY DEF Deleted
<1>2. links'[k] = Deleted(ls)[k]
  BY <1>1 DEF StartStaffSigning
<1>3. links[k] \in StaffSigningLink
  BY DEF TypeOK
<1>4. k \notin ls /\ Deleted(ls)[k] = links[k]
  BY <1>2, <1>3 DEF Deleted, Stored, StaffSigningLink
<1>5. Stored(k)
  BY <1>2, <1>4 DEF Stored
<1> QED
  BY <1>2, <1>4, <1>5 DEF LinksOf

\* No step leaves an employee with two links.
LEMMA OneLinkStep ==
  ASSUME TypeOK, LinkInv, [Next]_vars
  PROVE  OneLinkPerEmployee'
<1> SUFFICES ASSUME NEW k \in Links, NEW l \in Links, Stored(k)', Stored(l)',
                    links'[k].user = links'[l].user
             PROVE  k = l
  BY DEF OneLinkPerEmployee, Links
<1>1. links \in [Links -> StaffSigningLink]
  BY DEF TypeOK
<1>2. ASSUME \A m \in {k, l} : Stored(m) /\ links'[m].user = links[m].user
      PROVE  k = l
  BY <1>2 DEF LinkInv, OneLinkPerEmployee
<1>3. ASSUME NEW r \in Requests, StartStaffSigning(r)
      PROVE  k = l
  <2>1. job[r].item \in Links
    BY <1>3 DEF StartStaffSigning, Commits, TypeOK, Job
  <2>2. links'[job[r].item].user = job[r].user
    <3>1. Deleted(LinksOf(job[r].user)) = [m \in Links |-> Deleted(LinksOf(job[r].user))[m]]
      BY DEF Deleted
    <3> QED
      BY <1>3, <2>1, <3>1 DEF StartStaffSigning
  <2>3. ASSUME k # job[r].item, l = job[r].item PROVE FALSE
    BY <1>3, <2>2, <2>3, IssuesOnlyLink
  <2>4. ASSUME l # job[r].item, k = job[r].item PROVE FALSE
    BY <1>3, <2>2, <2>4, IssuesOnlyLink
  <2>5. CASE k # job[r].item /\ l # job[r].item
    BY <1>2, <1>3, <2>5, IssuesOnlyLink
  <2> QED
    BY <2>3, <2>4, <2>5
<1>4. ASSUME NEW r \in Requests, Commit(r), ~StartStaffSigning(r)
      PROVE  k = l
  <2>1. \A m \in {k, l} : Stored(m) /\ links'[m].user = links[m].user
    BY <1>4, CommitLinks DEF LinkInv, Stored
  <2> QED
    BY <1>2, <2>1
<1>5. CASE UNCHANGED links
  BY <1>2, <1>5 DEF Stored
<1>6. CASE Expire
  BY <1>1, <1>2, <1>6 DEF Expire, Stored, StaffSigningLink
<1> QED
  BY <1>3, <1>4, <1>5, <1>6
  DEF Next, vars, db, Begin, Compare, Lock, Refuse, Rollback, Restart

\* The state of a link that is not issued stays "none", but for the commit that
\* issues it; a link that is stored or gone keeps its employee.
LEMMA LinkRowsStep ==
  ASSUME TypeOK, LinkInv, [Next]_vars, NEW l \in Links
  PROVE  /\ links[l].state = "none" /\ links'[l].state # "none"
              => \E r \in Requests : StartStaffSigning(r) /\ l = job[r].item
         /\ links[l].state # "none"
              => links'[l].state # "none" /\ links'[l].user = links[l].user
<1>1. links \in [Links -> StaffSigningLink]
  BY DEF TypeOK
<1>2. CASE UNCHANGED links
  BY <1>2
<1>3. CASE Expire
  BY <1>1, <1>3 DEF Expire, StaffSigningLink
<1>4. ASSUME NEW r \in Requests, Commit(r)
      PROVE  /\ links[l].state = "none" /\ links'[l].state # "none"
                  => StartStaffSigning(r) /\ l = job[r].item
             /\ links[l].state # "none"
                  => links'[l].state # "none" /\ links'[l].user = links[l].user
  <2>1. StartStaffSigning(r) => links[job[r].item].state = "none"
    BY DEF StartStaffSigning, Commits, LinkInv, LinksDrawn, IssuesLink
  <2> QED
    BY <1>4, <2>1, CommitLinks DEF LinkInv, Stored
<1> QED
  BY <1>2, <1>3, <1>4
  DEF Next, vars, db, Begin, Compare, Lock, Refuse, Rollback, Restart

\* Links are issued in the order their tokens are drawn, each once.
LEMMA LinksDrawnStep ==
  ASSUME TypeOK, LinkInv, [Next]_vars
  PROVE  LinksDrawn'
<1>1. drawn.staff \in 0 .. MaxLinks /\ Links = 1 .. MaxLinks
  BY DEF TypeOK, Links
<1>2. ASSUME NEW r \in Requests, Begin(r), IssuesLink(r)'
      PROVE  /\ job'[r].item = drawn.staff + 1 /\ drawn'.staff = drawn.staff + 1
             /\ links' = links /\ job'[r].item \in Links
             /\ \A s \in Requests : s # r => job'[s] = job[s]
  <2>1. PICK j \in Calls : /\ job' = [job EXCEPT ![r] = j]
                           /\ drawn' = [customer |-> IF j.op = "startSigning"
                                          THEN j.item ELSE drawn.customer,
                                        staff |-> IF j.op = "startStaffSigning"
                                          THEN j.item ELSE drawn.staff]
    BY <1>2 DEF Begin
  <2>2. job'[r] = j /\ \A s \in Requests : s # r => job'[s] = job[s]
    BY <2>1 DEF TypeOK
  <2>3. j.op = "startStaffSigning" => j.item = drawn.staff + 1
    BY DEF Calls, Call
  <2>4. j.item \in Links
    BY <1>2, <2>2, CallsTyped DEF IssuesLink, Job
  <2> QED
    BY <1>2, <2>1, <2>2, <2>3, <2>4 DEF IssuesLink, Begin
<1>3. ASSUME NEW r \in Requests, Begin(r), ~IssuesLink(r)'
      PROVE  drawn'.staff = drawn.staff /\ links' = links
  <2>1. PICK j \in Calls : /\ job' = [job EXCEPT ![r] = j]
                           /\ drawn' = [customer |-> IF j.op = "startSigning"
                                          THEN j.item ELSE drawn.customer,
                                        staff |-> IF j.op = "startStaffSigning"
                                          THEN j.item ELSE drawn.staff]
    BY <1>3 DEF Begin
  <2>2. job'[r] = j
    BY <2>1 DEF TypeOK
  <2> QED
    BY <1>3, <2>1, <2>2 DEF IssuesLink, Begin
<1>4. ASSUME NEW r \in Requests, Begin(r), IssuesLink(r)'
      PROVE  LinksDrawn'
  BY <1>1, <1>2, <1>4 DEF LinkInv, LinksDrawn, IssuesLink
<1>5. CASE ~\E r \in Requests : Begin(r) /\ IssuesLink(r)'
  <2>1. drawn'.staff = drawn.staff
    BY <1>3, <1>5
    DEF Next, vars, db, Lock, Refuse, Rollback, Restart, Expire, Commit, GetOrCreate,
        SaveDraft, StartSigning, SubmitCustomerSignature, StartStaffSigning,
        SubmitStaffSignature, SetRepresentativeSignature, Finalize, UpdateQuote,
        MarkQuoteViewed, Compare,
        DeleteQuote
  <2>2. \A r \in Requests : IssuesLink(r)' => job'[r] = job[r] /\ IssuesLink(r)
    BY <1>5, OtherJobsStep DEF IssuesLink, NoJob
  <2>3. ASSUME NEW r \in Requests, StartStaffSigning(r)
        PROVE  /\ IssuesLink(r) /\ ~IssuesLink(r)'
               /\ job[r].item \in Links /\ job[r].item <= drawn.staff
    <3>1. End(r)
      BY <2>3 DEF StartStaffSigning, Commits
    <3>2. job'[r] = NoJob
      BY <3>1 DEF End, TypeOK
    <3> QED
      BY <2>3, <3>2
      DEF StartStaffSigning, Commits, IssuesLink, NoJob, LinkInv, LinksDrawn
  <2>4. ASSUME NEW l \in Links, l > drawn'.staff
        PROVE  links'[l].state = "none"
    BY <1>1, <2>1, <2>3, <2>4, LinkRowsStep DEF LinkInv, LinksDrawn
  <2>5. ASSUME NEW r \in Requests, IssuesLink(r)'
        PROVE  /\ job'[r].item \in Links /\ job'[r].item <= drawn'.staff
               /\ links'[job'[r].item].state = "none"
    <3>1. IssuesLink(r) /\ job'[r] = job[r]
      BY <2>2, <2>5
    <3>2. /\ job[r].item \in Links /\ job[r].item <= drawn.staff
          /\ links[job[r].item].state = "none"
      BY <3>1 DEF LinkInv, LinksDrawn
    <3>3. ASSUME NEW q \in Requests, StartStaffSigning(q), job[r].item = job[q].item
          PROVE  FALSE
      BY <2>3, <2>5, <3>1, <3>3 DEF LinkInv, LinksDrawn
    <3> QED
      BY <2>1, <3>1, <3>2, <3>3, LinkRowsStep
  <2>6. \A r, s \in Requests :
          IssuesLink(r)' /\ IssuesLink(s)' /\ job'[r].item = job'[s].item => r = s
    BY <2>2 DEF LinkInv, LinksDrawn
  <2> QED
    BY <2>4, <2>5, <2>6 DEF LinksDrawn, IssuesLink, Links
<1> QED
  BY <1>4, <1>5

\* Who has a link locked finds it as it was when it was locked, or expired.
LEMMA LinksSignStep ==
  ASSUME TypeOK, LinkInv, [Next]_vars
  PROVE  LinksSign'
<1> SUFFICES ASSUME NEW r \in Requests, SignsByLink(r)'
             PROVE  /\ job'[r].item \in Links /\ links'[job'[r].item].state # "none"
                    /\ links'[job'[r].item].user = job'[r].user
                    /\ X(Link(job'[r].item)) \in held'[r] /\ loaded'[r].link = "open"
                         => links'[job'[r].item].state \in {"open", "void"}
  BY DEF LinksSign, SignsByLink, X, Link, Links
<1> DEFINE l == job'[r].item
<1>1. CASE Begin(r)
  <2>1. PICK j \in Calls : job' = [job EXCEPT ![r] = j] /\ Welcome(j)
    BY <1>1 DEF Begin
  <2>2. job'[r] = j /\ j.op = "submitStaffSignature"
    BY <2>1 DEF TypeOK, SignsByLink
  <2>3. j.item \in Links /\ Stored(j.item) /\ links[j.item].user = j.user
    BY <2>2 DEF Calls, Call
  <2>4. links[j.item].state = "open"
    BY <2>1, <2>2 DEF Welcome
  <2> QED
    BY <1>1, <2>2, <2>3, <2>4 DEF Begin
<1>2. CASE ~Begin(r)
  <2>1. job'[r] = job[r] /\ SignsByLink(r)
    BY <1>2, OtherJobsStep DEF SignsByLink, NoJob
  <2>2. /\ l \in Links /\ links[l].state # "none" /\ links[l].user = job[r].user
        /\ X(Link(l)) \in held[r] /\ loaded[r].link = "open"
             => links[l].state \in {"open", "void"}
    BY <2>1 DEF LinkInv, LinksSign
  <2>3. links'[l].state # "none" /\ links'[l].user = job'[r].user
    BY <2>1, <2>2, LinkRowsStep
  <2> SUFFICES ASSUME X(Link(l)) \in held'[r], loaded'[r].link = "open"
               PROVE  links'[l].state \in {"open", "void"}
    BY <2>1, <2>2, <2>3
  <2>4. CASE Lock(r)
    <3>1. /\ links' = links /\ held'[r] = held[r] \union Missing(r)
          /\ loaded'[r] = Read(job[r], loaded[r], Stage(r))
      BY <2>4 DEF Lock, db, TypeOK
    <3>2. loaded'[r].link = IF Stage(r) = 1 THEN links[l].state ELSE loaded[r].link
      BY <2>1, <3>1 DEF Read, SignsByLink
    <3>3. Stage(r) # 1 => X(Link(l)) \in held[r]
      BY <2>1 DEF Stage, Plan, SignsByLink
    <3> QED
      BY <2>2, <3>1, <3>2, <3>3
  <2>5. CASE ~Lock(r)
    <3>1. held'[r] = held[r] /\ loaded'[r] = loaded[r]
      <4>1. CASE Releases
        BY <4>1 DEF Releases
      <4>2. ASSUME NEW q \in Requests, Lock(q), q # r
            PROVE  held'[r] = held[r] /\ loaded'[r] = loaded[r]
        BY <4>2 DEF Lock, TypeOK
      <4> QED
        BY <2>5, <4>1, <4>2, StepReleases
    <3>2. X(Link(l)) \in held[r] /\ links[l].state \in {"open", "void"}
      BY <2>2, <3>1
    <3>3. CASE UNCHANGED links
      BY <3>2, <3>3
    <3>4. CASE Expire
      <4>1. links \in [Links -> StaffSigningLink]
        BY DEF TypeOK
      <4> QED
        BY <2>2, <3>2, <3>4, <4>1 DEF Expire, StaffSigningLink
    <3>5. ASSUME NEW q \in Requests, Commit(q)
          PROVE  links'[l] = links[l]
      <4>1. q # r
        <5>1. End(q)
          BY <3>5, CommitEnds
        <5>2. job'[q] = NoJob
          BY <5>1 DEF End, TypeOK
        <5> QED
          BY <5>2 DEF SignsByLink, NoJob
      <4>2. X(Link(l)) \notin held[q]
        BY <2>2, <3>2, <4>1 DEF LinkInv, LinkAlone
      <4>3. ~(StartStaffSigning(q) /\ l = job[q].item)
        BY <2>2 DEF StartStaffSigning, Commits, IssuesLink, LinkInv, LinksDrawn
      <4> QED
        BY <2>2, <3>5, <4>2, <4>3, CommitLinks DEF LinkInv
    <3> QED
      BY <3>2, <3>3, <3>4, <3>5
      DEF Next, vars, db, Begin, Compare, Lock, Refuse, Rollback, Restart
  <2> QED
    BY <2>4, <2>5
<1> QED
  BY <1>1, <1>2

\* So the invariant of the links holds in every state.
LEMMA SpecLinkInv == Spec => []LinkInv
<1>1. Init => LinkInv
  <2> SUFFICES ASSUME Init PROVE LinkInv
    OBVIOUS
  <2>1. \A l \in Links : links[l].state = "none"
    BY DEF Init, NoLink
  <2>2. \A r \in Requests : job[r].op = "none" /\ held[r] = {}
    BY DEF Init, NoJob
  <2> QED
    BY <2>1, <2>2
    DEF LinkInv, LinkAlone, LinksDrawn, LinksSign, OneLinkPerEmployee, Stored,
        IssuesLink, SignsByLink
<1>2. TypeOK /\ LinkInv /\ [Next]_vars => LinkInv'
  BY LinkAloneStep, LinksDrawnStep, LinksSignStep, OneLinkStep DEF LinkInv
<1> QED
  BY <1>1, <1>2, TypesAreKept, PTL DEF Spec

(* An employee has one link for the agreement at most, however many are asked for
   at once: whoever issues one withdraws the others in the same transaction. *)
THEOREM EmployeesHaveOneLink == Spec => []OneLinkPerEmployee
<1>1. LinkInv => OneLinkPerEmployee
  BY DEF LinkInv
<1> QED
  BY <1>1, SpecLinkInv, PTL

(* No signature goes on a link that was used or withdrawn: while a request that
   signs has the link locked, nobody else uses or withdraws it. *)
THEOREM LinksSignOnce == Spec => LinkSignsOnce
<1>1. LinkInv /\ [Next]_vars
        => [\A r \in Requests : SubmitStaffSignature(r)
              => links[job[r].item].state \notin {"used", "deleted"}]_vars
  BY SubmitFindsUnused DEF LinkInv
<1> QED
  BY <1>1, SpecLinkInv, PTL DEF Spec, LinkSignsOnce
-----------------------------------------------------------------------------
(* Deadlocks. *)

StaffLinkOps == {"startStaffSigning", "submitStaffSignature"}
EditOps == {"updateQuote", "deleteQuote"}
QuoteFirstOps == {"getOrCreate", "markQuoteViewed"}

\* But for the handlers of staff links, getOrCreate and markQuoteViewed, which lock
\* little else than the quote, a handler locks the agreement before all else, and
\* if it may share its gap, the quote before links.
InOrder(r) ==
  /\ held[r] # {} => Busy(r)
  /\ job[r].op \notin StaffLinkOps \union QuoteFirstOps /\ held[r] # {}
       => Holds(r, Agreement)
  /\ job[r].op \notin StaffLinkOps \union QuoteFirstOps \union EditOps /\ held[r] # {}
       => X(Agreement) \in held[r]
  /\ job[r].op \in EditOps
       => \A b \in held[r] : b.row # Agreement => X(Quote) \in held[r]
  /\ job[r].op = "getOrCreate" /\ held[r] # {}
       => S(Quote) \in held[r] /\ held[r] \subseteq {S(Quote), X(Agreement)}
  /\ job[r].op = "markQuoteViewed" => held[r] \subseteq {X(Quote)}
LocksInOrder == \A r \in Requests : InOrder(r)

\* What the plans of these handlers begin with.
LEMMA PlansBegin ==
  ASSUME NEW j \in Job
  PROVE  /\ j.op \notin StaffLinkOps \union QuoteFirstOps \union EditOps \union {"none"}
              => X(Agreement) \in Plan(j)[1]
         /\ j.op \in EditOps
              => Plan(j)[1] = {AgreementOrGap} /\ Plan(j)[2] = {X(Quote)}
         /\ j.op = "getOrCreate" => Plan(j) = <<{S(Quote)}, {X(Agreement)}, {}>>
         /\ j.op = "markQuoteViewed"
              => Plan(j) \in {<<{X(Quote)}, {}, {}>>, <<{}, {}, {}>>}
  BY DEF Plan, DraftLocks, FinalizeLocks, StaffLinkOps, QuoteFirstOps, EditOps, Job,
         Operations

\* Taking locks keeps the order.
LEMMA LockKeepsOrder ==
  ASSUME TypeOK, NEW r \in Requests, Lock(r), InOrder(r)
  PROVE  InOrder(r)'
<1> DEFINE plan == Plan(job[r])
<1>1. /\ held'[r] = held[r] \union Missing(r) /\ job' = job
      /\ Missing(r) = plan[Stage(r)] \ held[r] /\ job[r] \in Job /\ Busy(r)
  BY DEF Lock, Missing, TypeOK
<1>2. plan[1] \subseteq held'[r] /\ (Stage(r) # 1 => plan[2] \subseteq held'[r])
  BY <1>1 DEF Stage, Lock
<1>3. AgreementOrGap \in On(Agreement) /\ AgreementOrGap.row = Agreement
  BY DEF AgreementOrGap, On, X, S
<1>4. /\ On(Agreement)' = On(Agreement) /\ Agreement' = Agreement
      /\ X(Quote)' = X(Quote) /\ S(Quote)' = S(Quote) /\ X(Agreement)' = X(Agreement)
  BY DEF On, X, S, Agreement, Quote
<1>5. ASSUME job[r].op \notin StaffLinkOps \union QuoteFirstOps \union EditOps
      PROVE  InOrder(r)'
  <2>1. X(Agreement) \in held'[r]
    BY <1>1, <1>2, <1>5, PlansBegin DEF Busy
  <2> QED
    BY <1>1, <1>4, <1>5, <2>1
    DEF InOrder, Holds, On, StaffLinkOps, QuoteFirstOps, EditOps, Busy
<1>6. ASSUME job[r].op \in EditOps
      PROVE  InOrder(r)'
  <2>1. AgreementOrGap \in held'[r]
    BY <1>2, <1>6, <1>1, PlansBegin
  <2>2. CASE Stage(r) = 1
    <3>1. Missing(r) \subseteq {AgreementOrGap}
      BY <1>1, <1>6, <2>2, PlansBegin
    <3> QED
      BY <1>1, <1>3, <1>4, <1>6, <2>1, <3>1
      DEF InOrder, Holds, StaffLinkOps, QuoteFirstOps, EditOps, Busy
  <2>3. CASE Stage(r) # 1
    <3>1. X(Quote) \in held'[r]
      BY <1>1, <1>2, <1>6, <2>3, PlansBegin
    <3> QED
      BY <1>1, <1>3, <1>4, <1>6, <2>1, <3>1
      DEF InOrder, Holds, StaffLinkOps, QuoteFirstOps, EditOps, Busy
  <2> QED
    BY <2>2, <2>3
<1>7. CASE job[r].op \in StaffLinkOps
  BY <1>1, <1>7 DEF InOrder, StaffLinkOps, QuoteFirstOps, EditOps, Busy
<1>8. CASE job[r].op \in QuoteFirstOps
  <2>1. Stage(r) \in 1 .. 3
    BY StageIs DEF Lock
  <2>2. job[r].op = "getOrCreate"
          => S(Quote) \in held'[r] /\ Missing(r) \subseteq {S(Quote), X(Agreement)}
    BY <1>1, <1>2, <2>1, PlansBegin
  <2>3. job[r].op = "markQuoteViewed" => Missing(r) \subseteq {X(Quote)}
    BY <1>1, <2>1, PlansBegin
  <2> QED
    BY <1>1, <1>4, <1>8, <2>2, <2>3
    DEF InOrder, StaffLinkOps, QuoteFirstOps, EditOps, Busy
<1> QED
  BY <1>5, <1>6, <1>7, <1>8

\* So does every step.
LEMMA LocksInOrderStep ==
  ASSUME TypeOK, LocksInOrder, [Next]_vars
  PROVE  LocksInOrder'
<1> SUFFICES ASSUME NEW s \in Requests PROVE InOrder(s)'
  BY DEF LocksInOrder
<1>1. InOrder(s)
  BY DEF LocksInOrder
<1>2. /\ On(Agreement)' = On(Agreement) /\ Agreement' = Agreement
      /\ X(Quote)' = X(Quote) /\ S(Quote)' = S(Quote) /\ X(Agreement)' = X(Agreement)
  BY DEF On, X, S, Agreement, Quote
<1>3. CASE held'[s] = {}
  BY <1>3 DEF InOrder
<1>4. CASE held'[s] = held[s] /\ job'[s].op = job[s].op
  BY <1>1, <1>2, <1>4 DEF InOrder, Holds, Busy
<1>5. ASSUME NEW r \in Requests, Lock(r)
      PROVE  InOrder(s)'
  <2>1. s # r => held'[s] = held[s] /\ job'[s] = job[s]
    BY <1>5 DEF Lock, TypeOK
  <2> QED
    BY <1>1, <1>4, <1>5, <2>1, LockKeepsOrder
<1>6. ASSUME NEW r \in Requests, Begin(r)
      PROVE  InOrder(s)'
  <2>1. held' = held /\ (s # r => job'[s] = job[s]) /\ ~Busy(r)
    BY <1>6 DEF Begin, TypeOK
  <2>2. s = r => held'[s] = {}
    BY <1>1, <2>1 DEF InOrder
  <2> QED
    BY <1>3, <1>4, <2>1, <2>2
<1>7. ASSUME NEW r \in Requests, End(r)
      PROVE  InOrder(s)'
  <2>1. IF s = r THEN held'[s] = {} ELSE held'[s] = held[s] /\ job'[s] = job[s]
    BY <1>7 DEF End, TypeOK
  <2> QED
    BY <1>3, <1>4, <2>1
<1>8. ASSUME NEW r \in Requests, Refuse(r) \/ Rollback(r) \/ Commit(r) PROVE End(r)
  BY <1>8, CommitEnds DEF Refuse, Rollback
<1>9. CASE Restart
  BY <1>3, <1>9 DEF Restart
<1>10. CASE Expire \/ UNCHANGED vars
  BY <1>4, <1>10 DEF Expire, vars
<1>11. ASSUME NEW r \in Requests, Compare(r)
       PROVE  InOrder(s)'
  <2>1. held' = held /\ job'[s].op = job[s].op
    BY <1>11 DEF Compare, Differing, TypeOK, Job
  <2> QED
    BY <1>4, <2>1
<1> QED
  BY <1>5, <1>6, <1>7, <1>8, <1>9, <1>10, <1>11 DEF Next

\* Who waits in a circle holds something and has not all it wants.
LEMMA WaitersLack ==
  ASSUME IInv, LocksInOrder, NEW group \in SUBSET Requests, Deadlock(group),
         NEW r \in group
  PROVE  /\ held[r] # {} /\ InOrder(r) /\ Stage(r) \in 1 .. 3 /\ job[r] \in Job
         /\ job[r].op # "markQuoteViewed"
         /\ job[r].op = "getOrCreate" => Missing(r) = {X(Agreement)}
<1>1. held[r] # {} /\ Stage(r) < 4 /\ r \in Requests
  BY DEF Deadlock, WaitsFor
<1>2. InOrder(r) /\ job[r] \in Job /\ Stage(r) \in 1 .. 3
  BY <1>1, StageIs DEF LocksInOrder, IInv, TypeOK
<1>3. job[r].op # "markQuoteViewed"
  <2> SUFFICES ASSUME job[r].op = "markQuoteViewed" PROVE FALSE
    OBVIOUS
  <2>1. held[r] = {X(Quote)}
    BY <1>1, <1>2 DEF InOrder
  <2>2. Plan(job[r]) \in {<<{X(Quote)}, {}, {}>>, <<{}, {}, {}>>}
    BY <1>2, PlansBegin
  <2> QED
    BY <1>1, <2>1, <2>2 DEF Stage
<1>4. ASSUME job[r].op = "getOrCreate"
      PROVE  Missing(r) = {X(Agreement)}
  <2>1. S(Quote) \in held[r]
    BY <1>1, <1>2, <1>4 DEF InOrder
  <2>2. Plan(job[r]) = <<{S(Quote)}, {X(Agreement)}, {}>>
    BY <1>2, <1>4, PlansBegin
  <2>3. Stage(r) = 2 /\ X(Agreement) \notin held[r]
    BY <1>1, <2>1, <2>2 DEF Stage
  <2> QED
    BY <2>2, <2>3 DEF Missing
<1> QED
  BY <1>1, <1>2, <1>3, <1>4

\* Without getOrCreate, who waits for a request that holds more than the agreement
\* waits for the quote's holder: a circle would need two of them.
LEMMA AgreementFirstIsSafe ==
  ASSUME IInv, LocksInOrder, NEW group \in SUBSET Requests, group # {}, Deadlock(group),
         \A r \in group : job[r].op \notin StaffLinkOps \union {"getOrCreate"}
  PROVE  FALSE
<1>1. \A r \in group : /\ held[r] # {} /\ Holds(r, Agreement) /\ InOrder(r)
                       /\ job[r].op \notin StaffLinkOps \union QuoteFirstOps
  BY WaitersLack DEF InOrder, QuoteFirstOps
<1>2. ASSUME NEW r \in group, X(Agreement) \in held[r]
      PROVE  FALSE
  <2>1. PICK s \in group : WaitsFor(r, s)
    BY DEF Deadlock
  <2>2. r # s /\ Holds(s, Agreement)
    BY <1>1, <2>1 DEF WaitsFor
  <2> QED
    BY <1>2, <2>2 DEF IInv, Alone
<1>3. ASSUME NEW r \in group
      PROVE  \E s \in group : s # r /\ X(Quote) \in held[s]
  <2>1. S(Agreement) \in held[r]
    BY <1>1, <1>2 DEF Holds, On
  <2>2. ~agreement.exists /\ AgreementOrGap = S(Agreement)
    BY <2>1 DEF IInv, GapIsEmpty, AgreementOrGap
  <2>3. job[r].op \in EditOps
    BY <1>1, <1>2 DEF InOrder
  <2>4. job[r] \in Job
    BY DEF IInv, TypeOK
  <2>5. Plan(job[r])[1] \subseteq held[r] /\ Plan(job[r])[2] = {X(Quote)}
    BY <2>1, <2>2, <2>3, <2>4, PlansBegin
  <2>6. PICK s \in group : WaitsFor(r, s)
    BY DEF Deadlock
  <2>7. Stage(r) \in {2, 3}
    BY <2>5, <2>6 DEF Stage, WaitsFor
  <2>8. \A a \in Missing(r) : a.row # Agreement
    <3>1. \A a \in {X(Quote)} : a.row # Agreement
      BY RowsDiffer DEF X
    <3>2. \A a \in Plan(job[r])[3] : a.row # Agreement
      <4>1. \A ls : \A a \in XLinks(ls) : a.row # Agreement
        BY RowsDiffer DEF XLinks, X
      <4> QED
        BY <2>3, <4>1 DEF Plan, EditOps
    <3> QED
      BY <2>5, <2>7, <3>1, <3>2 DEF Missing
  <2>9. PICK a \in Missing(r), b \in held[s] : Blocks(b, a)
    BY <2>6 DEF WaitsFor
  <2>10. b.row # Agreement
    BY <2>8, <2>9 DEF Blocks
  <2>11. job[s].op \in EditOps
    BY <1>1, <1>2 DEF InOrder
  <2>12. X(Quote) \in held[s]
    BY <1>1, <2>9, <2>10, <2>11 DEF InOrder
  <2> QED
    BY <2>6, <2>12 DEF WaitsFor
<1>4. PICK r \in group : TRUE
  OBVIOUS
<1>5. PICK s \in group : X(Quote) \in held[s]
  BY <1>3, <1>4
<1>6. PICK t \in group : t # s /\ X(Quote) \in held[t]
  BY <1>3
<1> QED
  BY <1>5, <1>6 DEF IInv, Alone, Holds, On

\* With it, but without a handler that has the agreement and wants the quote, who
\* has the agreement waits for a row that nobody of the circle holds.
LEMMA InsertionAloneIsSafe ==
  ASSUME IInv, LocksInOrder, NEW group \in SUBSET Requests, Deadlock(group),
         \A r \in group : job[r].op \notin StaffLinkOps \union AgreementThenQuote,
         NEW g \in group, job[g].op = "getOrCreate"
  PROVE  FALSE
<1>1. \A r \in group : /\ held[r] # {} /\ InOrder(r) /\ job[r] \in Job
                       /\ Stage(r) \in 1 .. 3 /\ job[r].op # "markQuoteViewed"
  BY WaitersLack
<1>2. \A r \in group : \/ job[r].op = "getOrCreate"
                       \/ X(Agreement) \in held[r]
  BY <1>1 DEF InOrder, QuoteFirstOps, EditOps, AgreementThenQuote
<1>3. \A r \in group : job[r].op = "getOrCreate" => held[r] = {S(Quote)}
  <2> SUFFICES ASSUME NEW r \in group, job[r].op = "getOrCreate"
               PROVE  held[r] = {S(Quote)}
    OBVIOUS
  <2>1. X(Agreement) \notin held[r]
    BY WaitersLack DEF Missing
  <2> QED
    BY <1>1, <2>1 DEF InOrder
<1>4. PICK s \in group : WaitsFor(g, s)
  BY DEF Deadlock
<1>5. X(Agreement) \in held[s]
  <2>1. \A b : b = S(Quote) => ~Blocks(b, X(Agreement))
    BY RowsDiffer DEF Blocks, S, X
  <2> QED
    BY <1>2, <1>3, <1>4, <2>1, WaitersLack DEF WaitsFor
<1>6. job[s].op = "setRepresentativeSignature"
  <2>1. job[s].op # "getOrCreate"
    BY <1>3, <1>5 DEF X, S
  <2>2. job[s].op \notin {"saveDraft", "startSigning", "submitCustomerSignature"}
    BY <1>1, <1>5 DEF Stage, Plan, DraftLocks
  <2>3. job[s].op # "none"
    BY <1>1 DEF Stage, Plan
  <2> QED
    BY <1>1, <2>1, <2>2, <2>3 DEF Job, Operations, StaffLinkOps, AgreementThenQuote
<1>7. \A a \in Missing(s) : a.row # Quote /\ a.row # Agreement
  <2>1. Stage(s) \in {2, 3}
    BY <1>1, <1>5, <1>6 DEF Stage, Plan
  <2>2. \A ls : \A a \in XLinks(ls) : a.row # Quote /\ a.row # Agreement
    BY RowsDiffer DEF XLinks, X
  <2>3. \A u : /\ S(User(u)).row # Quote /\ S(User(u)).row # Agreement
               /\ S(LinkGap).row # Quote /\ S(LinkGap).row # Agreement
    BY RowsDiffer DEF S
  <2> QED
    BY <1>6, <2>1, <2>2, <2>3 DEF Missing, Plan
<1>8. PICK t \in group : WaitsFor(s, t)
  BY DEF Deadlock
<1>9. job[t].op # "getOrCreate"
  <2>1. PICK a \in Missing(s), b \in held[t] : Blocks(b, a)
    BY <1>8 DEF WaitsFor
  <2> QED
    BY <1>3, <1>7, <2>1 DEF Blocks, S
<1>10. s # t /\ Holds(t, Agreement)
  BY <1>2, <1>8, <1>9 DEF WaitsFor, Holds, On
<1> QED
  BY <1>5, <1>10 DEF IInv, Alone

(* For any number of requests: every deadlock has a handler of a staff QR code in
   it, or getOrCreate, which locks the quote before the agreement, together with
   one of the handlers that lock them the other way round. *)
THEOREM OnlyKnownDeadlocksOccur == Spec => []OnlyKnownDeadlocks
<1>1. Init => LocksInOrder
  BY DEF Init, LocksInOrder, InOrder
<1>2. TypeOK /\ LocksInOrder /\ [Next]_vars => LocksInOrder'
  BY LocksInOrderStep
<1>3. IInv /\ LocksInOrder => OnlyKnownDeadlocks
  BY AgreementFirstIsSafe, InsertionAloneIsSafe DEF OnlyKnownDeadlocks, StaffLinkOps
<1> QED
  BY <1>1, <1>2, <1>3, TypesAreKept, SpecIInv, PTL DEF Spec
=============================================================================
