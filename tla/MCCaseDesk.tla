----------------------------- MODULE MCCaseDesk ------------------------------
(***************************************************************************)
(* Instances of CaseDesk for TLC. Each set of calls is one question: the   *)
(* routes that compete there, and the ones that bring a case to them.      *)
(***************************************************************************)
EXTENDS CaseDesk, TLC

\* Requests are interchangeable; used where only safety is checked.
Symmetry == Permutations(Requests)

\* Technicians work on a case and hand it over; requests may die.
TechnicianCalls ==
  {"changeStatus", "update", "parts", "note", "issue", "verify", "collect",
   "clock", "abort"}

\* Staff edit the case and its offers while it is moved back and forth;
\* customer and bank pay the offers.
EditingCalls ==
  {"changeStatus", "update", "parts", "note", "createOffer", "updateOffer",
   "initiate", "callback", "remind", "removeOffer"}

\* A completed case is reopened while its device is being collected.
ReopeningCalls == {"changeStatus", "reopen", "collect", "markAsPaid", "markAsFailed"}

\* Requests that wait for each other while PINs are tried.
WaitingCalls == {"changeStatus", "update", "verify", "collect", "clock"}

\* What the code says and does not keep.
CollectTwiceCalls == {"changeStatus", "collect"}
=============================================================================
