---------------------------- MODULE MCCaseIntake -----------------------------
(* Requests that compete for one partner and for the next case number. *)
EXTENDS CaseIntake, TLC
CONSTANTS r1, r2, acme
=============================================================================
