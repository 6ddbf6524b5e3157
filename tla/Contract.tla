------------------------------ MODULE Contract ------------------------------
(***************************************************************************)
(* What a paper contract promises. Until it is concluded its text may be   *)
(* rewritten and signatures may come and go; it is concluded once, by both *)
(* parties, on a text that is complete; what is then settled is its text,  *)
(* and nothing about it changes any more.                                  *)
(***************************************************************************)
CONSTANTS Texts, FullTexts, NoText
VARIABLES text, signed, concluded, settled

contract == <<text, signed, concluded, settled>>

Parties == {"customer", "shop"}

Init ==
  /\ text = NoText /\ signed = {}
  /\ concluded = FALSE /\ settled = NoText

(* Nobody signs a contract that does not exist. *)
Draft ==
  /\ ~concluded
  /\ text' \in Texts \union {NoText}
  /\ signed' \in SUBSET Parties
  /\ text' = NoText => signed' = {}
  /\ UNCHANGED <<concluded, settled>>

Conclude ==
  /\ ~concluded
  /\ text \in FullTexts /\ signed = Parties
  /\ concluded' = TRUE /\ settled' = text
  /\ UNCHANGED <<text, signed>>

Next == Draft \/ Conclude

Spec == Init /\ [][Next]_contract
=============================================================================
