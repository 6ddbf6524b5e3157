------------------------ MODULE MCTradeInAgreement ------------------------
(* Two requests, two administrators, two readings of the offer. *)
EXTENDS TradeInAgreement, TLC
CONSTANTS r1, r2, ana, beka, asked, agreed
Swaps == Permutations({r1, r2}) \union Permutations({ana, beka})
Alike == Swaps \union Permutations({asked, agreed})
StaffQr ==
  {"getOrCreate", "startStaffSigning", "submitStaffSignature",
   "setRepresentativeSignature", "finalize", "updateQuote", "markQuoteViewed",
   "deleteQuote"}
=============================================================================
