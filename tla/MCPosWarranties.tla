--------------------------- MODULE MCPosWarranties ---------------------------
(* An order with an event that is due a warranty or not, delivered by two
   requests, while WooCommerce imports it, with a call of staff and a case. *)
EXTENDS PosWarranties, TLC
CONSTANTS order, event, d1, d2, import, clerk, case

OneOrder == [e \in Events |-> order]
=============================================================================
