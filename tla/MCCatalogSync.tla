--------------------------- MODULE MCCatalogSync ----------------------------
(* One job, one pass of the timer or of a chosen product, and two calls of
   administrators, on a catalogue of one product that may show on two pages. *)
EXTENDS CatalogSync, TLC
CONSTANTS j1, j2, other, starter, display, admin1, admin2
=============================================================================
