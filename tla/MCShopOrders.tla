---------------------------- MODULE MCShopOrders -----------------------------
(***************************************************************************)
(* An instance of ShopOrders for TLC.                                      *)
(***************************************************************************)
EXTENDS ShopOrders
=============================================================================
