---------------------------- MODULE MCSellerDesk ----------------------------
(***************************************************************************)
(* An instance of SellerDesk for TLC: one product and room for another,    *)
(* and one page of the seller, which buyers and staff make stale.          *)
(***************************************************************************)
EXTENDS SellerDesk
=============================================================================
