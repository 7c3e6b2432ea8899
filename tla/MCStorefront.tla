---------------------------- MODULE MCStorefront ----------------------------
(***************************************************************************)
(* Instances of Storefront for TLC: two sellers, the first of whom counts  *)
(* one thing left, and a few things the buyer and that seller do.          *)
(***************************************************************************)
EXTENDS Storefront
=============================================================================
