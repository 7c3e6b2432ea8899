--------------------------- MODULE MCSellerPayments ---------------------------
(***************************************************************************)
(* Instances of SellerPayments for TLC.  Periods of one day and two days   *)
(* of requests let a period run out, run and be queued behind another.     *)
(***************************************************************************)
EXTENDS SellerPayments, TLC

SlotSymmetry == Permutations(Slots)
=============================================================================
