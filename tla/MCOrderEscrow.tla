---------------------------- MODULE MCOrderEscrow ----------------------------
(***************************************************************************)
(* Instances of OrderEscrow small enough for TLC.  Amounts are in pesewas; *)
(* the balance is larger than the commission, so that sending it before it *)
(* is paid shows.  Request slots are interchangeable, which is used in the *)
(* safety runs only.                                                       *)
(***************************************************************************)
EXTENDS OrderEscrow, TLC

SlotSymmetry == Permutations(Slots)
=============================================================================
