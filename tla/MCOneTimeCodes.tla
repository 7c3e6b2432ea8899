--------------------------- MODULE MCOneTimeCodes ---------------------------
(***************************************************************************)
(* Instances of OneTimeCodes for TLC: the caps are reached and overshot,   *)
(* codes for two numbers are out at once, and a code runs out of attempts. *)
(***************************************************************************)
EXTENDS OneTimeCodes, TLC

\* Requests and numbers are interchangeable.
Symmetry == Permutations(Slots) \cup Permutations(Phones)
=============================================================================
