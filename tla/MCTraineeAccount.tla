-------------------------- MODULE MCTraineeAccount --------------------------
(***************************************************************************)
(* Instances of TraineeAccount for TLC: one address, a number an enquiry   *)
(* was made with already, and a few things everybody does.                 *)
(***************************************************************************)
EXTENDS TraineeAccount
=============================================================================
