--------------------------- MODULE MCTrainerJoin ---------------------------
(***************************************************************************)
(* An instance of TrainerJoin for TLC: a form filled in and one edit more, *)
(* the two files a listing needs, a second code and a reload.              *)
(***************************************************************************)
EXTENDS TrainerJoin
=============================================================================
