---------------------------- MODULE MCClassroom ----------------------------
(***************************************************************************)
(* An instance of Classroom for TLC: three lessons, the last not shown at  *)
(* first, and any two things the learner or the trainer may do, with every *)
(* order of what the server, Paystack, the page and the app make of them.  *)
(***************************************************************************)
EXTENDS Classroom
=============================================================================
