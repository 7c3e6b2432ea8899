--------------------------- MODULE MCCourseStudio ---------------------------
(***************************************************************************)
(* Instances of CourseStudio for TLC: three lessons, the last not uploaded *)
(* yet, two boosts, and a few things the trainer and the learners do.      *)
(***************************************************************************)
EXTENDS CourseStudio
=============================================================================
