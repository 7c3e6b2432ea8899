-------------------------- MODULE MCVideoPipeline --------------------------
(***************************************************************************)
(* Instances of VideoPipeline for TLC: a file of two pieces, one worker    *)
(* that dies twice, and names enough for a video to be prepared, approved, *)
(* streamed, taken down and approved again.                                *)
(***************************************************************************)
EXTENDS VideoPipeline
=============================================================================
