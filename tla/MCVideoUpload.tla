--------------------------- MODULE MCVideoUpload ---------------------------
(***************************************************************************)
(* Instances of VideoUpload for TLC: files of two pieces and of one, two     *)
(* calls of sendFile at one time, one retry and one late piece.            *)
(***************************************************************************)
EXTENDS VideoUpload
CONSTANTS s1, s2
MCPieces == <<2, 1>>
MCSends == {s1, s2}
=============================================================================
