--------------------------- MODULE MCRaSvnSession ---------------------------
(***************************************************************************)
(* Instances of RaSvnSession for TLC, and its properties.                  *)
(***************************************************************************)
EXTENDS RaSvnSession, TLC
=============================================================================
