---------------------------- MODULE MCFsfsPromise ----------------------------
(* The instance of MCFsfsMerge with what the authors of changes had seen.    *)
EXTENDS FsfsPromise, MCFsfsMerge
==============================================================================
