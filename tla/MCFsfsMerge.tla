----------------------------- MODULE MCFsfsMerge -----------------------------
(* A small instance of FsfsMerge: a directory with a file in it, and room    *)
(* for a second directory or file beside it.                                 *)
EXTENDS FsfsMerge, TLC

CONSTANTS t1, t2

MCTxns == {t1, t2}
MCPaths == {<<>>, <<"d">>, <<"d", "f">>, <<"g">>, <<"g", "f">>}
MCImported == (<<>> :> "dir") @@ (<<"d">> :> "dir") @@ (<<"d", "f">> :> "file")
MCSymmetry == Permutations(MCTxns)
==============================================================================
