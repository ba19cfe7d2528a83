------------------------------ MODULE MCWcFile ------------------------------
(***************************************************************************)
(* Instances of WcFile for TLC.  The lines are interchangeable.            *)
(***************************************************************************)
EXTENDS WcFile, TLC

CONSTANTS a, b

TwoLines == {a, b}

Symmetry == Permutations(Lines)
=============================================================================
