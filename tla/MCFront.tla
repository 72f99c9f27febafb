------------------------------ MODULE MCFront ------------------------------
(* Instances of Front for TLC.                                             *)
EXTENDS Front, TLC

Symmetry == Permutations(Request)
=============================================================================
