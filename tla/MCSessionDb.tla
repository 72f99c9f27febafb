----------------------------- MODULE MCSessionDb -----------------------------
(* Instance of SessionDb for TLC.                                          *)
EXTENDS SessionDb, TLC

Symmetry == Permutations(Client) \cup Permutations(Id)
=============================================================================
