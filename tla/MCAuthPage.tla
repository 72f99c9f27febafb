----------------------------- MODULE MCAuthPage -----------------------------
(* Instances of AuthPage for TLC.                                          *)
EXTENDS AuthPage, TLC

CONSTANTS i1, i2, ta1, ta2, redi1, redi2

(* One link that names its client and one that leaves it to the defaults,  *)
(* both to the registered endpoint of an IdP.                              *)
OneIdpUris ==
    {[ep |-> i1, ta |-> None, redi |-> None], [ep |-> i1, ta |-> ta2, redi |-> redi2]}

(* A link to a selection service and one to an IdP.                        *)
SelectorUris ==
    {[ep |-> Selector, ta |-> None, redi |-> None], [ep |-> i1, ta |-> ta2, redi |-> redi2]}

SelectorOnly == {[ep |-> Selector, ta |-> None, redi |-> None]}

Symmetry == Permutations(Auth) \cup Permutations(Callback) \cup Permutations(Code)
=============================================================================
