------------------------------ MODULE MCMakeError ------------------------------
(* Three addresses in one page; every error made has a message. *)
EXTENDS MakeError, TLC

CONSTANTS o1, o2, o3

OnePage == {{o1, o2, o3}}
Symmetry == Permutations(Obj)
=============================================================================
