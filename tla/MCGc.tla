--------------------------------- MODULE MCGc ---------------------------------
(* A small heap for TLC: three addresses in one page or in two, one root.  *)
EXTENDS Gc, TLC

CONSTANTS o1, o2, o3

OnePage == {{o1, o2, o3}}
TwoPages == {{o1, o2}, {o3}}
Symmetry == Permutations(Obj)
=============================================================================
