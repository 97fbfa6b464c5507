------------------------------- MODULE MCUnwind -------------------------------
(* Programs whose C stack is a few frames deep: every one of them at      *)
(* first, then those with few extents, which get to escapes that cut       *)
(* others short; and those that use pic_try and one dynamic-wind only.     *)
EXTENDS Unwind, TLC

Symmetry == Permutations(Addr)

Frames(kind) == {f \in 1 .. Len(stack) : stack[f].kind = kind}
NestedTries ==
  /\ Frames("callcc") = {} /\ Cardinality(Frames("wind")) <= 1
  /\ \A i \in 1 .. Len(exc) : exc[i] # User

(* Past four frames: one dynamic-wind, and two extents with handlers.      *)
FewExtents ==
  Len(stack) <= 4 \/
    /\ Cardinality(Frames("wind")) <= 1
    /\ Cardinality(Frames("bind") \cup Frames("try")) <= 2
=============================================================================
