-------------------------------- MODULE MCHeap --------------------------------
(* Two pages that touch, with struct heap just below or just above them.  *)
EXTENDS Heap

MCUnit == 0 .. 13
MCBaseAddrs == {0, 13}
MCPageAddrs == {1, 7}
=============================================================================
