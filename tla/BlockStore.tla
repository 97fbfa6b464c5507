------------------------------ MODULE BlockStore ------------------------------
(***************************************************************************)
(* What heap_alloc, heap_free and heap_morecore of gc.c promise to the     *)
(* collector: blocks of units that lie inside a page, never overlap, and   *)
(* are handed out and taken back one at a time.                            *)
(***************************************************************************)
EXTENDS Integers

CONSTANTS Unit, Sizes   \* addresses of header units; block sizes asked for

VARIABLES
  paged,   \* units a page can hand out: all of it but its first unit
  blocks   \* the blocks handed out: first unit and number of units

vars == << paged, blocks >>

Extent(b) == b.at .. b.at + b.len - 1
Used == UNION {Extent(b) : b \in blocks}

Init == paged = {} /\ blocks = {}

AddPage ==
  /\ paged' \in SUBSET Unit /\ paged \subseteq paged'
  /\ UNCHANGED blocks

Allocate(b) ==
  /\ b \in [at: Unit, len: Sizes]
  /\ Extent(b) \subseteq paged \ Used
  /\ blocks' = blocks \cup {b}
  /\ UNCHANGED paged

Release(b) ==
  /\ b \in blocks
  /\ blocks' = blocks \ {b}
  /\ UNCHANGED paged

Next ==
  \/ AddPage
  \/ \E a \in Unit, n \in Sizes : Allocate([at |-> a, len |-> n])
  \/ \E b \in blocks : Release(b)

Spec == Init /\ [][Next]_vars

(* Blocks handed out never share a unit and never touch a page's first     *)
(* unit (the header that heap_morecore says is never used for allocation). *)
Disjoint ==
  /\ Used \subseteq paged
  /\ \A b, c \in blocks : b # c => Extent(b) \cap Extent(c) = {}
=============================================================================
