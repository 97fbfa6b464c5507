\* Weak tables: every heap of three objects, chains of two
\* weak tables included, collected in every order.
SPECIFICATION Spec
CONSTANTS
  o1 = o1  o2 = o2  o3 = o3
  Obj = {o1, o2, o3}
  Null = Null
  Free = Free
  NoReq = NoReq
  Roots = {globals}
  Names = {a}
  Types = {"IREP", "WEAK"}
  Pages <- OnePage
  MaxArena = 1
  MaxWeak = 2
SYMMETRY Symmetry
CHECK_DEADLOCK FALSE
INVARIANTS TypeOK NoDangling HeapClosed CollectionExact
PROPERTIES WeakEntryKept
