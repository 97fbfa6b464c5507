\* Pairs and one error whose message is allocated by a collection.
SPECIFICATION ErrorSpec
CONSTANTS
  o1 = o1  o2 = o2  o3 = o3
  Obj = {o1, o2, o3}
  Null = Null
  Free = Free
  NoReq = NoReq
  Roots = {globals}
  Names = {a}
  Types = {"PAIR", "STRING", "ERROR"}
  Pages <- OnePage
  MaxArena = 2
  MaxWeak = 1
SYMMETRY Symmetry
CHECK_DEADLOCK FALSE
INVARIANT MarksObjects
