\* The symbol table: two names, two pages, collections between the dummy
\* entry and the symbol.
SPECIFICATION Spec
CONSTANTS
  o1 = o1  o2 = o2  o3 = o3
  Obj = {o1, o2, o3}
  Null = Null
  Free = Free
  NoReq = NoReq
  Roots = {globals}
  Names = {a}
  Types = {"WEAK", "SYMBOL", "STRING"}
  Pages <- TwoPages
  MaxArena = 1
  MaxWeak = 2
CHECK_DEADLOCK FALSE
INVARIANTS InternUnique CollectionStartsClean
PROPERTIES CollectionEnds
