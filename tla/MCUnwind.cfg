\* Two continuations at a time, handlers nested twice, seven C frames, all
\* programs to four; the interpreter stops when no handler is left.
SPECIFICATION Spec
CONSTANTS
  Addr = {a1, a2}
  Nil = Nil
  Errors = {e1}
  MaxStack = 7
  MaxExc = 2
SYMMETRY Symmetry
CONSTRAINT FewExtents
CHECK_DEADLOCK FALSE
INVARIANTS
  CpMatchesStack ChainMatchesStack HandlersFollow
  OnlyUnwinds ContsProtected
