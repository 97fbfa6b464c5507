\* Two errors, and a pic_try in the out thunk that the first one runs.
SPECIFICATION Spec
CONSTANTS
  Addr = {a1, a2}
  Nil = Nil
  Errors = {e1, e2}
  MaxStack = 8
  MaxExc = 2
SYMMETRY Symmetry
CONSTRAINT NestedTries
CHECK_DEADLOCK FALSE
INVARIANT CatchSeesItsError
