\* The handlers a continuation is entered with, when one escape may cut
\* another one short.
SPECIFICATION Spec
CONSTANTS
  Addr = {a1, a2}
  Nil = Nil
  Errors = {e1}
  MaxStack = 7
  MaxExc = 2
SYMMETRY Symmetry
CONSTRAINT FewExtents
CHECK_DEADLOCK FALSE
INVARIANT HandlersRestored
