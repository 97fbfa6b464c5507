\* Two continuations at a time; README "call/cc" and cont.c:115 promise that
\* one that is dead is not entered.
SPECIFICATION Spec
CONSTANTS
  Addr = {a1, a2}
  Nil = Nil
  Errors = {e1}
  MaxStack = 4
  MaxExc = 2
SYMMETRY Symmetry
CHECK_DEADLOCK FALSE
INVARIANT OnlyLiveEntered
