\* Calls of calls of calls.
SPECIFICATION Spec
CONSTANTS
  Programs <- MCCurried
  Fuel = 25
  StackSize = 20
  Slack = 6
INVARIANT NoAssertionFails
