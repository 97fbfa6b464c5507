\* Escapes from frames that made procedures.
SPECIFICATION Spec
CONSTANTS
  Programs <- MCEscaping
  Fuel = 25
  StackSize = 20
  Slack = 6
INVARIANT RunsAsMeant
