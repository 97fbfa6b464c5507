\* Programs without escapes from frames that made procedures.
SPECIFICATION Spec
CONSTANTS
  Programs <- MCPrograms
  Fuel = 25
  StackSize = 20
  Slack = 6
INVARIANTS RunsAsMeant ContextsOnFrames FramesHaveSlots
PROPERTY Halts
