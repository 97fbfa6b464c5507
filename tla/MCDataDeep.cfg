\* Lists nested deeper than the table of objects seen is for.
SPECIFICATION Spec
CONSTANTS
  atom = atom  quote = quote
  Nil = Nil
  NoValue = NoValue
  Undef = Undef
  Dot = Dot
  Invalid = Invalid
  EofObject = EofObject
  True = True
  False = False
  Unspecified = Unspecified
  Quoting = {quote}
  MaxDepth = 40
  SeenDepth = 10
  ErrorDepth = 20
  Memories <- DeepMemories
  ListMemories <- NoMemories
  Ops = {"write", "write-shared"}
  MaxComments = 1

CHECK_DEADLOCK FALSE
INVARIANT TrueMeansSame
