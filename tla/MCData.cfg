\* Every small graph written, edited, read and compared; small lists.
SPECIFICATION Spec
CONSTANTS
  atom = atom  quote = quote
  Nil = Nil
  NoValue = NoValue
  Undef = Undef
  Dot = Dot
  Invalid = Invalid
  EofObject = EofObject
  True = True
  False = False
  Unspecified = Unspecified
  Quoting = {quote}
  MaxDepth = 15
  SeenDepth = 10
  ErrorDepth = 20
  Memories <- MCMemories
  ListMemories <- MCListMemories
  Ops = {"write", "write-shared"}
  MaxComments = 1

CHECK_DEADLOCK FALSE
INVARIANTS WriteEnds ReadsBack EqualExact ListsRight
