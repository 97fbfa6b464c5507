\* A string of three characters, and slices of its slices.
SPECIFICATION Spec
CONSTANTS
  Str = {s1, s2}
  Char = {1, 2, 3}
  Nil = Nil
  Texts <- MCTexts3
  Room = 15
  MaxOps = 4
  MaxLen = 3
PROPERTY ImplementsStrings
