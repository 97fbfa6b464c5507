\* Three strings and what they share.
SPECIFICATION Spec
CONSTANTS
  Str = {s1, s2, s3}
  Char = {1, 2}
  Nil = Nil
  Texts <- MCTexts
  Room = 15
  MaxOps = 4
  MaxLen = 3
SYMMETRY Symmetry
INVARIANTS CountsExact WindowsSound
PROPERTIES SharingUnseen
