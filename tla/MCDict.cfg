\* Three symbols, every order of putting and deleting, and iterations in
\* between.
SPECIFICATION Spec
CONSTANTS
  a = a  b = b  c = c  v1 = v1  v2 = v2
  Key = {a, b, c}
  Val = {v1, v2}
  Undef = Undef
  False = False
  Lists <- MCLists
  Hashes <- MCHashes
INVARIANTS RoomLeft EachKeyOnce

PROPERTIES ImplementsMap
