\* Two libraries, two symbols, two calls of pic_eval one inside the other.
SPECIFICATION Spec
CONSTANTS
  Char <- MCChar
  User <- MCUser
  Titles <- MCTitles
  Symbols <- MCSymbols
  ImportSets <- MCImportSets
  MaxEvals = 2
  MaxSteps = 7
INVARIANTS HomeLibrary OwnVariables ImportsDefined
PROPERTIES ImportsRight
