SPECIFICATION Spec
CONSTANTS
  MaxLength = 7
  Sigil = "$"
  Char <- MCChar
  Texts <- MCTexts
INVARIANTS
  ParseMeansText
PROPERTIES
  Terminates
CHECK_DEADLOCK FALSE
