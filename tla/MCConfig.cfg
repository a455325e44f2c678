SPECIFICATION Spec
CONSTANTS
  NoAttr = NoAttr
  BadAttr = BadAttr
  FileNames <- MCFileNames
  FileSystems <- MCFileSystems
  MaxDepths = {0, 2}
  Main <- MCMain
  Order <- MCOrder
INVARIANTS
  IncludeExact
  Consistent
  OutcomeExact
CHECK_DEADLOCK FALSE
