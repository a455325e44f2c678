SPECIFICATION Spec
CONSTANTS
  Configs <- MCConfigs
  Calls <- MCCalls
  Chain <- MCChain
  NaN = NaN
  Minute = 2
  Begin = 6
  MaxTime = 11
  MaxCalls = 3
  MaxDelay = 1
INVARIANTS
  Covers
  SilenceForgets
  LatestReported
  ChainTellsAll
CHECK_DEADLOCK FALSE
