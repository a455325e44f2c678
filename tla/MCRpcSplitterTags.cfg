SPECIFICATION FairSpec
CONSTANTS
  Fail = Fail
  N = 2
  Minimums = {0, 1}
  MaxBlocksBehind = 1
  Values <- TagValues
  Calls = {"eth_getLogs", "eth_estimateGas"}
INVARIANTS
  NoTagReachesEndpoints
  NoSenderBlocks
PROPERTIES
  RequestReturns
CHECK_DEADLOCK FALSE
