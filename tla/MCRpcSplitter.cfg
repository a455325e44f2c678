SPECIFICATION Spec
CONSTANTS
  Fail = Fail
  N = 5
  Minimums = {0, 2, 3}
  MaxBlocksBehind = 2
  Values <- ResolverValues
  Calls = {"eth_blockNumber", "eth_gasPrice", "eth_chainId"}
INVARIANTS
  MostCommonWins
  MajorityIsFinal
  GasIsCentral
  BlockIsLowestNear
CHECK_DEADLOCK FALSE
