SPECIFICATION FairSpec
CONSTANTS
  g = g
  a1 = a1
  a2 = a2
  a3 = a3
  b1 = b1
  b2 = b2
  c2 = c2
  None = None
  Block <- MCBlock
  Genesis = g
  Prev <- MCPrev
  Height <- MCHeight
  Work <- UniformWork
  NextWork <- UniformWork
  Sound <- MCBlock
  Early = {}
  Branch <- MCBranch
  TotalWork <- MCTotalWork
  Output <- MCOutput
  NonBTM <- MCNonBTM
  Txs <- MCTxs
  CoinbasePending = 1
  MaxPrevOrphans = 2
INVARIANTS
  MainChainIsBranch
  IndexSound
  RestartSucceeds
  
  NoStrandedOrphan
PROPERTIES
  ImplementsBestChain
  Converges
CHECK_DEADLOCK FALSE
