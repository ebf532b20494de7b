SPECIFICATION Spec
CONSTANTS
  g = g
  a1 = a1
  a2 = a2
  a3 = a3
  u2 = u2
  b1 = b1
  b2 = b2
  m2 = m2
  x1 = x1
  None = None
  Block <- MCBlock
  Genesis = g
  Prev <- MCPrev
  Height <- MCHeight
  Work <- MCWork
  NextWork <- MCNextWork
  Sound <- MCBlock
  Early = {a2}
  Branch <- MCBranch
  TotalWork <- MCTotalWork
  Output <- MCOutput
  NonBTM = {}
  Txs <- MCTxs
  CoinbasePending = 2
  MaxPrevOrphans = 2
PROPERTIES
  ImplementsBestChain
CHECK_DEADLOCK FALSE
