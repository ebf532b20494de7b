SPECIFICATION Spec
CONSTANTS
  g = g
  a1 = a1
  b1 = b1
  b2 = b2
  None = None
  Block <- MCBlock
  Genesis = g
  Prev <- MCPrev
  Height <- MCHeight
  Work <- UniformWork
  NextWork <- UniformWork
  Sound <- MCBlock
  Early = {}
  Branch <- MCBranch
  TotalWork <- MCTotalWork
  Output <- MCOutput
  NonBTM = {}
  Txs <- MCTxs
  CoinbasePending = 1
  MaxPrevOrphans = 2
INVARIANT
  UtxoExact
CHECK_DEADLOCK FALSE
