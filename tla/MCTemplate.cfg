SPECIFICATION TemplateSpec
CONSTANTS
  g = g
  a1 = a1
  a2 = a2
  b2 = b2
  None = None
  NoTx = NoTx
  Block <- MCBlock
  Genesis = g
  Prev <- MCPrev
  Height <- MCHeight
  Work <- UniformWork
  NextWork <- UniformWork
  Sound <- MCBlock
  Early = {}
  Branch <- MCBranch
  TotalWork <- MCTotalWork
  Output <- MCOutput
  NonBTM = {}
  Txs <- MCTxs
  CoinbasePending = 2
  PoolTx <- MCPoolTx
  MaxNewTxNum = 3
  Gas <- MCGas
  MaxBlockGas = 3
  MaxTime = 1
PROPERTIES
  TakenApplies
  DropJust
CHECK_DEADLOCK FALSE
