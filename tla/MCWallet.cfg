SPECIFICATION CalmSpec
CONSTANTS
  g = g
  a1 = a1
  a2 = a2
  b1 = b1
  b2 = b2
  b3 = b3
  None = None
  Block <- MCBlock
  Genesis = g
  Prev <- MCPrev
  Height <- MCHeight
  Work <- UniformWork
  NextWork <- UniformWork
  Sound <- MCBlock
  Early = {}
  Branch <- MCBranch
  TotalWork <- MCTotalWork
  Output <- MCOutput
  NonBTM <- MCNonBTM
  Txs <- MCTxs
  CoinbasePending = 2
  Program <- MCProgram
  P2W = {"p", "q"}
INVARIANTS
  UtxosExact
  AnnotatedExact
  MaturityHonest
PROPERTIES
  CatchesUp
CHECK_DEADLOCK FALSE
