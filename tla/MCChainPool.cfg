SPECIFICATION FairSpec
CONSTANTS
  g = g
  a1 = a1
  a2 = a2
  b1 = b1
  c1 = c1
  c2 = c2
  None = None
  NoTx = NoTx
  Free = Free
  Block <- MCBlock
  Genesis = g
  Prev <- MCPrev
  Height <- MCHeight
  Work <- UniformWork
  NextWork <- UniformWork
  Sound <- MCBlock
  Early = {}
  Branch <- MCBranch
  TotalWork <- MCTotalWork
  Output <- MCOutput
  NonBTM <- MCNonBTM
  Txs <- MCTxs
  CoinbasePending = 0
  PoolTx <- Four
  Invalid <- Bad
  Caller = {c1, c2}
  Offers <- MCOffers
  MaxNewTxNum = 2
  MaxOrphanNum = 2
  MaxMsgChSize = 1
  MaxTxChanSize = 1
INVARIANTS
  
  OrphanIndexSound
  WalletCatchesUp
  
  PoolUnconfirmed
PROPERTIES
  OrphanFate
  
  LockReleased
CHECK_DEADLOCK FALSE
