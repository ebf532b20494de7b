SPECIFICATION FairSpec
CONSTANTS
  g = g
  a1 = a1
  a2 = a2
  w1 = w1
  u2 = u2
  hp = hp
  fp = fp
  None = None
  Block <- MCBlock
  Genesis = g
  Prev <- MCPrev
  Height <- MCHeight
  Work <- MCWork
  NextWork <- MCWork
  Sound <- MCBlock
  Early = {}
  Branch <- MCBranch
  TotalWork <- MCTotalWork
  Output = {}
  NonBTM = {}
  Txs <- MCTxs
  CoinbasePending = 1
  Worked <- MCWorked
  MaxHeaders = 1
  MaxBlocks = 1
  Peer = {hp, fp}
  BanThreshold = 1
  Checkpoints = {a2}
  ChCap = 1
  NewBlockCap = 1
  MaxMsgSet = 1
  MaxDistance = 2
  Honest = {hp}
  Tip <- MCTip
  Claims = {2}
  Strays <- MCStrays
  MaxEvents = 1
  MaxStrays = 2
  FastSync <- MCFastSync
INVARIANTS
  WorkVerified

  
  
CHECK_DEADLOCK FALSE
