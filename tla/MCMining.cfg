SPECIFICATION FairSpec
CONSTANTS
  None = None
  MaxHeight = 2
  NewBlockCap = 1
  Miner = {m}
  SubmitCap = 1
  Caller = {p}
  Setup <- MCSetup
  Controller = {1, 2}
  Worker = {1, 2, 3}
  DefaultWorkers = 1
  Numbers = {0, 2}
INVARIANTS
  PrevIdentifies
CHECK_DEADLOCK FALSE
PROPERTIES
  
  
  StopsAll
  NoticeTaken
