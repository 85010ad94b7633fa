SPECIFICATION FairSpec
CONSTANTS
  Handler = {h1}
  Own = Own
  Relaying = {h1}
  Capacity = 2
  MaxOps = 2
  MaxFaults = 1
  MaxToggles = 1
  None = None
INVARIANT
  
  LockIsSession
PROPERTY
  LoopRests
  CatchesUp
