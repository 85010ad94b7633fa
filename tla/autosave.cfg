SPECIFICATION FairSpec
CONSTANTS
  Memo = {m1, m2}
  Call = {c1, c2}
  MaxEdits = 3
  MaxIncidents = 1
  None = None
INVARIANT
  LastEditIsWritten
  
PROPERTY
  EditsReachStore
CHECK_DEADLOCK FALSE
