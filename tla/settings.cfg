SPECIFICATION FairSettings
CONSTANTS
  k1 = k1
  k2 = k2
  k3 = k3
  m = m
  mAgain = mAgain
  v = v
  t = t
  x = x
  Absent = Absent
  Damaged = Damaged
  Spelling = {m, mAgain, v, t, x}
  Key <- MCKey
  Choice <- Samples
  Default <- Ordinary
  MaxFaults = 3
INVARIANT
  
  FileStarts
  ShortcutsInForce
PROPERTY
  ComesBack
