SPECIFICATION FairSpec
CONSTANTS
  Body = {1, 2, 3}
  SvgBytes <- Lengths
  ManyPages = {2}
  Broken = {3}
  Request = {r1, r2}
  MaxEntries = 2
  MaxBytes = 4
  PaneEntries = 2
  MaxShows = 3
  None = None
  Spent = Spent
INVARIANT
  CacheSound
  OneRendererPerKey
  InlineIsWhole
  PaneIsCurrent
PROPERTY
  PaneSettles
CHECK_DEADLOCK FALSE
