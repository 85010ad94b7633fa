SPECIFICATION Spec
CONSTANTS
  Device = {1, 2}
  OpId = {1, 2, 3}
  body = body
  m1 = m1
  m2 = m2
  Repository = {}
  Memo = {m1}
  Attachment = {}
  Field = {body}
  Value = {1, 2, 3}
  TextOf <- TextOfEdit
  NoRow = NoRow
  NoContent = NoContent
  NoVersion = NoVersion
  PushLimit = 1
  PullLimit = 1
  CompactAfter = 1
  Retain = 1
  Kinds <- Both
  MaxSkew = 0
  MaxWall = 3
  MaxFailures = 0
INVARIANT
  DeletesWin
