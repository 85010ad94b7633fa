CHECK_DEADLOCK FALSE
SPECIFICATION Spec
SYMMETRY TaskSymmetry
CONSTANTS
  Device = {1, 2}
  OpId = {1, 2, 3, 7, 8, 9}
  inbox = inbox
  scratch = scratch
  theirs = theirs
  welcome = welcome
  m2 = m2
  a1 = a1
  t1 = t1
  t2 = t2
  Repository = {inbox, scratch, theirs}
  Memo = {welcome, m2}
  Attachment = {a1}
  Field <- StoreFields
  Value <- StoreValues
  NoRow = NoRow
  NoContent = NoContent
  NoVersion = NoVersion
  Self = 1
  Temporary = {scratch}
  Inbox = inbox
  Scratch = scratch
  Welcome = welcome
  Shared = Shared
  Private = Private
  None = None
  Task = {t1, t2}
  Kinds <- AllEdits
  Others <- TheirMemo
  MaxWall = 3
  MaxEdits = 2
  MaxFailures = 1
INVARIANT
  ShownEditIsSafe
  TemporaryStaysLocal
