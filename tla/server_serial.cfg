SPECIFICATION Spec
CONSTANTS
  Device = {1, 2}
  OpId = {1, 2, 3, 4, 5}
  r1 = r1
  m1 = m1
  m2 = m2
  title = title
  body = body
  Repository = {r1}
  Memo = {m1}
  Attachment = {}
  Field = {title, body}
  Value = {1, 2}
  NoRow = NoRow
  NoContent = NoContent
  h1 = h1
  h2 = h2
  Handler = {h1}
  NoHandler = NoHandler
  Batch <- BatchesSerial
  PullLimit = {1, 2}
  CompactAfter = 1
  Retain = 1
  MaxSeq = 5
INVARIANT
  
  
  DocumentAgrees
