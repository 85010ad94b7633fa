SPECIFICATION Spec
CONSTANTS
  Device = {1, 2}
  Hidden = {2}
  Attachment = {1, 2, 3}
  Name = {"short"}
  Deletable = {1}
  Hash = {1, 2, 3}
  Content <- SharedContent
  Size <- ThreeEach
  Ttl = 1
  RequestItems = 3
  RequestBytes = 8
  DeviceBytes = 8
  TotalBytes = 8
  JsonBudget = 8
  Envelope = 0
  FetchItems = 1
  Retries = 0
  MaxTime = 1
  MaxFailures = 0
INVARIANT
  RelayWithinLimits
  
PROPERTY
  KeptUntilExpiry
  HeldWhileShown
