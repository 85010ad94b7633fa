SPECIFICATION FairSpec
CONSTANTS
  Device = {1, 2}
  Hidden = {}
  Attachment = {1, 2}
  Name = {"short", "long"}
  Deletable = {}
  Hash = {1, 2}
  Content <- FirstAny
  Size <- TwoOneOne
  Ttl = 1
  RequestItems = 2
  RequestBytes = 8
  DeviceBytes = 8
  TotalBytes = 16
  JsonBudget = 8
  Envelope = 0
  FetchItems = 1
  Retries = 0
  MaxTime = 0
  MaxFailures = 1
PROPERTY
  QueueDrains
  BytesArrive
