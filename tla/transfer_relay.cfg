CONSTANTS
  c1 = c1
  c2 = c2
  Client = {c1}
  AnyClient = c1
  StorageCount = 2
  MTU = 2
  Cap = 2
  MaxFaults = 0
  CRecvThread = {1, 2}
  CSendThread = {1}
  SRecvThread = {1}
  SSendThread = {1}
  Request <- CrossRequest
  RangeCount <- CrossRangeCount
SPECIFICATION FairSpec
INVARIANTS Conserved
PROPERTIES AllComplete AllDelivered
