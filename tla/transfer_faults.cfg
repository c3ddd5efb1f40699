CONSTANTS
  c1 = c1
  c2 = c2
  Client = {c1}
  AnyClient = c1
  StorageCount = 2
  MTU = 2
  Cap = 1
  MaxFaults = 1
  CRecvThread = {1}
  CSendThread = {1}
  SRecvThread = {1}
  SSendThread = {1}
  Request <- PhantomRequest
  RangeCount <- PhantomRangeCount
SPECIFICATION FairSpec
INVARIANTS TypeOK CompleteIsSent
PROPERTIES ImplementsRelay SessionEnds SlotFreed
