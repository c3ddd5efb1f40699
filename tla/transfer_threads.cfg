CONSTANTS
  c1 = c1
  c2 = c2
  Client = {c1, c2}
  AnyClient = c1
  StorageCount = 1
  MTU = 1
  Cap = 1
  MaxFaults = 1
  CRecvThread = {r1, r2}
  CSendThread = {1}
  SRecvThread = {p1, p2}
  SSendThread = {q1, q2}
  Request <- OneEachRequest
  RangeCount <- OneEachRangeCount
SPECIFICATION Spec
INVARIANTS Exclusive Framed
SYMMETRY ThreadSymmetry
