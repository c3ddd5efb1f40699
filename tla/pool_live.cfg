CONSTANTS
  k1 = k1
  k2 = k2
  r1 = r1
  r2 = r2
  s1 = s1
  NoConn = NoConn
  Conn = {k1, k2}
  ClientCount = 1
  RecvThread = {r1}
  SendThread = {s1}
  MTU = 1
  Asked = {1}
  Wrap = 4
  Frames <- DataOnly
SPECIFICATION FairSpec
PROPERTIES SlotGivenBack StorageEnds
