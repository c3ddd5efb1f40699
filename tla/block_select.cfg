CONSTANTS
  Count = 5
  Mtu = 2
  HeadSize = 4
  ItemSize = 2
  PacketSize = 3
  Capacity = 3
  Timeout = 2
  Faults = {"reset", "cut"}
SPECIFICATION FairSpec
INVARIANTS TypeOK InPlace
PROPERTIES ImplementsPipe CallsEnd
