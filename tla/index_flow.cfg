CONSTANTS
  ClientCount = 3
  StorageCount = 2
  FloatBits = 5
  MaxItems = 31
  MaxShuffled = 5
SPECIFICATION Spec
INVARIANTS TypeOK AsksForItsPart CountsFit OnePartEach
