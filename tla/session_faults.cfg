CONSTANTS
  StorageCount = 2
  SlotsLeft = 2
  MaxFaults = 4
  Part <- SentParts
SPECIFICATION FairSpec
INVARIANTS TypeOK AsksForIndex SocketsAccounted
PROPERTIES TasksComplete
