CONSTANTS
  a = a
  b = b
  Target = {a, b}
  NoTarget = NoTarget
  HostFile <- ShortFiles
  Header <- ShippedHeader
  Width <- Widths
  LineRoom = 3
  BufferRoom = 4
  MaxRuns = 2
SPECIFICATION Spec
INVARIANTS TypeOK HeaderFits HeaderNotLost ClientStarts
