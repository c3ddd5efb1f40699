CONSTANTS
  x1 = x1
  x2 = x2
  x3 = x3
  NoSession = NoSession
  Session = {x1, x2}
  ClientCount = 2
  Items = 1
  Extra = 0
  MaxReports = 1
  MaxFaults = 1
SPECIFICATION Spec
INVARIANTS AllFinished
