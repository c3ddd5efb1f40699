CONSTANTS
  x1 = x1
  x2 = x2
  x3 = x3
  NoSession = NoSession
  Session = {x1, x2, x3}
  ClientCount = 2
  Items = 1
  Extra = 1
  MaxReports = 1
  MaxFaults = 2
SPECIFICATION FairSpec
INVARIANTS TypeOK StartTogether NoUseAfterFree ErrorReported
PROPERTIES ProgressGrows ServerCompletes EndsOnceInitialised
