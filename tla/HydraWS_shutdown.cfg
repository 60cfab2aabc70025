SPECIFICATION FairSpec
CONSTANTS
  ExtCap = 1
  SendCap = 1
  MaxEvents = 0
  MaxBreaks = 0
  MaxTimeouts = 0
  MaxScans = 1
  ScanMods = 2
  CloseCalled = TRUE
PROPERTIES
  CloseReturns
