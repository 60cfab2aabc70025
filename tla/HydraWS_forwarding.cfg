SPECIFICATION FairSpec
CONSTANTS
  ExtCap = 1
  SendCap = 1
  MaxEvents = 2
  MaxBreaks = 1
  MaxTimeouts = 0
  MaxScans = 1
  ScanMods = 1
  CloseCalled = FALSE
INVARIANTS
  LossBound
PROPERTIES
  EventLeaves
  BrokenIsReplaced
