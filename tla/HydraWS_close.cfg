SPECIFICATION Spec
CONSTANTS
  ExtCap = 1
  SendCap = 1
  MaxEvents = 1
  MaxBreaks = 0
  MaxTimeouts = 1
  MaxScans = 1
  ScanMods = 1
  CloseCalled = TRUE
INVARIANTS
  TypeOK
  NoConnLeak
  WgCounts
  ClosedIsQuiet
  WireInOrder
PROPERTIES
  ImplementsStream
