SPECIFICATION Spec
CONSTANTS
  ExtCap = 1
  SendCap = 1
  MaxEvents = 1
  MaxBreaks = 0
  MaxTimeouts = 1
  MaxScans = 0
  ScanMods = 0
  CloseCalled = FALSE
INVARIANTS
  AllEventsForwarded
