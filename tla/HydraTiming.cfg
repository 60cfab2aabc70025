SPECIFICATION Spec
CONSTANTS
  PingIntv = 4
  DialTimeout = 2
  BackoffInitial = 1
  BackoffMax = 6
  Jitter = 1
  ReadWait = 12
  MaxScan = 3
  MaxQueued = 1
  MaxFaults = 2
INVARIANTS
  TypeOK
  BackInTime
  ServerPatient
  ServerForgets
