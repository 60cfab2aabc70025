SPECIFICATION FairSpec
CONSTANTS
  InitThreads = {dllmain, start}
  AppThreads = {app}
  Others = {other}
  Thread = {dllmain, start, app, other}
  MaxInst = 2
  Cap = 1
  MaxMsgs = 3
  MaxExits = 1
INVARIANTS
  TypeOK
  NoInstanceLeak
  InitOnce
  HookFallsThrough
PROPERTIES
  PipeIsStream
  LostOnlyBeforeConnect
  HookedCallReturns
  PipeServes
