SPECIFICATION FairSpec
CONSTANTS
  Thread = {t1}
  Pid = {"game1", "game2", "agent1", "agent2"}
  Ctxs <- TwoAgents
  MaxConnects = 2
INVARIANTS
  TypeOK
  StripExplained
  NoEarlySend
  UnregisterSafe
  UnloadedIsQuiet
PROPERTIES
  UnloadCompletes
