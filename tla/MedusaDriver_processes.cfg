SPECIFICATION Spec
CONSTANTS
  Thread = {t1}
  Pid = {"game1", "agent1"}
  Ctxs <- OneAgent
  MaxConnects = 1
INVARIANTS
  AllProcessesTracked
