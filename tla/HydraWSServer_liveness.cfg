SPECIFICATION FairSpec
CONSTANTS
  Conn = {c1, c2}
  RecvCap = 1
  SendCap = 1
  MaxFrames = 1
  CloseCalled = FALSE
PROPERTIES
  BrokenLeaves
  CommandsMove
