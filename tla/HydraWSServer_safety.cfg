SPECIFICATION Spec
CONSTANTS
  Conn = {c1, c2}
  RecvCap = 2
  SendCap = 1
  MaxFrames = 2
  CloseCalled = TRUE
SYMMETRY Symmetry
INVARIANTS
  TypeOK
  RegisteredIsServed
  WriteToRegistered
  EventsInOrder
PROPERTIES
  BroadcastComplete
