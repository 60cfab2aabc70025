SPECIFICATION Spec
CONSTANTS
  Char = {65, 66}
  MaxText = 3
  NameLen = 6
  LineLen = 4
INVARIANTS
  KernelNameReadable
