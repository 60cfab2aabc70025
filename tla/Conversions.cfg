SPECIFICATION Spec
CONSTANTS
  Char = {65, 1046, 65536, 128512}
  MaxText = 6
  NameLen = 5
  LineLen = 4
INVARIANTS
  BuffersTerminated
  WideSurvives
  PathSurvives
  SidesAgree
