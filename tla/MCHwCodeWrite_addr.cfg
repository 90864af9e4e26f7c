SPECIFICATION CallSpec
CONSTANTS
  Gen = 2
  Q = 2
  Bases = {0, 1, 4}
  OldLengths = {3}
  NewLengths = {}
  Word <- MCWord
  Zero <- ZeroWord
  None <- NoneWord
  Images <- MCImages
INVARIANTS
  WrittenAtAddr
CHECK_DEADLOCK FALSE
