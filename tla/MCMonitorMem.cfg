SPECIFICATION Spec
CONSTANTS
  Base = 4
  ByteDigits = 1
  AddrDigits = 3
  MaxDigits = 4
  BankSize = 4
  PageSize = 4
  SfrSpace = 8
  PCON = 4
  DPX = 5
  Memsel = 2
  Protected = {6}
  Lines <- MCLines
  Contents <- MCContents
  MaxRuns = 2
INVARIANTS
  TypeOK
  ChangesOnlyNamed
  ShowsWhatItWrote
  Undoable
  TypedBack
CHECK_DEADLOCK FALSE
