SPECIFICATION Spec
CONSTANTS
  MaxCmdLen = 2
  MaxArgs = 2
  RxDepth = 1
  TxDepth = 3
  TxReady = 2
  Drained = 2
  Keys = {"o", "nul", "lf", "cr", "bs", "esc", "[", "A", "1", "O", "F"}
  Table <- MCTable
PROPERTIES ImplementsLineSpec
CHECK_DEADLOCK FALSE
