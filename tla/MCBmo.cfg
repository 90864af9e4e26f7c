SPECIFICATION FairSpec
CONSTANTS
  Base = 5
  AddrBytes = 2
  WordBytes = 2
  EXIT = 0
  READ = 1
  WRITE = 2
  MEM_READ = 3
  MEM_WRITE = 4
  Cells = {0, 1}
  Cell <- MCCell
  ReadOnly = {1}
  Volatile = {1}
  Fatal <- MCFatal
  RxDepth = 2
  TxDepth = 3
  TxReady = 2
  Requests <- MCRequests
  Ahead = 2
  Stray = {}
INVARIANTS TypeOK InStep
PROPERTIES ImplementsMemServer Served
CHECK_DEADLOCK FALSE
