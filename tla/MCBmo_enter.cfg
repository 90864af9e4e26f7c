SPECIFICATION FairSpec
CONSTANTS
  Base = 6
  AddrBytes = 1
  WordBytes = 2
  EXIT = 0
  READ = 1
  WRITE = 2
  MEM_READ = 3
  MEM_WRITE = 4
  Cells = {0, 1}
  Cell <- SfrCell
  ReadOnly = {}
  Volatile = {}
  Fatal <- SfrFatal
  RxDepth = 1
  TxDepth = 2
  TxReady = 2
  Requests = {}
  Ahead = 0
  Stray = {0, 1, 2, 3, 4, 5}
PROPERTIES EnterLeaves
CHECK_DEADLOCK FALSE
