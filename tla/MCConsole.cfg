SPECIFICATION FairSpec
CONSTANTS
  MaxCmdLen = 5
  MaxArgs = 2
  RxDepth = 1
  TxDepth = 4
  TxReady = 2
  Drained = 3
  Keys = {"r", "o", "sp", "cr", "bs", "etx"}
  Table <- MCTable
INVARIANTS TypeOK TxNeverOverflows BufferTail EchoMatches
PROPERTIES ImplementsLineSpec CommandEnds
CHECK_DEADLOCK FALSE
