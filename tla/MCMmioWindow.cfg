SPECIFICATION FairSpec
CONSTANTS
  Gen = 2
  Size = 3
  Byte = {0, 1}
  Widths = {1, 2}
  Requests <- MCRequests
INVARIANTS
  TypeOK
  IdleAtAddress
  ReadIsRecent
  WholeValue
PROPERTIES
  AccessEnds
  ImplementsMmioSpec
CHECK_DEADLOCK FALSE
