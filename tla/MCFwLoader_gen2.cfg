SPECIFICATION FairSpec
CONSTANTS
  Gen = 2
  Q = 2
  OldLengths = {13}
  NewLengths = {10}
  Bases = {}
  ParkLength = 5
  Park <- MCPark
  Word <- MCWord
  Zero <- ZeroWord
  None <- NoneWord
  Images <- MCImages
  CpuAddr <- MCCpuAddr
  CpuWord <- MCCpuWord
  RomCode <- MCRom
  SelfCode <- MCSelf
  Corrupt <- MCCorrupt
INVARIANTS
  LoaderInv
  ReadbackMatches
PROPERTIES
  ToolEnds
CHECK_DEADLOCK FALSE
