SPECIFICATION FairSpec
CONSTANTS
  Gen = 1
  Q = 2
  OldLengths = {0, 3, 9}
  NewLengths = {8, 5}
  Bases = {}
  ParkLength = 1
  Park <- MCPark
  Word <- MCWord
  Zero <- ZeroWord
  None <- NoneWord
  Images <- MCImages
  CpuAddr <- MCCpuAddr
  CpuWord <- MCCpuWord
  RomCode <- MCRom
  SelfCode <- MCSelf
  Corrupt <- MCCorrupt
INVARIANTS
  TypeOK
  HeldWhileLoading
  WindowClosedWhileRunning
  NoCorruptBoot
PROPERTIES
  ImplementsLoadSpec
  ToolEnds
CHECK_DEADLOCK FALSE
