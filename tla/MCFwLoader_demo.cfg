SPECIFICATION FairSpec
CONSTANTS
  Gen = 2
  Q = 2
  OldLengths = {}
  NewLengths = {}
  Bases = {}
  ParkLength = 1
  Park <- MCPark
  Word <- MCWord
  Zero <- ZeroWord
  None <- NoneWord
  Images <- MCImages
  CpuAddr <- MCCpuAddr
  CpuWord <- MCCpuWord
  RomCode <- MCRom
  SelfCode <- MCSelf
  Corrupt <- MCCorrupt
PROPERTIES
  DemoReloads
CHECK_DEADLOCK FALSE
