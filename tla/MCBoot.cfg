SPECIFICATION Spec
CONSTANTS
  AddressLimit = 255
  InfoAddresses = {0, 64, 184}
  TotalSizes = {4, 24, 120}
  TagSizes = {0, 8, 28, 36, 40, 64}
  EntrySizes = {0, 24, 32}
  MemoryTypes = {1, 9}
  TextLengths = {0, 4}
  MaxTags = 3
  MaxBootString = 3
  MaxBootMemoryRegions = 2
  MaxBootModules = 2
  MaxBootPaletteColors = 1
  LapicAddresses = {0, 5, 6}
  DefaultLapic = 7
  MadtLengths = {43, 44, 55, 68}
  EntryLengths = {0, 2, 8, 10, 12, 16}
  MaxRootEntries = 2
  MaxMadtEntries = 3
  MaxCpus = 1
  MaxIoapics = 1
  MaxIsos = 1
INVARIANTS WalksInBlock BootInfoSound MadtSound ComponentsReady FailureStopsBoot
PROPERTY BootEnds
CHECK_DEADLOCK FALSE
