CONSTANTS
  Names = {"boot", "k2"}
  Length <- MCLength
  FS_MAX_PATH = 2
  MAX_TOKENS = 5
  OutSizes = {1, 2, 4, 5, 8}
  Types = {"fat32", "ext2"}
  BuiltIn <- MCBuiltIn
  Paths <- MCPaths
  MAX_FS = 3
  MAX_MOUNTS = 3
  FatDisks <- MCFatDisks
  FatCalls <- MCFatCalls
  SECTOR = 2
  ENTRY_SIZE = 1
  Stack = {2, 7, 41}
  END_OF_CHAIN = 40
  UINT32 = 64
  ShortName <- MCShortName
  ShortLength <- MCShortLength
  ExtDisks <- MCExtDisks
  ExtCalls <- MCExtCalls
  DIRECT = 2
  SUPER_OFFSET = 2
  IsoDisks <- MCIsoDisks
  IsoCalls <- MCIsoCalls
  ISO_SECTOR = 4
  BYTE = 8
  SYSTEM_AREA = 2
  MAX_DESCRIPTORS = 4
  Upper <- MCUpper
SPECIFICATION LayerSpec
\* fs_normalize_path and the driver operations return once.
CHECK_DEADLOCK FALSE
INVARIANTS
  BufferRespected AbsoluteCorrect VolumesLive
  DriverReads DriverReleases
PROPERTIES
  NeverShadowed DriverReturns
