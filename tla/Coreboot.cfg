CONSTANTS
  SLOTS = 3
  TABLE_LIMIT = 4
  Tables <- MCTables
  Garbage <- MCGarbage
  UINT64 = 8192
  UINT32 = 1024
  TIMEOUT = 2
  KernelSizes <- MCKernelSizes
  KernelFileSizes <- MCKernelSizes
  KernelBuffers <- MCKernelBuffers
  BinarySizes <- MCBinarySizes
  CmdlineSizes <- MCCmdlineSizes
  Users = {"UefiMain", "BloodhornMainCoreboot"}
  CELLS = 5
  MAX_INITS = 3
SPECIFICATION PortSpec
\* Each program ends: with a reboot, in a kernel or by returning.
CHECK_DEADLOCK FALSE
INVARIANTS
  MapInsideEntry JumpJustified
  PortReleases HeaderDescribesFile LibrarySound
PROPERTY PayloadRunEnds
