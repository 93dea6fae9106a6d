CONSTANTS
  Loaders = {"linux_load_kernel"}
  Requests <- MCDefaultLine
  ModuleSizes <- MCModuleSizes
  MAX_MODULES = 2
  BOOT_SECTOR_FILES <- SmallBootFiles
  HEADER = 65680
  HEADER_SIZE = 144
  REGION = 520
  Offered <- MCOffered
  MODTYPE_DRIVER = 8
  MAX_NAME = 256
  MAX_CMDLINE = 4096
  MAX_ADDED = 3
  RemoteSizes = {3, 15, 20}
  UNKNOWN = 15
  DEFAULT_SIZE = 16
  Hosts = {"server", "router"}
  Macs = {"first", "second"}
  RETRIES = 2
  POLLS = 2
  MAX_WIRE = 2
SPECIFICATION LoadSpec
\* A loader that has returned does nothing more.
CHECK_DEADLOCK FALSE
INVARIANT CommandLineDelivered
