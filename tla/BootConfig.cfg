SPECIFICATION Spec
CONSTANTS
  SizeOf <- MCSizeOf
  ENV_BUFFER = 256
  INT_BITS = 10
  UINTN_BITS = 12
  MAX_TIMEOUT = 300
  DEFAULT_TIMEOUT = 10
  IniFiles <- MCIniFiles
  JsonFiles <- MCJsonFiles
  EnvStores <- MCEnvStores
INVARIANTS
  FinalConfigCorrect
  ReleasedAtEnd
CHECK_DEADLOCK FALSE
