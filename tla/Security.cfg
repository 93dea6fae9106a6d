CONSTANTS
  LOCALITY_TRIES = 2
  READY_TRIES = 2
  RESPONSE_TRIES = 2
  LAST_SEPARATOR = 1
  MAX_EVENTS = 3
  MAX_LOG_SIZE = 20
  UINT32 = 64
  EVENT_SIZE = 1
  SeparatorSize <- MCSeparatorSize
  VersionSize <- MCVersionSize
  FileSizes <- MCFileSizes
  MAX_CALLS = 3
  SHA_BLOCK = 4
  LENGTH_BYTES = 2
  MAX_MESSAGE = 9
  HASH = 2
  KeyLengths <- MCKeyLengths
  Iterations = {0, 1, 3}
  SIGNATURE = 2
  ImageSizes <- MCImageSizes
  AES_BLOCK_SIZE = 2
  MAX_MESSAGE_SIZE = 6
SPECIFICATION SecuritySpec
\* The calls are bounded: a behaviour ends after the last one,
\* and so do a derivation, a load and a decryption.
CHECK_DEADLOCK FALSE
INVARIANT LogFollowsExtends
INVARIANT ReportsBacked
INVARIANT StreamIntact
INVARIANT DigestDetermined
INVARIANT KeyDerived
INVARIANT SecureLoadSound
PROPERTY CallReturns
INVARIANT RoundTrip
