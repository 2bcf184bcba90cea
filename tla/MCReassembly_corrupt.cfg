SPECIFICATION Spec
CONSTANTS
  ManifestId = {mA}
  StoredFor <- MCStoredFor
  MaxFile = 3
  GeneratedId <- MCGeneratedId
  dangling <- cDangling
  gen = mA
  None = None
  ChunkId <- MCChunkId
  WellFormed <- MCWellFormed
  U64Max = 3
  U32Max = 1
  IsizeMax = 2
  Memory = 1
  OverflowChecks = TRUE
  ByteMax = 1
  Bytes <- MCBytes
  b3 <- MCb3
  InputManifest <- ReadManifests
  MaxFaults = 2
INVARIANT CorruptionNeverReturned
CHECK_DEADLOCK FALSE
