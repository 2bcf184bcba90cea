SPECIFICATION ApiSpec
CONSTANTS
  ManifestId = {mA, mB}
  ChunkId <- MCChunkId
  WellFormed <- MCWellFormed
  U64Max = 7
  U32Max = 3
  OverflowChecks = FALSE
  BodyLimit = 2
  ByteMax = 1
  Bytes <- MCBytes
  b3 <- MCb3
  FileId = {f1}
  VersionId = {v1, v2}
  DirectoryId = {d1}
  IdempotencyKey = {k1}
  Name = {0, 1}
  IllegalName = {0}
  InputManifest <- MCInputManifest
  ClientRequest <- ChunkRequests
  Slot = {s1, s2}
  None = None
  f1 = f1  v1 = v1  v2 = v2  d1 = d1  k1 = k1  mA = mA  mB = mB
INVARIANT NoShortRead
