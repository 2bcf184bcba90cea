SPECIFICATION ClientSpec
CONSTANTS
  ManifestId = {mA, mB}
  ChunkId <- MCChunkId
  WellFormed <- MCChunkId
  U64Max = 7
  U32Max = 3
  OverflowChecks = TRUE
  BodyLimit = 2
  ByteMax = 1
  Bytes <- MCBytes
  b3 <- MCb3
  FileId = {f1}
  VersionId = {v1, v2}
  DirectoryId = {d1}
  IdempotencyKey = {k1}
  Name = {0, 1}
  IllegalName = {0}
  InputManifest <- MCInputManifest
  ClientRequest <- MCRequests
  CallRequest <- MCRequests
  Caller = {p1, p2}
  Slot = {s1, s2}
  MaxFailures = 1
  None = None
  f1 = f1  v1 = v1  v2 = v2  d1 = d1  k1 = k1  mA = mA  mB = mB
SYMMETRY Symmetry
INVARIANTS
  CommittedServable RepliesStayTrue CodesTravel
PROPERTIES RepeatsAgree OnceOnly
