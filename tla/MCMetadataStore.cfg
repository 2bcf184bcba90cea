SPECIFICATION Spec
CONSTANTS
  ManifestId = {mA, mB}
  ChunkId = {c1, c2, cBad}
  WellFormed = {c1, c2}
  U64Max = 2
  FileId = {f1, f2}
  VersionId = {v1, v2}
  DirectoryId = {d1}
  IdempotencyKey = {k1, k2}
  Name = {0, 1}
  IllegalName = {0}
  InputManifest <- MCManifests
  None = None
  c1 = c1  c2 = c2  cBad = cBad  mA = mA  mB = mB
SYMMETRY Symmetry
INVARIANTS
  TypeOK CurrentIsCommitted HistoryWellFounded CommittedResolvable
  OneFilePerKey RetriesSucceed
PROPERTY ImplementsHistory
