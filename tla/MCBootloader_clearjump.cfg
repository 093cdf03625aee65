SPECIFICATION Spec
CONSTANTS
  a = a
  b = b
  Chunk = {a, b}
  VectorOk = {a}
  Erased = Erased
  Torn = Torn
  Blank = Blank
  None = None
  BadDigest = BadDigest
  SlotChunks = 2
  PageOf <- OnePagePerChunk
  CopyCount = 2
  HasEcc = TRUE
  Requests <- MixedRequests
  Manifests <- MixedManifests
  Xcrypt <- MCXcrypt
  AllowUnsigned = TRUE
  RequireSigned = FALSE
  OptionalAR = TRUE
  RequireAR = FALSE
  Seqs = {0}
  Shapes = {"NONE"}
  LegacyFloors = {None}
  PreserveOnClear = TRUE
  MaxInterruptions = 0
PROPERTIES
  JumpsToCommittedApp
