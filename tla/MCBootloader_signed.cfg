SPECIFICATION Spec
CONSTANTS
  a = a
  b = b
  Chunk = {a, b}
  VectorOk = {a}
  Erased = Erased
  Torn = Torn
  Blank = Blank
  None = None
  BadDigest = BadDigest
  SlotChunks = 3
  PageOf <- TwoChunksPerPage
  CopyCount = 2
  HasEcc = TRUE
  Requests <- SignedRequests
  Manifests <- SignedManifests
  Xcrypt <- MCXcrypt
  AllowUnsigned = TRUE
  RequireSigned = TRUE
  OptionalAR = TRUE
  RequireAR = TRUE
  Seqs = {0, 1}
  Shapes = {"NONE", "ALIGNMENT"}
  LegacyFloors = {None}
  PreserveOnClear = TRUE
  MaxInterruptions = 1
INVARIANTS
  RetryStillTrue
  JumpTargetVerified
PROPERTIES
  NothingErasedUnsigned
