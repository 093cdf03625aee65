SPECIFICATION Spec
CONSTANTS
  a = a
  b = b
  Chunk = {a, b}
  VectorOk = {a}
  Erased = Erased
  Torn = Torn
  Blank = Blank
  None = None
  BadDigest = BadDigest
  SlotChunks = 1
  PageOf <- OnePagePerChunk
  CopyCount = 2
  HasEcc = TRUE
  Requests <- FloorRequests
  Manifests <- FloorManifests
  Xcrypt <- MCXcrypt
  AllowUnsigned = TRUE
  RequireSigned = FALSE
  OptionalAR = TRUE
  RequireAR = FALSE
  Seqs = {0}
  Shapes = {"NONE"}
  LegacyFloors <- FloorLegacy
  PreserveOnClear = TRUE
  MaxInterruptions = 2
INVARIANTS
  SelectedFloorIsHighest
PROPERTIES
  CommitKeepsRedundantFloor
