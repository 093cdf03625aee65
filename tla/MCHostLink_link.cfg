SPECIFICATION LinkSpec
CONSTANTS
  a = a
  b = b
  Chunk = {a, b}
  VectorOk = {a}
  Erased = Erased
  Torn = Torn
  Blank = Blank
  None = None
  BadDigest = BadDigest
  SlotChunks = 2
  PageOf <- MCPageOf
  CopyCount = 1
  HasEcc = FALSE
  Requests <- MCRequests
  Manifests <- MCManifests
  Xcrypt <- MCXcrypt
  AllowUnsigned = TRUE
  RequireSigned = FALSE
  OptionalAR = TRUE
  RequireAR = FALSE
  Seqs <- MCSeqs
  Shapes = {"NONE"}
  LegacyFloors = {None}
  PreserveOnClear = TRUE
  MaxInterruptions = 1
  Retries = 2
  MaxRuns = 2
  MaxFaults = 2
  MaxUpsets = 1
INVARIANTS
  LinkTypeOK
  HostAndDeviceAgree
PROPERTIES
  RunEnds
  UpdateSucceeds
  ImplementsInstallation
CHECK_DEADLOCK FALSE
