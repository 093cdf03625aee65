CONSTANTS
  Boards = {"g431", "f072"}
  PageOf <- MCPageOf
  Builds = {"unguarded", "unstamped", "stamped", "mismatched"}
  MaxFaults = 3

SPECIFICATION Spec
INVARIANTS
  TypeOK
  SafeOutsideFirstPage
PROPERTIES
  UpdateEnds
  RomRecovers
CHECK_DEADLOCK FALSE
