CONSTANTS
  Byte = {"A", "F", "B", "data", "status"}
  FifoSize = 7
  DrainChunk = 2
  Magic <- MCMagic
  Kind = {"data", "status"}
  PayloadOf <- MCPayloadOf
  Requests <- MCRequests
  Noise = {"A"}
  MaxFaults = 1
  MaxImpatient = 1

SPECIFICATION Spec
INVARIANTS
  TypeOK
  KeepsLongestCandidate
  OnlySentFramesRun
  IntactFrameRuns
  WaitingHostNeverOverflows
PROPERTIES
  FifoIsQueue
  IdleResetJustified
  EveryRequestRuns
CHECK_DEADLOCK FALSE
