CONSTANTS
  Packet = {p1, p2, p3}
  NoPacket = NoPacket
  Torn = Torn
  QueueSize = 3
  Parts = 2

SPECIFICATION Spec
INVARIANTS
  TypeOK
  SlotHeldInFlight
PROPERTIES
  AnswersLeaveInOrder
