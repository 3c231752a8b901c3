CONSTANTS
  Messages <- SizedMessages
  Sizes <- AllSizes
  UintMod = 1073741824
  MaxCalls = 1
  MaxSeq = 1

SPECIFICATION Spec
INVARIANTS
  TypeOK
  WholePacket
  FailsForRoom
CHECK_DEADLOCK FALSE
