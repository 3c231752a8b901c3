CONSTANTS
  Messages <- StreamMessages
  Sizes <- StreamSizes
  UintMod = 1073741824
  MaxCalls = 3
  MaxSeq = 3

SPECIFICATION StreamFairSpec
INVARIANTS
  StreamTypeOK
  InPlace
PROPERTY ImplementsFifo
CHECK_DEADLOCK FALSE
