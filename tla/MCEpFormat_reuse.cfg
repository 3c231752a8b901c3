CONSTANTS
  Messages <- FittingMessages
  Sizes <- FewSizes
  UintMod = 1073741824
  MaxCalls = 2
  MaxSeq = 1

SPECIFICATION Spec
INVARIANTS
  SuccessFits
  HeadersOfMessage
PROPERTIES
  LengthOnSuccess
  SeqKept
CHECK_DEADLOCK FALSE
