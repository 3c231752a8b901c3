CONSTANTS
  Messages <- UncheckedMessages
  Sizes <- AllSizes
  UintMod = 1073741824
  MaxCalls = 1
  MaxSeq = 1

SPECIFICATION Spec
CHECK_DEADLOCK FALSE
INVARIANT SuccessFits
