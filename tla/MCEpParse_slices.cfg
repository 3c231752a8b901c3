CONSTANTS
  Messages <- UserMessages
  UintMod = 1073741824
  MaxMsgs = 2

SPECIFICATION Spec
INVARIANT WholeDetails
CHECK_DEADLOCK FALSE
