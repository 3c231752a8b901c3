CONSTANTS
  Messages <- AllMessages
  UintMod = 1073741824
  MaxMsgs = 2

SPECIFICATION FairSpec
INVARIANTS
  TypeOK
  CleanDetails
PROPERTIES
  ImplementsDetails
  ParseEnds
CHECK_DEADLOCK FALSE
