CONSTANTS
  Threads = {t1, t2, t3}
  Null = Null
  Stdout = Stdout
  MaxPieces = 2

SPECIFICATION Spec
INVARIANTS
  TypeOK
  HasOutput
  CrashExplained
PROPERTY OutputStays
CHECK_DEADLOCK FALSE
