CONSTANTS
  Rntis = {r1, r2}
  NoRnti = NoRnti
  Ids = {id1, id2}
  NoId = NoId
  States = {"connected"}
  AgentSlots = 2
  MaxUes = 2
  TxRoom = 42
  MaxWire = 1
  Caller = "forget"
  Buffer = "reports"

SPECIFICATION Spec
INVARIANTS
  TypeOK
  UniqueRnti
  SlotFound
  InStep
  CountBounded
PROPERTIES
  NoEviction
  ImplementsDirectory
