CONSTANTS
  Rntis = {r1, r2}
  NoRnti = NoRnti
  Ids = {id1}
  NoId = NoId
  States = {"connected"}
  AgentSlots = 1
  MaxUes = 3
  TxRoom = 19
  MaxWire = 1
  Caller = "forget"
  Buffer = "shared"

SPECIFICATION Spec
SYMMETRY Symmetry
INVARIANTS
  UniqueRnti
  AllStored
