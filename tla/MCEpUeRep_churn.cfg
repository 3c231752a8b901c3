CONSTANTS
  Rntis = {r1, r2, r3}
  NoRnti = NoRnti
  Ids = {id1}
  NoId = NoId
  States = {"connected"}
  AgentSlots = 2
  MaxUes = 2
  TxRoom = 42
  MaxWire = 1
  Caller = "keep"
  Buffer = "zeroed"

SPECIFICATION Spec
INVARIANT SlotFound
