CONSTANTS
  Rntis = {r1, r2}
  NoRnti = NoRnti
  Ids = {id1, id2}
  NoId = NoId
  States = {"connected"}
  AgentSlots = 2
  MaxUes = 2
  TxRoom = 42
  MaxWire = 1
  Caller = "clear"
  Buffer = "reports"

SPECIFICATION Spec
INVARIANT CompleteView
