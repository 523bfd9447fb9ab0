SPECIFICATION Spec
CONSTANTS
  Ids = {v1}
  NoId = NoId
  Setups <- OnlyToday
INVARIANTS
  PowerConfirmed
