SPECIFICATION Spec
CONSTANTS
  Ids = {c1}
  NoId = NoId
  s = s
  m = m
  Sizes = {s, m}
  NoSize = NoSize
  DefaultSize = s
  Storage <- MCStorage
INVARIANTS
  RerunConfirmsResize
