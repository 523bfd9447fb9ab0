SPECIFICATION Spec
CONSTANTS
  Ids = {r1, r2}
  NoId = NoId
  m1 = m1
  m2 = m2
  v1 = v1
  v2 = v2
  Metas = {m1, m2}
  NoMeta = NoMeta
  Markers = {v1, v2}
  NoMarker = NoMarker
  MaxSecret = 3
INVARIANTS
  TypeOK
  NoOrphan
  SecretUsable
PROPERTIES
  SecretKept
  KeepsCustody
