SPECIFICATION Spec
CONSTANTS
  x = x
  y = y
  k1 = k1
  k2 = k2
  r1 = r1
  r2 = r2
  Addresses = {x, y}
  Keys = {k1, k2}
  Rests = {r1, r2}
  Ids = {1, 2, 3}
  NoId = NoId
  Absent = Absent
  Kinds = {"ingress", "tshirt"}
  Configurations <- MCConfigurations
INVARIANTS
  SavedIsServed
