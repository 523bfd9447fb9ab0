SPECIFICATION FairSpec
CONSTANTS
  x = x
  y = y
  k1 = k1
  k2 = k2
  r1 = r1
  r2 = r2
  Addresses = {x, y}
  Keys = {k1, k2}
  Rests = {r1, r2}
  Ids = {1, 2, 3}
  NoId = NoId
  Absent = Absent
  Kinds = {"app", "network", "ingress", "cluster", "tshirt", "artifact", "binding"}
  Configurations <- MCConfigurations
INVARIANTS
  TypeOK
  NoOrphan
  CleanRunServes
PROPERTIES
  Converges
  UndisturbedSucceeds
