SPECIFICATION FairSpec
CONSTANTS
  Ids = {c1, c2}
  NoId = NoId
  s = s
  m = m
  Sizes = {s, m}
  NoSize = NoSize
  DefaultSize = s
  Storage <- MCStorage
INVARIANTS
  TypeOK
  NoOrphan
  ReleasedAreTorn
  CleanMeansOnlyCluster
  CustomResizeConfirmed
PROPERTIES
  KeepsCustody
  OperationsEnd
