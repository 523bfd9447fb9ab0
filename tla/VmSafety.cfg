SPECIFICATION Spec
CONSTANTS
  Ids = {v1, v2}
  NoId = NoId
  Setups <- BothSetups
SYMMETRY Alike
INVARIANTS
  TypeOK
  NoOrphan
  ReleasedAreTorn
  NamedVmIsUnique
  PowerConfirmedWithoutReadback
PROPERTIES
  BlamesOnlyNewFailures
  KeepsCustody
