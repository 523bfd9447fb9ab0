SPECIFICATION FairSpec
CONSTANTS
  Null = Null
  Unknown = Unknown
  NoConfig = NoConfig
  NoSizing = NoSizing
  MaxUnknown = 1
  Menu <- MCMenu
  Configurations <- MCConfigurations
INVARIANTS
  TypeOK
  NoFalseRefusal
PROPERTIES
  RequestsAreSound
  RequestsReachPlan
  Converges
