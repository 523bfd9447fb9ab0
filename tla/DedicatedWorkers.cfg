SPECIFICATION Spec
CONSTANTS
  Null = Null
  Unknown = Unknown
  NoConfig = NoConfig
  NoSizing = NoSizing
  MaxUnknown = 1
  Menu <- MCMenu
  Configurations <- MCConfigurations
INVARIANTS
  WorkersHaveSize
