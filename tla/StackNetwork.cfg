SPECIFICATION FairSpec
CONSTANTS
  env = env
  mid = mid
  leaf = leaf
  twig = twig
  MidKind = "vdc"
  LeafKind = "network"
  TwigKind = "app"
  Nodes = {env, mid, leaf}
  Root = env
  Parent <- MCParent
  Kind <- MCKind
  Configurations <- MCConfigurations
  Reaper = TRUE
  MaxGen = 2
INVARIANTS
  NoOrphan
PROPERTIES
  ParentsGoLast
  KeepsCustody
  RunsEnd
