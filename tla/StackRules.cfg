SPECIFICATION Spec
CONSTANTS
  env = env
  mid = mid
  leaf = leaf
  twig = twig
  MidKind = "cluster"
  LeafKind = "egress"
  TwigKind = "app"
  Nodes = {env, mid, leaf, twig}
  Root = env
  Parent <- MCParent
  Kind <- MCKind
  Configurations <- MCAllOrNothing
  Reaper = TRUE
  MaxGen = 2
INVARIANTS
  TypeOK
  CleanRunIsWhole
  NoOrphan
  DestroySweeps
  NothingOutlives
PROPERTIES
  ParentsGoLast
  OnlyFailuresHoldBack
