-------------------------- MODULE MCEnvironmentStack --------------------------
(***************************************************************************)
(* EnvironmentStack over small configurations: an environment, one node    *)
(* below it and one or two below that.  A configuration contains all of    *)
(* them, some with what they refer to, or nothing (terraform destroy).     *)
(***************************************************************************)
EXTENDS EnvironmentStack

CONSTANTS env, mid, leaf, twig, MidKind, LeafKind, TwigKind

MCParent == [n \in Nodes \ {env} |-> IF n = mid THEN env ELSE mid]
MCKind == [n \in Nodes |-> CASE n = env -> "environment"
                             [] n = mid -> MidKind
                             [] n = leaf -> LeafKind
                             [] n = twig -> TwigKind]
MCConfigurations ==
  {w \in SUBSET Nodes : \A n \in w : n # env => MCParent[n] \in w}
MCAllOrNothing == {{}, Nodes}
=============================================================================
