------------------------- MODULE MCClusterLifecycle -------------------------
(***************************************************************************)
(* ClusterLifecycle over a few server rows and two sizings, the larger of  *)
(* which has the larger disk.                                              *)
(***************************************************************************)
EXTENDS ClusterLifecycle

CONSTANTS s, m

MCStorage == [z \in Sizes |-> IF z = s THEN 100 ELSE 250]
=============================================================================
