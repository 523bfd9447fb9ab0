--------------------------- MODULE MCDedicatedSizing ---------------------------
(***************************************************************************)
(* DedicatedSizing with values on either side of every floor.  At most     *)
(* MaxUnknown attributes of a configuration are unknown while planning.    *)
(***************************************************************************)
EXTENDS DedicatedSizing, FiniteSets

CONSTANT MaxUnknown

MCMenu ==
  [cp_nodes |-> {1, 3}, cp_vcpu |-> {2, 4}, cp_ram_gb |-> {8},
   worker_nodes |-> {0, 2}, worker_vcpu |-> {0, 2}, worker_ram_gb |-> {0, 4},
   pvc_storage_gb |-> {75, 150}]

\* Null stands for the default: 3 nodes, no workers, 100 GB.
Choices ==
  [cp_nodes |-> {Null, 1}, cp_vcpu |-> {2, 4}, cp_ram_gb |-> {8},
   worker_nodes |-> {Null, 2}, worker_vcpu |-> {0, 2},
   worker_ram_gb |-> {Null, 4}, pvc_storage_gb |-> {Null, 150}]

MCConfigurations ==
  {c \in [Attributes -> UNION {Choices[a] : a \in Attributes} \cup {Unknown}] :
     /\ \A a \in Attributes : c[a] \in Choices[a] \cup {Unknown}
     /\ Cardinality({a \in Attributes : c[a] = Unknown}) <= MaxUnknown}
=============================================================================
