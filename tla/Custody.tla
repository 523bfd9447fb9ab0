------------------------------- MODULE Custody -------------------------------
(***************************************************************************)
(* What every FCS resource promises about the server rows it stands for.   *)
(*                                                                         *)
(* A row (a cluster, a VM, a rule, an account) is live from the moment the *)
(* API accepts its POST until its teardown.  The provider holds a row      *)
(* while the Terraform state, or the handler about to return to Terraform, *)
(* carries its id.  A row is adrift when the fault that broke its creation *)
(* (an answer that never arrived, a killed process) left nobody holding    *)
(* it.  The promise: a live row is never let go of, except by such a       *)
(* fault, and a row that is adrift can still be adopted.                   *)
(***************************************************************************)
CONSTANT Ids

VARIABLES
  live,    \* rows that exist on the server and are not torn down
  dead,    \* rows that were torn down; a server id is never reused
  held,    \* rows the Terraform state or a running handler carries
  adrift   \* rows whose holder was lost to a fault

vars == <<live, dead, held, adrift>>

Init ==
  /\ live = {}
  /\ dead = {}
  /\ held = {}
  /\ adrift = {}

\* A row is born in the hands of the provider, or its answer is lost.
Create(i) ==
  /\ i \notin live \cup dead
  /\ live' = live \cup {i}
  /\ \/ held' = held \cup {i} /\ UNCHANGED adrift
     \/ adrift' = adrift \cup {i} /\ UNCHANGED held
  /\ UNCHANGED dead

\* An existing row is taken over: an idempotent create, or an import.
Adopt(i) ==
  /\ i \in live \ held
  /\ held' = held \cup {i}
  /\ adrift' = adrift \ {i}
  /\ UNCHANGED <<live, dead>>

\* The server tears rows down, whoever asked for it and with whatever went with
\* them; only rows that are not live any more are let go of.
Die ==
  /\ live' \subseteq live
  /\ dead' = dead \cup (live \ live')
  /\ held' \subseteq held /\ (held \ held') \cap live' = {}
  /\ adrift' \subseteq adrift /\ (adrift \ adrift') \cap live' = {}

\* The process that held rows dies before Terraform has saved them.
Lose ==
  /\ held' \subseteq held
  /\ adrift' = adrift \cup (held \ held')
  /\ UNCHANGED <<live, dead>>

Next == Die \/ Lose \/ \E i \in Ids : Create(i) \/ Adopt(i)

Spec == Init /\ [][Next]_vars
=============================================================================
