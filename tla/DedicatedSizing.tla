---------------------------- MODULE DedicatedSizing ----------------------------
(***************************************************************************)
(* The sizing of one fcs_dedicated_cluster: a configuration whose          *)
(* attributes are null, known or not known yet, the validation of it (at   *)
(* plan time with what is known, at apply time with everything), the sizes *)
(* sent by POST and PATCH with zeros left out or not, and the API's row.   *)
(*                                                                         *)
(* Waiting for a cluster is the subject of ClusterLifecycle: a handler is  *)
(* one step here.  The API reports the sizes in every answer.              *)
(***************************************************************************)
EXTENDS Integers

CONSTANTS
  Null,
  Unknown,
  Menu,            \* the numbers a configuration gives to each attribute
  Configurations,  \* what the user may ask for
  NoConfig,
  NoSizing

Attributes == {"cp_nodes", "cp_vcpu", "cp_ram_gb", "worker_nodes", "worker_vcpu",
               "worker_ram_gb", "pvc_storage_gb"}

ASSUME ConstantsAssumption ==
  /\ Null \notin Int
  /\ Unknown \notin Int
  /\ Null # Unknown
  /\ Menu \in [Attributes -> SUBSET Int]
  /\ Configurations \subseteq [Attributes -> Int \cup {Null, Unknown}]
  /\ NoConfig \notin [Attributes -> Int \cup {Null, Unknown}]
  /\ NoSizing \notin [Attributes -> Int]

VARIABLES
  cfg,      \* the configuration, NoConfig while it is being written
  row,      \* the sizes of the API's row, NoSizing when there is none
  held,     \* whether the Terraform state has the cluster, and tainted
  seen,     \* the sizes the refresh of the running run has read
  phase,    \* idle, planned, or apply
  refused,  \* the last run has ended with a refusal of the configuration
  calm      \* from here on nothing goes wrong and nobody edits

vars == <<cfg, row, held, seen, phase, refused, calm>>

Configs == [Attributes -> Int \cup {Null, Unknown}]
Sizings == [Attributes -> Int]

Init ==
  /\ cfg = NoConfig
  /\ row = NoSizing
  /\ held = "no"
  /\ seen = NoSizing
  /\ phase = "idle"
  /\ refused = FALSE
  /\ calm = FALSE

-----------------------------------------------------------------------------
(* The schema and ValidateConfig.                                          *)

Required == {"cp_vcpu", "cp_ram_gb"}
Default == [cp_nodes |-> 3, worker_nodes |-> 0, worker_vcpu |-> 0,
            worker_ram_gb |-> 0, pvc_storage_gb |-> 100]

\* The validators of the schema, an attribute at a time.
Allowed(a, n) ==
  /\ a = "cp_nodes" => n \in {1, 3}
  /\ a = "cp_vcpu" => n >= 2
  /\ a = "cp_ram_gb" => n >= 8
  /\ a \in {"worker_nodes", "worker_vcpu", "worker_ram_gb"} => n >= 0
  /\ a = "pvc_storage_gb" => n >= 50

SchemaRefuses(c) ==
  \/ \E a \in Required : c[a] = Null
  \/ \E a \in Attributes : c[a] \in Int /\ ~Allowed(a, c[a])

OffStep(c) == c["pvc_storage_gb"] \in Int /\ c["pvc_storage_gb"] % 50 # 0

Value(c, a) == IF c[a] = Null THEN Default[a] ELSE c[a]

\* Every later check waits until these are known.
PoolsKnown(c) == \A a \in {"cp_nodes", "cp_vcpu", "worker_nodes"} : c[a] # Unknown

\* Mutation: as CombinedTooSmall, with a count that is not known yet read as 0.
CombinedTooSmallEarly(c) ==
  /\ Value(c, "cp_nodes") = 1
  /\ Value(c, "worker_nodes") \in {0, Unknown}
  /\ c["cp_vcpu"] \in Int
  /\ c["cp_vcpu"] < 4

\* Mutation: the check of the combined node looks at the attributes that are
\* given only.
CombinedTooSmallGiven(c) ==
  /\ PoolsKnown(c)
  /\ c["cp_nodes"] = 1
  /\ c["worker_nodes"] = 0
  /\ c["cp_vcpu"] # Null
  /\ c["cp_vcpu"] < 4

CombinedTooSmall(c) ==
  /\ PoolsKnown(c)
  /\ Value(c, "cp_nodes") = 1
  /\ Value(c, "worker_nodes") = 0
  /\ c["cp_vcpu"] # Null
  /\ c["cp_vcpu"] < 4

WorkerFloor == [worker_vcpu |-> 2, worker_ram_gb |-> 4]

WorkersTooSmall(c) ==
  /\ PoolsKnown(c)
  /\ Value(c, "worker_nodes") > 0
  /\ \A a \in DOMAIN WorkerFloor : c[a] # Unknown
  /\ \E a \in DOMAIN WorkerFloor : c[a] # Null /\ c[a] < WorkerFloor[a]

Refuses(c) == SchemaRefuses(c) \/ OffStep(c) \/ CombinedTooSmall(c) \/ WorkersTooSmall(c)

\* What a configuration can turn out to be once everything is known.
UnknownOf(c) == {a \in Attributes : c[a] = Unknown}
Learned(c) ==
  {f \in [UnknownOf(c) -> UNION {Menu[a] : a \in UnknownOf(c)} \cup {Null}] :
     \A a \in UnknownOf(c) : f[a] \in Menu[a] \cup {Null}}
Resolutions(c) ==
  {[a \in Attributes |-> IF a \in UnknownOf(c) THEN f[a] ELSE c[a]] : f \in Learned(c)}

Planned(c) == [a \in Attributes |-> Value(c, a)]

-----------------------------------------------------------------------------
(* The requests.  JSON leaves a zero out, but behind a pointer.            *)

\* Mutation: ClusterResizeSpec as ClusterSpec.
NoPointers == {}

Pointers == {"worker_nodes", "worker_vcpu", "worker_ram_gb"}

\* Mutation: what a POST leaves out the row does not have.
PostedSparse(s) == [a \in {b \in Attributes : s[b] # 0} |-> s[a]]

\* What the server makes of a request: for what is left out it has a value.
Received(s, pointers, missing) ==
  [a \in Attributes |-> IF s[a] # 0 \/ a \in pointers THEN s[a] ELSE missing[a]]

Posted(s) == Received(s, {}, [a \in Attributes |-> 0])
Patched(old, s) == Received(s, Pointers, old)

\* Storage can only grow.
Shrinks(s) == row # NoSizing /\ s["pvc_storage_gb"] < row["pvc_storage_gb"]

-----------------------------------------------------------------------------
(* The user and the run.                                                   *)

\* The user starts to edit, and has edited.
Edit ==
  /\ ~calm
  /\ phase = "idle"
  /\ cfg' = NoConfig
  /\ refused' = FALSE
  /\ UNCHANGED <<row, held, seen, phase, calm>>

Configure(c) ==
  /\ cfg = NoConfig
  /\ cfg' = c
  /\ UNCHANGED <<row, held, seen, phase, refused, calm>>

CalmDown ==
  /\ ~calm
  /\ cfg # NoConfig
  /\ calm' = TRUE
  /\ UNCHANGED <<cfg, row, held, seen, phase, refused>>

Ends(state) == phase' = "idle" /\ seen' = NoSizing /\ held' = state

Crash ==
  /\ ~calm
  /\ phase # "idle"
  /\ Ends(held)
  /\ UNCHANGED <<cfg, row, refused, calm>>

\* The TTL reaper or an operator.
Reap ==
  /\ ~calm
  /\ row # NoSizing
  /\ row' = NoSizing
  /\ UNCHANGED <<cfg, held, seen, phase, refused, calm>>

\* Validation comes before anything is read.
Refuse ==
  /\ phase = "idle"
  /\ cfg # NoConfig
  /\ Refuses(cfg)
  /\ refused' = TRUE
  /\ UNCHANGED <<cfg, row, held, seen, phase, calm>>

\* The refresh takes over the sizes the API reports, whatever the state had
\* saved, and drops a cluster that is gone.
Plan ==
  /\ phase = "idle"
  /\ cfg # NoConfig
  /\ ~Refuses(cfg)
  /\ seen' = IF held = "no" THEN NoSizing ELSE row
  /\ held' = IF seen' = NoSizing THEN "no" ELSE held
  /\ phase' = "planned"
  /\ UNCHANGED <<cfg, row, refused, calm>>

\* The apply: what the plan did not know is known now, and validated again.
Resolve(r) ==
  /\ phase = "planned"
  /\ cfg' = r
  /\ refused' = Refuses(r)
  /\ IF Refuses(r) THEN Ends(held) ELSE phase' = "apply" /\ UNCHANGED <<held, seen>>
  /\ UNCHANGED <<row, calm>>

Apply(state) == phase = "apply" /\ held = state /\ UNCHANGED <<cfg, refused, calm>>

Post == row' = IF row = NoSizing THEN Posted(Planned(cfg)) ELSE row

\* 202 and 200 alike.  Terraform taints what is not as planned.
Create ==
  /\ Apply("no")
  /\ Post
  /\ Ends(IF row' = Planned(cfg) THEN "yes" ELSE "tainted")

\* The answer is lost, or the cluster never becomes active.
CreateFails ==
  /\ ~calm
  /\ Apply("no")
  /\ Post \/ UNCHANGED row
  /\ \/ Ends("no")
     \/ row' # NoSizing /\ Ends("tainted")

NothingToDo ==
  /\ Apply("yes")
  /\ seen = Planned(cfg)
  /\ Ends("yes")
  /\ UNCHANGED row

Resizing == Apply("yes") /\ seen # Planned(cfg)
Patch == row # NoSizing /\ ~Shrinks(Planned(cfg)) /\ row' = Patched(row, Planned(cfg))

Update ==
  /\ Resizing
  /\ Patch
  /\ Ends("yes")

\* 404, or 409 for less storage.
UpdateRefused ==
  /\ Resizing
  /\ row = NoSizing \/ Shrinks(Planned(cfg))
  /\ Ends("yes")
  /\ UNCHANGED row

UpdateFails ==
  /\ ~calm
  /\ Resizing
  /\ Patch \/ UNCHANGED row
  /\ Ends("yes")

\* The first half of a replacement; Create is the second.
Delete ==
  /\ Apply("tainted")
  /\ row' = NoSizing
  /\ held' = "no"
  /\ UNCHANGED <<seen, phase>>

DeleteFails ==
  /\ ~calm
  /\ Apply("tainted")
  /\ row' \in {row, NoSizing}
  /\ Ends("tainted")

Run ==
  \/ Refuse \/ Plan
  \/ cfg # NoConfig /\ \E r \in Resolutions(cfg) : Resolve(r)
  \/ Create \/ CreateFails \/ NothingToDo
  \/ Update \/ UpdateRefused \/ UpdateFails
  \/ Delete \/ DeleteFails

Next ==
  \/ \E c \in Configurations : Configure(c)
  \/ Edit \/ CalmDown \/ Crash \/ Reap
  \/ Run

Spec == Init /\ [][Next]_vars

\* Somebody keeps applying.
FairSpec == Spec /\ WF_vars(Run)

-----------------------------------------------------------------------------
(* Properties.                                                             *)

\* Every variable has its type.
TypeOK ==
  /\ cfg \in Configs \cup {NoConfig}
  /\ row \in Sizings \cup {NoSizing}
  /\ held \in {"no", "yes", "tainted"}
  /\ seen \in Sizings \cup {NoSizing}
  /\ phase \in {"idle", "planned", "apply"}
  /\ refused \in BOOLEAN
  /\ calm \in BOOLEAN

\* A configuration is refused only if it would be whatever its unknown values
\* turn out to be: the early returns of ValidateConfig let no check run on a
\* value it does not know yet.
NoFalseRefusal ==
  refused => \A r \in Resolutions(cfg) : Refuses(r)

\* The platform's own rules, of a row.
Sound(s) ==
  /\ \A a \in Attributes : Allowed(a, s[a])
  /\ s["cp_nodes"] = 1 /\ s["worker_nodes"] = 0 => s["cp_vcpu"] >= 4
  /\ s["pvc_storage_gb"] % 50 = 0

\* No request leaves a cluster that breaks the sizing rules, also when the values
\* were not known while planning and when PATCH leaves zeros out: a worker pool has
\* the sizes it was given, and at least the floor.
RequestsAreSound ==
  [][row' \notin {row, NoSizing} =>
       /\ Sound(row')
       /\ row'["worker_nodes"] > 0 =>
            \A a \in DOMAIN WorkerFloor :
              cfg[a] # Null => row'[a] >= WorkerFloor[a]]_vars

\* A request that changes the row changes it to what was planned, all of it: what
\* JSON drops is never what the user asked for, zero workers in place of some and
\* the zero sizes that go with them included.
RequestsReachPlan ==
  [][row' \notin {row, NoSizing} => row' = Planned(cfg)]_vars

\* Repeated runs end up with the configured sizes, a worker pool that is scaled to
\* nothing included, unless the configuration is refused or asks for less storage.
Converges ==
  <>[](calm =>
         \/ Refuses(cfg)
         \/ /\ UnknownOf(cfg) = {}
            /\ \/ row = Planned(cfg) /\ held = "yes"
               \/ Shrinks(Planned(cfg)))

\* "worker_vcpu must be at least 2 when worker_nodes is greater than 0", and
\* worker_ram_gb 4.
WorkersHaveSize ==
  row # NoSizing /\ row["worker_nodes"] > 0 =>
    \A a \in DOMAIN WorkerFloor : row[a] >= WorkerFloor[a]
=============================================================================
