--------------------------- MODULE EnvironmentStack ---------------------------
(***************************************************************************)
(* A whole configuration: an fcs_environment and, below it, clusters,      *)
(* ingress and egress rules, published apps, IaaS-vDCs and networks, with  *)
(* the Terraform run that refreshes, plans and walks them concurrently.    *)
(*                                                                         *)
(* A node is one resource of the configuration; Parent is the resource     *)
(* whose id it refers to, which orders creates (parents first) and deletes *)
(* (children first).  Every attribute of these nodes that matters here     *)
(* forces a replacement.  A server row of a node is a generation of it:    *)
(* ids are never reused.  What a single cluster goes through while it is   *)
(* resized is in ClusterLifecycle; here it is pending or active.           *)
(***************************************************************************)
EXTENDS Naturals, FiniteSets

CONSTANTS
  Nodes,   \* the resources of the configuration
  Root,    \* its environment
  Parent,  \* the node each other node refers to
  Kind,    \* its resource type
  Configurations,  \* the sets of nodes the user may ask for
  Reaper,  \* rows are torn down out of band, too
  MaxGen   \* bound: rows the server may make for one node

Kinds == {"environment", "cluster", "ingress", "egress", "app", "vdc", "network"}

ASSUME ConstantsAssumption ==
  /\ Root \in Nodes
  /\ Parent \in [Nodes \ {Root} -> Nodes]
  /\ Kind \in [Nodes -> Kinds]
  /\ \A n \in Nodes : Kind[n] = "environment" <=> n = Root
  /\ \A w \in Configurations : w \subseteq Nodes /\ \A n \in w \ {Root} : Parent[n] \in w
  /\ Reaper \in BOOLEAN
  /\ MaxGen \in Nat

\* Configurations are finite and Terraform refuses references that go in a circle:
\* among any of the nodes one refers to no other, and one is referred to by none.
ASSUME ReferencesAssumption ==
  \A S \in SUBSET Nodes : S # {} =>
    /\ \E n \in S : n = Root \/ Parent[n] \notin S
    /\ \E n \in S : \A c \in S \ {Root} : Parent[c] # n

VARIABLES
  rows,     \* the API's tables: the rows of each node
  want,     \* the nodes the configuration contains
  tf,       \* the saved Terraform state
  phase,    \* idle, refresh or walk
  todo,     \* what the run has still to do for each node
  again,    \* the nodes whose delete is the first half of a replacement
  draft,    \* the row a running Create was answered with
  verdict,  \* how the last run ended
  adrift    \* history: rows whose creation was lost to a fault

vars == <<rows, want, tf, phase, todo, again, draft, verdict, adrift>>

Gens == 1..MaxGen
Rows == [st : {"unborn", "pending", "active", "leaving", "gone"},
         up : 0..MaxGen,    \* the row of Parent it refers to
         env : 0..MaxGen]   \* the environment row it belongs to
Unborn == [st |-> "unborn", up |-> 0, env |-> 0]
Gone == [Unborn EXCEPT !.st = "gone"]
Entries == [g : 0..MaxGen, up : 0..MaxGen, tainted : BOOLEAN]
NoEntry == [g |-> 0, up |-> 0, tainted |-> FALSE]
Chores == {"done", "refresh", "create", "createWait", "delete", "deleteWait", "failed"}

Children(n) == {c \in Nodes \ {Root} : Parent[c] = n}

\* The node and all it refers to, directly or not.
Closed(S) == \A m \in S \ {Root} : Parent[m] \in S
Upwards(n) == {a \in Nodes : \A S \in SUBSET Nodes : n \in S /\ Closed(S) => a \in S}

\* The kinds whose Create waits (an environment is read back once) and the
\* kinds whose Delete does.
Awaited(n) == Kind[n] \in {"environment", "cluster", "network"}

\* Mutation: the teardown of a rule is not polled.
PolledClustersOnly(n) == Kind[n] \in {"cluster", "network"}
Polled(n) == Kind[n] \in {"cluster", "ingress", "egress", "network"}

Init ==
  /\ rows = [n \in Nodes |-> [g \in Gens |-> Unborn]]
  /\ want = {}
  /\ tf = [n \in Nodes |-> NoEntry]
  /\ phase = "idle"
  /\ todo = [n \in Nodes |-> "done"]
  /\ again = {}
  /\ draft = [n \in Nodes |-> 0]
  /\ verdict = "none"
  /\ adrift = {}

-----------------------------------------------------------------------------
(* The server.                                                             *)

Live(n, g) == rows[n][g].st \in {"pending", "active"}

Found(n, g) == g \in Gens /\ rows[n][g].st \notin {"unborn", "gone"}

\* Mutation: the environment's rules outlive it.
CascadesButRules(n, g, c, h) ==
  \/ Kind[n] = "environment" /\ rows[c][h].env = g /\ Kind[c] \notin {"ingress", "egress"}
  \/ Kind[n] \in {"cluster", "vdc"} /\ c \in Children(n) /\ rows[c][h].up = g
       /\ Kind[c] \in {"app", "network"}

\* An environment takes everything with it, a cluster its published apps (not
\* its ingress and egress rules), an IaaS-vDC its networks.
Cascades(n, g, c, h) ==
  \/ Kind[n] = "environment" /\ rows[c][h].env = g
  \/ Kind[n] \in {"cluster", "vdc"} /\ c \in Children(n) /\ rows[c][h].up = g
       /\ Kind[c] \in {"app", "network"}

\* A teardown is accepted: the row and what goes with it are on their way out,
\* published apps (a 204) at once.
Struck(n, g, c, h) == Live(c, h) /\ (<<c, h>> = <<n, g>> \/ Cascades(n, g, c, h))
Teardown(n, g) ==
  rows' = [c \in Nodes |-> [h \in Gens |->
             IF Struck(n, g, c, h)
             THEN IF Kind[c] = "app" THEN Gone ELSE [rows[c][h] EXCEPT !.st = "leaving"]
             ELSE rows[c][h]]]

\* Mutation: a row that is being torn down still answers a POST.
SameButLeaving(n, p, g) == Found(n, g) /\ rows[n][g].up = p

\* A POST is idempotent over the parent row and the node's name.  The name of
\* an environment is free again once that environment is destroyed.
Same(n, p, g) == Live(n, g) /\ rows[n][g].up = p
Post(n, p, g) ==
  \/ /\ \/ Same(n, p, g)
        \/ n = Root /\ rows[n][g].st = "leaving"
     /\ UNCHANGED rows
  \/ /\ \A h \in Gens : ~Same(n, p, h)
     /\ rows[n][g].st = "unborn"
     /\ \A h \in 1..(g - 1) : rows[n][h].st # "unborn"
     /\ n # Root =>
          /\ rows[Parent[n]][p].st = "active"
          /\ Parent[n] # Root => rows[Root][rows[Parent[n]][p].env].st = "active"
     /\ rows' = [rows EXCEPT ![n][g] =
                   [st |-> IF Kind[n] \in {"cluster", "network"} THEN "pending" ELSE "active",
                    up |-> p,
                    env |-> IF n = Root THEN g
                            ELSE IF Parent[n] = Root THEN p ELSE rows[Parent[n]][p].env]]

ServerOnly == UNCHANGED <<want, tf, phase, todo, again, draft, verdict>>

\* Mutation: a teardown does not wait for what the row takes with it.
SettleAtOnce(n, g) ==
  /\ \/ rows[n][g].st = "pending" /\ rows' = [rows EXCEPT ![n][g].st = "active"]
     \/ rows[n][g].st = "leaving" /\ rows' = [rows EXCEPT ![n][g] = Gone]
  /\ adrift' = {row \in adrift : rows'[row[1]][row[2]].st # "gone"}
  /\ ServerOnly

\* Provisioning or a teardown ends, what a row takes with it first.
Settle(n, g) ==
  /\ \/ rows[n][g].st = "pending" /\ rows' = [rows EXCEPT ![n][g].st = "active"]
     \/ /\ rows[n][g].st = "leaving"
        /\ \A c \in Nodes \ {n}, h \in Gens : Cascades(n, g, c, h) => rows[c][h].st = "gone"
        /\ rows' = [rows EXCEPT ![n][g] = Gone]
  /\ adrift' = {row \in adrift : rows'[row[1]][row[2]].st # "gone"}
  /\ ServerOnly

\* The TTL reaper takes an environment, an operator any row.
Reap(n, g) ==
  /\ Reaper
  /\ Live(n, g)
  /\ Teardown(n, g)
  /\ UNCHANGED adrift
  /\ ServerOnly

-----------------------------------------------------------------------------
(* The Terraform run.                                                      *)

Configure(w) ==
  /\ phase = "idle"
  /\ want' = w
  /\ verdict' = "none"
  /\ UNCHANGED <<rows, tf, phase, todo, again, draft, adrift>>

Start ==
  /\ phase = "idle"
  /\ phase' = "refresh"
  /\ todo' = [n \in Nodes |-> IF tf[n] = NoEntry THEN "done" ELSE "refresh"]
  /\ verdict' = "none"
  /\ UNCHANGED <<rows, want, tf, again, draft, adrift>>

\* Mutation: the run is over but the Creates in flight are not forgotten.
CrashKeepingDrafts ==
  /\ phase # "idle"
  /\ phase' = "idle"
  /\ todo' = [n \in Nodes |-> "done"]
  /\ again' = {}
  /\ verdict' = "none"
  /\ UNCHANGED <<rows, want, tf, draft, adrift>>

\* The process is killed: the rows of running Creates were never saved.
Crash ==
  /\ phase # "idle"
  /\ phase' = "idle"
  /\ todo' = [n \in Nodes |-> "done"]
  /\ again' = {}
  /\ draft' = [n \in Nodes |-> 0]
  /\ verdict' = "none"
  /\ adrift' = adrift \cup {<<n, draft[n]>> : n \in {m \in Nodes : draft[m] # 0}}
  /\ UNCHANGED <<rows, want, tf>>

\* Read of each kind: a node whose row is gone is dropped from the state.
Read(n) ==
  /\ phase = "refresh"
  /\ todo[n] = "refresh"
  /\ n # Root => todo[Parent[n]] # "refresh"
  /\ tf' = IF Found(n, tf[n].g) THEN tf ELSE [tf EXCEPT ![n] = NoEntry]
  /\ todo' = [todo EXCEPT ![n] = "done"]
  /\ UNCHANGED <<rows, want, phase, again, draft, verdict, adrift>>

ReadFails ==
  /\ phase = "refresh"
  /\ \E n \in Nodes : todo[n] = "refresh"
  /\ phase' = "idle"
  /\ todo' = [n \in Nodes |-> "done"]
  /\ verdict' = "failed"
  /\ UNCHANGED <<rows, want, tf, again, draft, adrift>>

\* Mutation: the id of a parent does not force a replacement.
RenewedAlone(n, changed) == n \in changed \/ tf[n].tainted

\* A node is replaced when it is tainted or its configuration changed, and
\* with anything it refers to: the parent's id forces a replacement.
Renewed(n, changed) ==
  \E a \in Upwards(n) : \/ a \in changed
                        \/ tf[a] = NoEntry
                        \/ tf[a].tainted
                        \/ a # Root /\ tf[a].up # tf[Parent[a]].g

Plan(changed) ==
  /\ phase = "refresh"
  /\ \A n \in Nodes : todo[n] = "done"
  /\ phase' = "walk"
  /\ again' = {n \in want : tf[n] # NoEntry /\ Renewed(n, changed)}
  /\ todo' = [n \in Nodes |->
                IF tf[n] = NoEntry
                THEN IF n \in want THEN "create" ELSE "done"
                ELSE IF n \notin want \/ n \in again' THEN "delete" ELSE "done"]
  /\ UNCHANGED <<rows, want, tf, draft, verdict, adrift>>

\* A create waits for its parent, a delete for its children: a child that
\* could not be deleted is still in the state.
CanCreate(n) ==
  /\ phase = "walk"
  /\ todo[n] = "create"
  /\ n # Root => todo[Parent[n]] = "done"
\* Mutation: a delete does not wait for what refers to the row.
CanDeleteAnyOrder(n) == phase = "walk" /\ todo[n] = "delete"

CanDelete(n) ==
  /\ phase = "walk"
  /\ todo[n] = "delete"
  /\ \A c \in Children(n) : tf[c] = NoEntry

\* Mutation: the walk waits for the nodes that a failed one holds back.
EndRunWhenDone ==
  /\ phase = "walk"
  /\ \A n \in Nodes : todo[n] \in {"done", "failed"}
  /\ phase' = "idle"
  /\ todo' = [n \in Nodes |-> "done"]
  /\ again' = {}
  /\ verdict' = IF \A n \in Nodes : todo[n] = "done" THEN "clean" ELSE "failed"
  /\ UNCHANGED <<rows, want, tf, draft, adrift>>

EndRun ==
  /\ phase = "walk"
  /\ \A n \in Nodes : /\ todo[n] \notin {"createWait", "deleteWait"}
                      /\ ~CanCreate(n)
                      /\ ~CanDelete(n)
  /\ phase' = "idle"
  /\ todo' = [n \in Nodes |-> "done"]
  /\ again' = {}
  /\ verdict' = IF \A n \in Nodes : todo[n] = "done" THEN "clean" ELSE "failed"
  /\ UNCHANGED <<rows, want, tf, draft, adrift>>

-----------------------------------------------------------------------------
(* The handlers.                                                           *)

UpOf(n) == IF n = Root THEN 0 ELSE tf[Parent[n]].g
Entry(n, g) == [g |-> g, up |-> UpOf(n), tainted |-> FALSE]

\* Ingress, egress, published app and vDC: the answer is the state.
CreateAtOnce(n, g) ==
  /\ CanCreate(n)
  /\ ~Awaited(n)
  /\ Post(n, UpOf(n), g)
  /\ adrift' = adrift \ {<<n, g>>}
  /\ tf' = [tf EXCEPT ![n] = Entry(n, g)]
  /\ todo' = [todo EXCEPT ![n] = "done"]
  /\ UNCHANGED <<want, phase, again, draft, verdict>>

\* Environment, cluster and network: the handler keeps the answered row until
\* it returns.
CreateAwaited(n, g) ==
  /\ CanCreate(n)
  /\ Awaited(n)
  /\ Post(n, UpOf(n), g)
  /\ adrift' = adrift \ {<<n, g>>}
  /\ draft' = [draft EXCEPT ![n] = g]
  /\ todo' = [todo EXCEPT ![n] = "createWait"]
  /\ UNCHANGED <<want, tf, phase, again, verdict>>

\* createEgressWithRetry: a 503 may have committed the rule; the same POST is
\* repeated until the deadline.
CreateRetried(n, g) ==
  /\ CanCreate(n)
  /\ Kind[n] = "egress"
  /\ Post(n, UpOf(n), g)
  /\ adrift' = adrift \cup {<<n, g>>}
  /\ UNCHANGED <<want, tf, phase, todo, again, draft, verdict>>

\* The row is made, its answer lost.
CreateUnanswered(n, g) ==
  /\ CanCreate(n)
  /\ Post(n, UpOf(n), g)
  /\ adrift' = adrift \cup {<<n, g>>}
  /\ todo' = [todo EXCEPT ![n] = "failed"]
  /\ UNCHANGED <<want, tf, phase, again, draft, verdict>>

CreateRefused(n) ==
  /\ CanCreate(n)
  /\ todo' = [todo EXCEPT ![n] = "failed"]
  /\ UNCHANGED <<rows, want, tf, phase, again, draft, verdict, adrift>>

Returned(n, result) ==
  /\ draft' = [draft EXCEPT ![n] = 0]
  /\ todo' = [todo EXCEPT ![n] = result]
  /\ UNCHANGED <<rows, want, phase, again, verdict>>

\* The read-back of an environment takes whatever status it finds.
EnvironmentRead ==
  /\ todo[Root] = "createWait"
  /\ Found(Root, draft[Root])
  /\ tf' = [tf EXCEPT ![Root] = Entry(Root, draft[Root])]
  /\ Returned(Root, "done")
  /\ UNCHANGED adrift

\* A failed read-back returns before anything is saved.
EnvironmentUnread ==
  /\ todo[Root] = "createWait"
  /\ adrift' = adrift \cup {<<Root, draft[Root]>>}
  /\ Returned(Root, "failed")
  /\ UNCHANGED tf

BecomesActive(n) ==
  /\ n # Root
  /\ todo[n] = "createWait"
  /\ rows[n][draft[n]].st = "active"
  /\ tf' = [tf EXCEPT ![n] = Entry(n, draft[n])]
  /\ Returned(n, "done")
  /\ UNCHANGED adrift

\* Mutation: the row is not in the state before its wait.
NeverActiveUnsaved(n) ==
  /\ n # Root
  /\ todo[n] = "createWait"
  /\ Returned(n, "failed")
  /\ UNCHANGED <<tf, adrift>>

\* The wait of a cluster or network fails over a saved row, which is tainted.
NeverActive(n) ==
  /\ n # Root
  /\ todo[n] = "createWait"
  /\ tf' = [tf EXCEPT ![n] = [Entry(n, draft[n]) EXCEPT !.tainted = TRUE]]
  /\ Returned(n, "failed")
  /\ UNCHANGED adrift

Deleted(n) ==
  /\ tf' = [tf EXCEPT ![n] = NoEntry]
  /\ todo' = [todo EXCEPT ![n] = IF n \in again THEN "create" ELSE "done"]

DeleteRow(n) == IF Found(n, tf[n].g) THEN Teardown(n, tf[n].g) ELSE UNCHANGED rows

\* Environment, vDC and published app: 202 (or 404) is the end of it.
DeleteAtOnce(n) ==
  /\ CanDelete(n)
  /\ ~Polled(n)
  /\ DeleteRow(n)
  /\ Deleted(n)
  /\ UNCHANGED <<want, phase, again, draft, verdict, adrift>>

\* Cluster, ingress, egress and network: 202 and 404 both start the wait.
DeletePolled(n) ==
  /\ CanDelete(n)
  /\ Polled(n)
  /\ DeleteRow(n)
  /\ todo' = [todo EXCEPT ![n] = "deleteWait"]
  /\ UNCHANGED <<want, tf, phase, again, draft, verdict, adrift>>

\* The request fails, before or after the server acted on it.
DeleteFails(n) ==
  /\ CanDelete(n)
  /\ UNCHANGED rows \/ DeleteRow(n)
  /\ todo' = [todo EXCEPT ![n] = "failed"]
  /\ UNCHANGED <<want, tf, phase, again, draft, verdict, adrift>>

DeleteGone(n) ==
  /\ todo[n] = "deleteWait"
  /\ ~Found(n, tf[n].g)
  /\ Deleted(n)
  /\ UNCHANGED <<rows, want, phase, again, draft, verdict, adrift>>

\* The deadline passes, or a GET fails: the waits of rules and networks do not
\* retry it.
DeleteWaitFails(n) ==
  /\ todo[n] = "deleteWait"
  /\ todo' = [todo EXCEPT ![n] = "failed"]
  /\ UNCHANGED <<rows, want, tf, phase, again, draft, verdict, adrift>>

-----------------------------------------------------------------------------
User == Start \/ Crash \/ \E w \in Configurations : Configure(w)

Server == \E n \in Nodes, g \in Gens : Settle(n, g) \/ Reap(n, g)

\* At most one node's configuration changes between two runs.
Run ==
  \/ ReadFails \/ EndRun
  \/ Plan({}) \/ \E n \in Nodes : Plan({n})
  \/ EnvironmentRead \/ EnvironmentUnread
  \/ \E n \in Nodes : \/ Read(n)
                      \/ CreateRefused(n) \/ BecomesActive(n) \/ NeverActive(n)
                      \/ DeleteAtOnce(n) \/ DeletePolled(n) \/ DeleteFails(n)
                      \/ DeleteGone(n) \/ DeleteWaitFails(n)
                      \/ \E g \in Gens : \/ CreateAtOnce(n, g) \/ CreateAwaited(n, g)
                                         \/ CreateRetried(n, g) \/ CreateUnanswered(n, g)

Next == User \/ Server \/ Run

Spec == Init /\ [][Next]_vars

\* Terraform walks on while any node can move, and every wait has a deadline.
FairSpec == Spec /\ WF_vars(Run)

-----------------------------------------------------------------------------
(* Properties.                                                             *)

\* Every variable has its type; a Create in flight belongs to a run.
TypeOK ==
  /\ rows \in [Nodes -> [Gens -> Rows]]
  /\ want \subseteq Nodes
  /\ tf \in [Nodes -> Entries]
  /\ phase \in {"idle", "refresh", "walk"}
  /\ todo \in [Nodes -> Chores]
  /\ again \subseteq Nodes
  /\ draft \in [Nodes -> 0..MaxGen]
  /\ verdict \in {"none", "clean", "failed"}
  /\ adrift \subseteq Nodes \X Gens
  /\ \A n \in Nodes : draft[n] # 0 <=> phase = "walk" /\ todo[n] = "createWait"

\* A row no teardown was accepted for is in the saved state or in the hands of
\* a running Create, unless a fault struck before it could be saved.
NoOrphan ==
  \A n \in Nodes, g \in Gens : Live(n, g) => g \in {tf[n].g, draft[n]} \/ <<n, g>> \in adrift

\* The gone-waits exist for this: when a DELETE of a cluster, vDC or environment
\* is sent, no row that refers to it is left but ones lost to a fault and vDCs,
\* whose teardown nobody polls.
ParentsGoLast ==
  [][\A n \in Nodes : todo[n] = "delete" /\ todo'[n] # "delete" /\ phase' = "walk" =>
       \A c \in Children(n), g \in Gens :
         rows[c][g].st \in {"pending", "active", "leaving"} /\ rows[c][g].up = tf[n].g
           => <<c, g>> \in adrift \/ (Kind[c] = "vdc" /\ rows[c][g].st = "leaving")]_vars

\* A clean run has done all it was asked to: what is configured is in the
\* state, and nothing else; the next plan would replace nothing; and every node
\* stands for a row below the very row its parent stands for, for a parent that
\* was replaced, or made anew after a drift, takes what refers to it along.
CleanRunIsWhole ==
  verdict = "clean" =>
    /\ \A n \in Nodes : n \in want <=> tf[n] # NoEntry
    /\ \A n \in want : ~Renewed(n, {})
    /\ \A n \in want \ {Root} :
         /\ tf[n].up = tf[Parent[n]].g
         /\ Found(n, tf[n].g) => rows[n][tf[n].g].up = tf[Parent[n]].g

\* Nothing outlives what takes it along: whoever asked for which teardown, in
\* whatever order they finish, a cluster, rule or vDC goes no later than its
\* environment, an app than its cluster and a network than its vDC.
Present == {"pending", "active", "leaving"}
NothingOutlives ==
  \A c \in Nodes, h \in Gens : rows[c][h].st \in Present =>
    \A n \in Nodes, g \in Gens : Cascades(n, g, c, h) =>
      rows[n][g].st \in Present /\ (Live(c, h) => Live(n, g))

\* The environment is the backstop: after a clean destroy, what a lost answer
\* left behind is gone with its environment, or that environment was lost too.
DestroySweeps ==
  verdict = "clean" /\ want = {} =>
    \A n \in Nodes, g \in Gens : Live(n, g) => <<Root, rows[n][g].env>> \in adrift

\* A changed attribute forces a new environment: a replacement does not end on
\* the environment whose teardown it has just asked for.
EnvironmentIsNew ==
  phase = "walk" /\ Root \in again /\ todo[Root] = "done" =>
    Live(Root, tf[Root].g)

\* Only failures hold a run back: when it ends, a delete that was not sent waits
\* for a node below that has failed, and a create for a node above that has failed
\* or could not be deleted.  No two nodes wait for each other, whatever is
\* created, replaced and deleted at once, and a run without a failure is clean.
OnlyFailuresHoldBack ==
  [][EndRun =>
       /\ \A n \in Nodes :
            /\ todo[n] = "delete" =>
                 \E m \in Nodes : todo[m] = "failed" /\ n \in Upwards(m)
            /\ todo[n] = "create" =>
                 \E a \in Upwards(n) : todo[a] \in {"failed", "delete"}
       /\ (\A n \in Nodes : todo[n] # "failed") => verdict' = "clean"]_vars

\* No run hangs: no create and no delete waits for one that will never come.
RunsEnd == phase # "idle" ~> phase = "idle"

\* The custody of the rows below the environment, of any number of nodes at
\* once: a row is born into the state or a running Create, or lost; a POST
\* takes over only a live row; whatever a cascade, a failed read or a killed
\* process does, only torn-down rows are let go of.  The environment itself is
\* left out: its POST takes over one that is being torn down (EnvironmentIsNew).
Below == (Nodes \ {Root}) \X Gens
Custodian == INSTANCE Custody WITH
  Ids <- Below,
  live <- {row \in Below : Live(row[1], row[2])},
  dead <- {row \in Below : rows[row[1]][row[2]].st \in {"leaving", "gone"}},
  held <- {row \in Below : row[2] \in {tf[row[1]].g, draft[row[1]]}},
  adrift <- adrift \cap Below
KeepsCustody == Custodian!Spec
=============================================================================
