--------------------------- MODULE ClusterLifecycle ---------------------------
(***************************************************************************)
(* One fcs_business_cluster / fcs_flex_cluster resource: the cluster rows  *)
(* of the FCS API, the provider's Create, Read, Update, Delete and Import  *)
(* with their wait loops, and the Terraform run around them (refresh,      *)
(* plan, apply; a resource whose Create failed is tainted).                *)
(*                                                                         *)
(* A sizing is one member of Sizes; Storage gives the disk it implies.  A  *)
(* t-shirt alias and a custom sizing that the API resolves to the same     *)
(* numbers are the same member, told apart by the field that carries it.   *)
(* A request and the answer the handler acts upon are one step, so other   *)
(* actors move between any two requests.  A poll that changes nothing (the *)
(* cluster is still being provisioned, the GET failed with a retryable     *)
(* error) is a stuttering step.                                            *)
(***************************************************************************)
EXTENDS Naturals, FiniteSets

CONSTANTS
  Ids,          \* server-assigned cluster ids
  NoId,
  Sizes,        \* the sizings a configuration can ask for
  NoSize,       \* null (or unknown, which an apply resolves to null)
  DefaultSize,  \* what the server picks when a create names no sizing
  Storage       \* storage_gb of each sizing

ASSUME ConstantsAssumption ==
  /\ NoId \notin Ids
  /\ NoSize \notin Sizes
  /\ DefaultSize \in Sizes
  /\ Storage \in [Sizes -> Nat]

VARIABLES
  rows,       \* the API's clusters table
  cfg,        \* the user's configuration of the resource
  tf,         \* the resource's entry in the saved Terraform state
  pc,         \* where the running operation is
  draft,      \* resp.State of the running handler
  target,     \* the sizing a resize waits for
  last,       \* waitForClusterResized's last successful observation
  replacing,  \* the running Delete is the first half of a replacement
  verdict,    \* how the last Terraform run ended
  adrift,     \* history: rows whose creation was lost to a fault
  released,   \* history: rows the saved state has let go of
  owed        \* history: an accepted resize no observation has confirmed

vars == <<rows, cfg, tf, pc, draft, target, last, replacing, verdict,
          adrift, released, owed>>

OptSizes == Sizes \cup {NoSize}
OptIds == Ids \cup {NoId}

\* "queued" is a resize the reconciler has not picked up: reads still show the
\* old active row.  "unborn" ids are unused, "gone" ones answer 404 for good.
RowStatuses == {"unborn", "provisioning", "active", "queued", "resizing",
                "error", "offboarding", "destroyed", "gone"}
ShownStatuses == {"provisioning", "active", "resizing", "error",
                  "offboarding", "destroyed"}
Rows == [st : RowStatuses, size : OptSizes, want : OptSizes]

Modes == {"absent", "alias", "custom", "unset"}
Entries == [id : OptIds, alias : OptSizes, custom : OptSizes,
            status : ShownStatuses \cup {"null"}, tainted : BOOLEAN]
NoEntry == [id |-> NoId, alias |-> NoSize, custom |-> NoSize,
            status |-> "null", tainted |-> FALSE]
Observations == [st : ShownStatuses \cup {"null"}, size : OptSizes]
NoObservation == [st |-> "null", size |-> NoSize]

Points == {"idle", "refresh", "plan", "create", "createWait", "update",
           "resizeWait", "delete", "deleteWait"}

Init ==
  /\ rows = [i \in Ids |-> [st |-> "unborn", size |-> NoSize, want |-> NoSize]]
  /\ cfg = [mode |-> "absent", size |-> NoSize]
  /\ tf = NoEntry
  /\ pc = "idle"
  /\ draft = NoEntry
  /\ target = NoSize
  /\ last = NoObservation
  /\ replacing = FALSE
  /\ verdict = "none"
  /\ adrift = {}
  /\ released = {}
  /\ owed = NoSize

-----------------------------------------------------------------------------
(* What a request sees of the server, and the server's own steps.          *)

Torn == {"destroyed", "gone"}
LiveRows == {i \in Ids : rows[i].st \notin Torn \cup {"unborn"}}

\* Mutation: a torn-down cluster keeps answering.
FoundForever(i) == i \in Ids

\* A GET answers 404 for a row that does not exist (any more).
Found(i) == i \in Ids /\ rows[i].st \notin {"unborn", "gone"}

Seen(i) ==
  [st |-> IF rows[i].st = "queued" THEN "active" ELSE rows[i].st,
   size |-> rows[i].size]

\* POST is idempotent over (environment, kind): a row that is not deleted is
\* returned whatever its sizing; else a new row takes a fresh id.
Existing(i) == rows[i].st \in {"provisioning", "active", "queued", "resizing", "error"}

\* Mutation: every POST makes a cluster.
PostAgain(i, size) ==
  /\ rows[i].st = "unborn"
  /\ rows' = [rows EXCEPT ![i] =
                [st |-> "provisioning", size |-> size, want |-> NoSize]]

Post(i, size) ==
  \/ Existing(i) /\ UNCHANGED rows
  \/ /\ \A j \in Ids : ~Existing(j)
     /\ rows[i].st = "unborn"
     /\ rows' = [rows EXCEPT ![i] =
                   [st |-> "provisioning", size |-> size, want |-> NoSize]]

\* PATCH refuses a deleted cluster and storage shrinking.  The row either
\* resizes at once or keeps answering as the old active one for a while.
Patchable(i, size) ==
  /\ Existing(i)
  /\ Storage[size] >= Storage[rows[i].size]

Patch(i, size) ==
  /\ Patchable(i, size)
  /\ \/ rows' = [rows EXCEPT ![i] =
                   [st |-> "resizing", size |-> size, want |-> size]]
     \/ /\ rows[i].st \in {"active", "queued"}
        /\ rows' = [rows EXCEPT ![i].st = "queued", ![i].want = size]

DeleteRow(i) ==
  rows' = IF Existing(i) THEN [rows EXCEPT ![i].st = "offboarding"] ELSE rows

ServerOnly == UNCHANGED <<cfg, tf, pc, draft, target, last, replacing, verdict,
                          adrift, released, owed>>

Reconcile(i) ==
  /\ \/ /\ rows[i].st \in {"provisioning", "resizing"}
        /\ \E st \in {"active", "error"} : rows' = [rows EXCEPT ![i].st = st]
     \/ /\ rows[i].st = "queued"
        /\ rows' = [rows EXCEPT ![i].st = "resizing", ![i].size = rows[i].want]
     \/ /\ rows[i].st = "offboarding"
        /\ rows' = [rows EXCEPT ![i].st = "destroyed"]
     \/ /\ rows[i].st = "destroyed"
        /\ rows' = [rows EXCEPT ![i].st = "gone"]
  /\ ServerOnly

\* The TTL reaper or an operator tears the cluster down: at once, or with the
\* whole environment.
Reap(i) ==
  /\ Existing(i)
  /\ \E st \in {"offboarding", "destroyed", "gone"} :
       rows' = [rows EXCEPT ![i].st = st]
  /\ ServerOnly

-----------------------------------------------------------------------------
(* Terraform around the provider.                                          *)

\* A handler returns to Terraform, which saves the entry it was given.
Return(v, e) ==
  /\ pc' = "idle"
  /\ verdict' = v
  /\ tf' = e
  /\ released' = released \cup ({tf.id} \ {e.id, NoId})
  /\ draft' = NoEntry
  /\ target' = NoSize
  /\ last' = NoObservation
  /\ replacing' = FALSE

Goto(p) == pc' = p /\ UNCHANGED <<tf, verdict, released>>

\* An observation of the tracked row settles an owed resize once it shows the
\* row active at the owed sizing, or in no state to reach it any more.
Settle(o) ==
  owed' = IF \/ o.st \in {"error", "offboarding", "destroyed"}
             \/ o.st = "active" /\ o.size = owed
          THEN NoSize ELSE owed

\* Keeping the entry is not an error verdict of its own: the user is told.
Fail(e) == Return("failed", e)
Done(e) == Return("clean", e)

Configure(c) ==
  /\ pc = "idle"
  /\ cfg' = c
  /\ verdict' = "none"
  /\ UNCHANGED <<rows, tf, pc, draft, target, last, replacing, adrift, released, owed>>

Configurations ==
  {[mode |-> "absent", size |-> NoSize], [mode |-> "unset", size |-> NoSize]}
    \cup [mode : {"alias", "custom"}, size : Sizes]

StartRun ==
  /\ pc = "idle"
  /\ pc' = IF tf = NoEntry THEN "plan" ELSE "refresh"
  /\ verdict' = "none"
  /\ UNCHANGED <<rows, cfg, tf, draft, target, last, replacing, adrift, released, owed>>

\* The process is killed: whatever the handler held was never saved.
Crash ==
  /\ pc # "idle"
  /\ Return("none", tf)
  /\ adrift' = adrift \cup ({draft.id} \ {tf.id, NoId})
  /\ UNCHANGED <<rows, cfg, owed>>

\* After a create timeout the user may accept a healthy tracked cluster.
Untaint ==
  /\ pc = "idle"
  /\ tf.tainted
  /\ rows[tf.id].st = "active"
  /\ tf' = [tf EXCEPT !.tainted = FALSE]
  /\ verdict' = "none"
  /\ UNCHANGED <<rows, cfg, pc, draft, target, last, replacing, adrift, released, owed>>

-----------------------------------------------------------------------------
(* The provider.                                                           *)

\* setClusterState: a configured alias nulls the custom sizing, else the
\* sizing the API reports is taken over.
SetClusterState(e, i, o) ==
  [e EXCEPT !.id = i, !.status = o.st,
            !.custom = IF e.alias # NoSize THEN NoSize ELSE o.size]

\* sizingChanged: the alias decides; an unknown custom sizing is no change.
SizingChanged ==
  \/ tf.alias # (IF cfg.mode = "alias" THEN cfg.size ELSE NoSize)
  \/ cfg.mode = "custom" /\ tf.custom # cfg.size

\* The planned state: req.Plan of the running Create or Update.
Planned(e) ==
  [e EXCEPT !.alias = IF cfg.mode = "alias" THEN cfg.size ELSE NoSize,
            !.custom = IF cfg.mode = "custom" THEN cfg.size
                       ELSE IF cfg.mode = "unset" /\ e.alias = NoSize
                       THEN e.custom ELSE NoSize]

\* Mutation: an import does not ask whether the cluster is destroyed.
ImportDestroyed(i) ==
  /\ pc = "idle"
  /\ tf = NoEntry
  /\ Found(i)
  /\ tf' = SetClusterState(NoEntry, i, Seen(i))
  /\ adrift' = adrift \ {i}
  /\ verdict' = "none"
  /\ Settle(Seen(i))
  /\ UNCHANGED <<rows, cfg, pc, draft, target, last, replacing, released>>

\* ImportState followed by Read, for a cluster that is not in the state.
Import(i) ==
  /\ pc = "idle"
  /\ tf = NoEntry
  /\ Found(i)
  /\ rows[i].st # "destroyed"
  /\ tf' = SetClusterState(NoEntry, i, Seen(i))
  /\ adrift' = adrift \ {i}
  /\ verdict' = "none"
  /\ Settle(Seen(i))
  /\ UNCHANGED <<rows, cfg, pc, draft, target, last, replacing, released>>

Read ==
  /\ pc = "refresh"
  /\ \/ /\ Found(tf.id)
        /\ rows[tf.id].st # "destroyed"
        /\ tf' = SetClusterState(tf, tf.id, Seen(tf.id))
        /\ Settle(Seen(tf.id))
        /\ UNCHANGED released
     \/ /\ ~Found(tf.id) \/ rows[tf.id].st = "destroyed"
        /\ tf' = NoEntry
        /\ released' = released \cup {tf.id}
        /\ owed' = NoSize
  /\ pc' = "plan"
  /\ UNCHANGED <<rows, cfg, draft, target, last, replacing, verdict, adrift>>

\* Read does not retry: any error but 404 ends the run.
ReadFails ==
  /\ pc = "refresh"
  /\ Fail(tf)
  /\ UNCHANGED <<rows, cfg, adrift, owed>>

\* Terraform's plan over the refreshed state, with the provider's ModifyPlan.
PlanNothing ==
  /\ pc = "plan"
  /\ IF tf = NoEntry THEN cfg.mode = "absent"
     ELSE /\ cfg.mode # "absent"
          /\ ~tf.tainted
          /\ ~SizingChanged
          /\ tf.status # "resizing"
  /\ Done(tf)
  /\ UNCHANGED <<rows, cfg, adrift, owed>>

PlanCreate ==
  /\ pc = "plan"
  /\ tf = NoEntry
  /\ cfg.mode # "absent"
  /\ Goto("create")
  /\ UNCHANGED <<rows, cfg, draft, target, last, replacing, adrift, owed>>

\* An Update is due for a new sizing, a resize in progress, or the timeouts
\* block alone.
PlanUpdate ==
  /\ pc = "plan"
  /\ tf # NoEntry
  /\ cfg.mode # "absent"
  /\ ~tf.tainted
  /\ Goto("update")
  /\ draft' = tf
  /\ UNCHANGED <<rows, cfg, target, last, replacing, adrift, owed>>

PlanDelete ==
  /\ pc = "plan"
  /\ tf # NoEntry
  /\ cfg.mode = "absent" \/ tf.tainted
  /\ Goto("delete")
  /\ replacing' = (cfg.mode # "absent")
  /\ UNCHANGED <<rows, cfg, draft, target, last, adrift, owed>>

\* Create: the accepted row is in resp.State before the first poll.
CreateSize == IF cfg.mode = "unset" THEN DefaultSize ELSE cfg.size

Create(i) ==
  /\ pc = "create"
  /\ Post(i, CreateSize)
  /\ draft' = SetClusterState(Planned(NoEntry), i, Seen(i)')
  /\ adrift' = adrift \ {i}
  /\ Goto("createWait")
  /\ UNCHANGED <<cfg, target, last, replacing, owed>>

\* The row is accepted but its answer is lost, or names another kind.
CreateUnanswered(i) ==
  /\ pc = "create"
  /\ Post(i, CreateSize)
  /\ adrift' = adrift \cup {i}
  /\ Fail(NoEntry)
  /\ UNCHANGED <<cfg, owed>>

CreateRefused ==
  /\ pc = "create"
  /\ Fail(NoEntry)
  /\ UNCHANGED <<rows, cfg, adrift, owed>>

\* waitForClusterActive answers with the active cluster.  Terraform refuses
\* a result whose sizing is not the planned one and taints the resource.
CreateActive ==
  /\ pc = "createWait"
  /\ Found(draft.id)
  /\ Seen(draft.id).st = "active"
  /\ LET e == SetClusterState(draft, draft.id, Seen(draft.id))
     IN IF cfg.mode = "custom" /\ e.custom # cfg.size
        THEN Fail([e EXCEPT !.tainted = TRUE])
        ELSE Done(e)
  /\ UNCHANGED <<rows, cfg, adrift, owed>>

\* The cluster shows a status it cannot become active from.
CreateBroken ==
  /\ pc = "createWait"
  /\ Found(draft.id)
  /\ Seen(draft.id).st \in {"error", "offboarding", "destroyed"}
  /\ Fail([SetClusterState(draft, draft.id, Seen(draft.id)) EXCEPT !.tainted = TRUE])
  /\ UNCHANGED <<rows, cfg, adrift, owed>>

\* Mutation: the state is written after the wait only.
CreateWaitAbortsUnsaved ==
  /\ pc = "createWait"
  /\ Fail(NoEntry)
  /\ UNCHANGED <<rows, cfg, adrift, owed>>

\* The deadline passes, the user cancels, or a GET fails for good (404 too).
CreateWaitAborts ==
  /\ pc = "createWait"
  /\ Fail([draft EXCEPT !.tainted = TRUE])
  /\ UNCHANGED <<rows, cfg, adrift, owed>>

\* Only the timeouts changed: no request is made.
UpdateTimeouts ==
  /\ pc = "update"
  /\ ~SizingChanged
  /\ tf.status # "resizing"
  /\ Done(tf)
  /\ UNCHANGED <<rows, cfg, adrift, owed>>

\* Update without a sizing change while the API was resizing: wait for the
\* sizing the API says it is heading for.
RecoverResize ==
  /\ pc = "update"
  /\ ~SizingChanged
  /\ tf.status = "resizing"
  /\ Found(tf.id)
  /\ rows[tf.id].want # NoSize
  /\ draft' = SetClusterState(Planned(tf), tf.id, Seen(tf.id))
  /\ target' = rows[tf.id].want
  /\ Goto("resizeWait")
  /\ UNCHANGED <<rows, cfg, last, replacing, adrift, owed>>

\* size was removed and nothing replaces it: no PATCH, only a GET.
UpdateRefreshes ==
  /\ pc = "update"
  /\ SizingChanged
  /\ cfg.mode = "unset"
  /\ Found(tf.id)
  /\ Done(SetClusterState(Planned(tf), tf.id, Seen(tf.id)))
  /\ Settle(Seen(tf.id))
  /\ UNCHANGED <<rows, cfg, adrift>>

\* The PATCH answer carries desired_spec: the state takes the plan over and
\* the wait begins.
Resize ==
  /\ pc = "update"
  /\ SizingChanged
  /\ cfg.mode # "unset"
  /\ Patch(tf.id, cfg.size)
  /\ draft' = SetClusterState(Planned(tf), tf.id, [st |-> "resizing", size |-> cfg.size])
  /\ target' = cfg.size
  /\ owed' = cfg.size
  /\ Goto("resizeWait")
  /\ UNCHANGED <<cfg, last, replacing, adrift>>

\* The PATCH is applied, its answer lost or unverifiable (another id or kind,
\* no usable desired_spec): resp.State is still the prior state.
ResizeUnverified ==
  /\ pc = "update"
  /\ SizingChanged
  /\ cfg.mode # "unset"
  /\ Patch(tf.id, cfg.size)
  /\ Fail(tf)
  /\ UNCHANGED <<cfg, adrift, owed>>

\* A refused PATCH or a failed GET.
UpdateFails ==
  /\ pc = "update"
  /\ SizingChanged \/ tf.status = "resizing"
  /\ Fail(tf)
  /\ UNCHANGED <<rows, cfg, adrift, owed>>

\* waitForClusterResized: active alone is not enough.
ResizeSeesOther ==
  /\ pc = "resizeWait"
  /\ Found(draft.id)
  /\ LET o == Seen(draft.id)
     IN /\ o.st \in {"provisioning", "resizing", "active"}
        /\ ~(o.st = "active" /\ o.size = target)
        /\ last' = o
  /\ UNCHANGED <<rows, cfg, tf, pc, draft, target, replacing, verdict,
                 adrift, released, owed>>

\* Mutation: active alone ends the wait.
ResizedWhenActive ==
  /\ pc = "resizeWait"
  /\ Found(draft.id)
  /\ Seen(draft.id).st = "active"
  /\ Done(SetClusterState(draft, draft.id, Seen(draft.id)))
  /\ Settle(Seen(draft.id))
  /\ UNCHANGED <<rows, cfg, adrift>>

Resized ==
  /\ pc = "resizeWait"
  /\ Found(draft.id)
  /\ Seen(draft.id).st = "active"
  /\ Seen(draft.id).size = target
  /\ Done(SetClusterState(draft, draft.id, Seen(draft.id)))
  /\ Settle(Seen(draft.id))
  /\ UNCHANGED <<rows, cfg, adrift>>

ResizeBroken ==
  /\ pc = "resizeWait"
  /\ Found(draft.id)
  /\ Seen(draft.id).st \in {"error", "offboarding", "destroyed"}
  /\ Fail(SetClusterState(draft, draft.id, Seen(draft.id)))
  /\ Settle(Seen(draft.id))
  /\ UNCHANGED <<rows, cfg, adrift>>

\* Mutation: the context is consulted after a failed GET only.
ResizeWaitAbortsOnError ==
  /\ pc = "resizeWait"
  /\ ~Found(draft.id)
  /\ Fail(draft)
  /\ UNCHANGED <<rows, cfg, adrift, owed>>

\* Deadline, cancellation or a permanent error: the last observation, if there
\* is one, is what the state keeps.
ResizeWaitAborts ==
  /\ pc = "resizeWait"
  /\ Fail(IF last = NoObservation THEN draft
          ELSE SetClusterState(draft, draft.id, last))
  /\ UNCHANGED <<rows, cfg, adrift, owed>>

\* Delete: 202 and 404 both start the wait.
Delete ==
  /\ pc = "delete"
  /\ DeleteRow(tf.id)
  /\ Goto("deleteWait")
  /\ UNCHANGED <<cfg, draft, target, last, replacing, adrift, owed>>

\* The request fails, before or after the server acted on it.
DeleteFails ==
  /\ pc = "delete"
  /\ UNCHANGED rows \/ DeleteRow(tf.id)
  /\ Fail(tf)
  /\ UNCHANGED <<cfg, adrift, owed>>

\* Mutation: an accepted DELETE is the end of it.
DeleteDoneOnAccept ==
  /\ pc = "deleteWait"
  /\ Done(NoEntry)
  /\ owed' = NoSize
  /\ UNCHANGED <<rows, cfg, adrift>>

\* waitForClusterGone: 404 or destroyed.  A replacement goes on to create.
DeleteDone ==
  /\ pc = "deleteWait"
  /\ ~Found(tf.id) \/ Seen(tf.id).st = "destroyed"
  /\ IF replacing
     THEN /\ pc' = "create"
          /\ tf' = NoEntry
          /\ released' = released \cup {tf.id}
          /\ replacing' = FALSE
          /\ UNCHANGED <<draft, target, last, verdict>>
     ELSE Done(NoEntry)
  /\ owed' = NoSize
  /\ UNCHANGED <<rows, cfg, adrift>>

DeleteWaitAborts ==
  /\ pc = "deleteWait"
  /\ Fail(tf)
  /\ UNCHANGED <<rows, cfg, adrift, owed>>

-----------------------------------------------------------------------------
User ==
  \/ \E c \in Configurations : Configure(c)
  \/ StartRun
  \/ Crash
  \/ Untaint
  \/ \E i \in Ids : Import(i)

Server == \E i \in Ids : Reconcile(i) \/ Reap(i)

Provider ==
  \/ Read \/ ReadFails
  \/ PlanNothing \/ PlanCreate \/ PlanUpdate \/ PlanDelete
  \/ \E i \in Ids : Create(i) \/ CreateUnanswered(i)
  \/ CreateRefused \/ CreateActive \/ CreateBroken \/ CreateWaitAborts
  \/ UpdateTimeouts \/ RecoverResize \/ UpdateRefreshes \/ Resize \/ ResizeUnverified \/ UpdateFails
  \/ ResizeSeesOther \/ Resized \/ ResizeBroken \/ ResizeWaitAborts
  \/ Delete \/ DeleteFails \/ DeleteDone \/ DeleteWaitAborts

Next == User \/ Server \/ Provider

Spec == Init /\ [][Next]_vars

\* Terraform keeps calling the handlers and every wait loop runs under a
\* context deadline, so an operation that can take a step takes one.
FairSpec == Spec /\ WF_vars(Provider)

-----------------------------------------------------------------------------
(* Properties.                                                             *)

\* Every variable has its type.
TypeOK ==
  /\ rows \in [Ids -> Rows]
  /\ cfg \in [mode : Modes, size : OptSizes]
  /\ tf \in Entries
  /\ pc \in Points
  /\ draft \in Entries
  /\ target \in OptSizes
  /\ last \in Observations
  /\ replacing \in BOOLEAN
  /\ verdict \in {"none", "clean", "failed"}
  /\ adrift \subseteq Ids
  /\ released \subseteq Ids
  /\ owed \in OptSizes

\* Persist before poll: a cluster that is not torn down is in the saved state
\* or in the state the running handler returns, unless a fault (a lost answer,
\* a killed process) struck before Terraform could save it.
NoOrphan == \A i \in LiveRows : i \in {tf.id, draft.id} \cup adrift

\* Delete, a replacement and Read's drift handling let go of a cluster only
\* once it is destroyed or gone, so the destroy of the environment that waits
\* for them never starts over a cluster that is still being torn down.
ReleasedAreTorn == \A i \in released : rows[i].st \in Torn

\* Create's POST is idempotent over (environment, kind): a run that ends clean
\* with an active cluster leaves no second cluster behind, whatever answers
\* were lost on the way.
CleanMeansOnlyCluster ==
  verdict = "clean" /\ tf.status = "active" /\ rows[tf.id].st = "active"
    => \A i \in Ids : Existing(i) => i = tf.id

\* With a custom sizing, a run that ends clean has seen the sizing it asked
\* for: active alone is not taken for the end of an accepted resize.
CustomResizeConfirmed ==
  verdict = "clean" /\ cfg.mode = "custom" => owed # cfg.size

\* The same for a t-shirt size.  resizeTimeoutErr tells the user that the
\* same cluster may keep resizing and that the apply is to be run again.
RerunConfirmsResize ==
  verdict = "clean" /\ cfg.mode = "alias" => owed # cfg.size

\* Every operation ends: the waits have deadlines.
OperationsEnd == (pc # "idle") ~> (pc = "idle")

\* The custody of the cluster rows.
Custodian == INSTANCE Custody WITH
  live <- LiveRows,
  dead <- {i \in Ids : rows[i].st \in Torn},
  held <- {tf.id, draft.id} \ {NoId},
  adrift <- adrift
KeepsCustody == Custodian!Spec
=============================================================================
