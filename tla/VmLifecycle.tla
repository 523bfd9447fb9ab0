----------------------------- MODULE VmLifecycle -----------------------------
(***************************************************************************)
(* One fcs_vm resource: the VM rows of the FCS API with the live KubeVirt  *)
(* phase behind each, the provider's Create, Read, Update (power), Delete  *)
(* and Import with their wait loops, and the Terraform run around them.    *)
(*                                                                         *)
(* The ordinary read of a VM shows the desired power state the moment a    *)
(* stop or start is accepted; only the status endpoint shows the phase the *)
(* VM is really in.  Every attribute but running forces a replacement and  *)
(* is left out.  As in ClusterLifecycle a request and the answer acted     *)
(* upon are one step and a poll that changes nothing is a stutter.         *)
(***************************************************************************)
EXTENDS Naturals, FiniteSets

CONSTANTS
  Ids,       \* server-assigned VM ids
  NoId,
  Setups     \* what to look at: named, the configuration names the VM, and POST is
             \* idempotent over the name; readback, the API returns the VM
             \* specification (vmHasSpecReadback)

ASSUME ConstantsAssumption ==
  /\ NoId \notin Ids
  /\ Setups \subseteq [named : BOOLEAN, readback : BOOLEAN]

VARIABLES
  setup,     \* one of Setups
  rows,      \* the API's vms table
  cfg,       \* the configured power state, or "absent"
  tf,        \* the resource's entry in the saved Terraform state
  pc,        \* where the running operation is
  draft,     \* resp.State of the running Create
  watch,     \* waitForVmPowerState: initialObserved, initialFailure, leftInitialFailure
  replacing, \* the running Delete is the first half of a replacement
  verdict,   \* how the last run ended; "blamed" is a failure seen in the live phase
  adrift,    \* history: rows whose creation was lost to a fault
  released,  \* history: rows the saved state has let go of
  owed       \* history: the live phase an accepted power call has not reached yet

vars == <<setup, rows, cfg, tf, pc, draft, watch, replacing, verdict, adrift, released, owed>>

OptIds == Ids \cup {NoId}
RowStatuses == {"unborn", "provisioning", "active", "stopped", "error", "destroyed", "gone"}
ShownStatuses == {"provisioning", "active", "stopped", "error", "destroyed"}
Phases == {"Pending", "Running", "Stopped", "Failed"}

\* leaving: a teardown was accepted and has not finished.  fresh: the live
\* failure began after the resource's own last power call.
Rows == [st : RowStatuses, running : BOOLEAN, phase : Phases,
         leaving : BOOLEAN, fresh : BOOLEAN]
Unborn == [st |-> "unborn", running |-> FALSE, phase |-> "Pending",
           leaving |-> FALSE, fresh |-> FALSE]

Entries == [id : OptIds, running : BOOLEAN, status : ShownStatuses \cup {"null"},
            tainted : BOOLEAN]
NoEntry == [id |-> NoId, running |-> FALSE, status |-> "null", tainted |-> FALSE]

Points == {"idle", "refresh", "plan", "create", "createWait", "update", "powerWait",
           "powerRead", "delete", "deleteWait"}

Init ==
  /\ setup \in Setups
  /\ rows = [i \in Ids |-> Unborn]
  /\ cfg = "absent"
  /\ tf = NoEntry
  /\ pc = "idle"
  /\ draft = NoEntry
  /\ watch = "none"
  /\ replacing = FALSE
  /\ verdict = "none"
  /\ adrift = {}
  /\ released = {}
  /\ owed = "none"

-----------------------------------------------------------------------------
(* The server.                                                             *)

Torn == {"destroyed", "gone"}
LiveRows == {i \in Ids : rows[i].st \notin Torn \cup {"unborn"}}

\* Mutation: a torn-down VM keeps answering.
FoundForever(i) == i \in Ids

\* GET .../vms/{id}: a destroyed row stays readable for a while.
Found(i) == i \in Ids /\ rows[i].st \notin {"unborn", "gone"}

\* A row no teardown was accepted for: what POST, power and status work on.
Existing(i) ==
  i \in Ids /\ rows[i].st \in {"provisioning", "active", "stopped", "error"} /\ ~rows[i].leaving

\* Mutation: every POST makes a VM.
PostAgain(i, running) ==
  /\ rows[i].st = "unborn"
  /\ rows' = [rows EXCEPT ![i] = [Unborn EXCEPT !.st = "provisioning", !.running = running]]

\* POST is idempotent over (environment, name); without a name the server
\* generates one and every POST makes another VM.
Post(i, running) ==
  \/ setup.named /\ Existing(i) /\ UNCHANGED rows
  \/ /\ setup.named => \A j \in Ids : ~Existing(j)
     /\ rows[i].st = "unborn"
     /\ rows' = [rows EXCEPT ![i] = [Unborn EXCEPT !.st = "provisioning", !.running = running]]

\* The power endpoint mirrors stop/start into the row at once; the live phase
\* follows, if it follows.
PowerStatus(running) == IF running THEN "active" ELSE "stopped"
PowerRow(i, running) ==
  /\ Existing(i)
  /\ rows' = [rows EXCEPT ![i].st = PowerStatus(running), ![i].running = running,
                          ![i].fresh = FALSE]

\* DELETE on a deleted or unknown row is answered like a first one.
DeleteRow(i) ==
  \/ Existing(i) /\ rows' = [rows EXCEPT ![i].leaving = TRUE]
  \/ Existing(i) /\ rows' = [rows EXCEPT ![i].st = "destroyed"]
  \/ ~Existing(i) /\ UNCHANGED rows

ServerOnly ==
  UNCHANGED <<setup, cfg, tf, pc, draft, watch, replacing, verdict, adrift, released, owed>>

\* Provisioning ends, a teardown finishes, a destroyed row vanishes.
Settle(i) ==
  /\ \/ /\ rows[i].st = "provisioning" /\ ~rows[i].leaving
        /\ \/ rows' = [rows EXCEPT ![i].st = PowerStatus(rows[i].running),
                         ![i].phase = IF rows[i].running THEN "Running" ELSE "Stopped"]
           \/ rows' = [rows EXCEPT ![i].st = "error", ![i].phase = "Failed", ![i].fresh = TRUE]
     \/ rows[i].leaving /\ rows' = [rows EXCEPT ![i].st = "destroyed", ![i].leaving = FALSE]
     \/ rows[i].st = "destroyed" /\ rows' = [rows EXCEPT ![i].st = "gone"]
  /\ ServerOnly

\* KubeVirt moves the VM towards its desired power state, or it fails.
Converge(i) ==
  /\ Existing(i)
  /\ rows[i].st \in {"active", "stopped"}
  /\ \E p \in {"Pending", "Failed", IF rows[i].running THEN "Running" ELSE "Stopped"} :
       /\ p # rows[i].phase
       /\ rows' = [rows EXCEPT ![i].phase = p, ![i].fresh = (p = "Failed")]
  /\ ServerOnly

\* The TTL reaper or another client tears the VM down, or toggles its power.
OutOfBand(i) ==
  /\ Existing(i)
  /\ \/ \E st \in Torn : rows' = [rows EXCEPT ![i].st = st]
     \/ rows' = [rows EXCEPT ![i].leaving = TRUE]
     \/ \E running \in BOOLEAN :
          rows' = [rows EXCEPT ![i].st = PowerStatus(running), ![i].running = running]
  /\ ServerOnly

-----------------------------------------------------------------------------
(* Terraform around the provider.                                          *)

Return(v, e) ==
  /\ pc' = "idle"
  /\ verdict' = v
  /\ tf' = e
  /\ released' = released \cup ({tf.id} \ {e.id, NoId})
  /\ draft' = NoEntry
  /\ watch' = "none"
  /\ replacing' = FALSE

Goto(p) == pc' = p /\ UNCHANGED <<tf, verdict, released>>

Configure(c) ==
  /\ pc = "idle"
  /\ cfg' = c
  /\ verdict' = "none"
  /\ UNCHANGED <<setup, rows, tf, pc, draft, watch, replacing, adrift, released, owed>>

StartRun ==
  /\ pc = "idle"
  /\ pc' = IF tf = NoEntry THEN "plan" ELSE "refresh"
  /\ verdict' = "none"
  /\ UNCHANGED <<rows, setup, cfg, tf, draft, watch, replacing, adrift, released, owed>>

Crash ==
  /\ pc # "idle"
  /\ Return("none", tf)
  /\ adrift' = adrift \cup ({draft.id} \ {tf.id, NoId})
  /\ UNCHANGED <<rows, setup, cfg, owed>>

\* vmTimeoutErr's advice for a healthy VM whose create wait timed out.
Untaint ==
  /\ pc = "idle"
  /\ tf.tainted
  /\ rows[tf.id].st \in {"active", "stopped"}
  /\ tf' = [tf EXCEPT !.tainted = FALSE]
  /\ verdict' = "none"
  /\ UNCHANGED <<rows, setup, cfg, pc, draft, watch, replacing, adrift, released, owed>>

-----------------------------------------------------------------------------
(* The provider.                                                           *)

Wanted == cfg = "running"
PhaseOf(running) == IF running THEN "Running" ELSE "Stopped"

\* setVmState keeps running as stated; setVmReadState takes it from the API.
SetVmState(e, i) == [e EXCEPT !.id = i, !.status = rows[i].st]
SetVmReadState(e, i) ==
  [SetVmState(e, i) EXCEPT !.running = IF setup.readback THEN rows[i].running ELSE e.running]

\* Mutation: an import does not ask whether the VM is destroyed.
ImportDestroyed(i) ==
  /\ pc = "idle"
  /\ tf = NoEntry
  /\ setup.readback
  /\ Found(i)
  /\ tf' = SetVmReadState(NoEntry, i)
  /\ adrift' = adrift \ {i}
  /\ verdict' = "none"
  /\ UNCHANGED <<rows, setup, cfg, pc, draft, watch, replacing, released, owed>>

\* Import needs the specification to rebuild a state that plans no replacement.
Import(i) ==
  /\ pc = "idle"
  /\ tf = NoEntry
  /\ setup.readback
  /\ Found(i)
  /\ rows[i].st # "destroyed"
  /\ tf' = SetVmReadState(NoEntry, i)
  /\ adrift' = adrift \ {i}
  /\ verdict' = "none"
  /\ UNCHANGED <<rows, setup, cfg, pc, draft, watch, replacing, released, owed>>

Read ==
  /\ pc = "refresh"
  /\ \/ /\ Found(tf.id)
        /\ rows[tf.id].st # "destroyed"
        /\ tf' = SetVmReadState(tf, tf.id)
        /\ UNCHANGED <<released, owed>>
     \/ /\ ~Found(tf.id) \/ rows[tf.id].st = "destroyed"
        /\ tf' = NoEntry
        /\ released' = released \cup {tf.id}
        /\ owed' = "none"
  /\ pc' = "plan"
  /\ UNCHANGED <<rows, setup, cfg, draft, watch, replacing, verdict, adrift>>

\* Any error but 404 ends the run: Read does not retry.
ReadFails ==
  /\ pc = "refresh"
  /\ Return("failed", tf)
  /\ UNCHANGED <<rows, setup, cfg, adrift, owed>>

PlanNothing ==
  /\ pc = "plan"
  /\ IF tf = NoEntry THEN cfg = "absent"
     ELSE cfg # "absent" /\ ~tf.tainted /\ tf.running = Wanted
  /\ Return("clean", tf)
  /\ UNCHANGED <<rows, setup, cfg, adrift, owed>>

PlanCreate ==
  /\ pc = "plan"
  /\ tf = NoEntry
  /\ cfg # "absent"
  /\ Goto("create")
  /\ UNCHANGED <<rows, setup, cfg, draft, watch, replacing, adrift, owed>>

\* running or the timeouts block changed.
PlanUpdate ==
  /\ pc = "plan"
  /\ tf # NoEntry
  /\ cfg # "absent"
  /\ ~tf.tainted
  /\ Goto("update")
  /\ UNCHANGED <<rows, setup, cfg, draft, watch, replacing, adrift, owed>>

PlanDelete ==
  /\ pc = "plan"
  /\ tf # NoEntry
  /\ cfg = "absent" \/ tf.tainted
  /\ Goto("delete")
  /\ replacing' = (cfg # "absent")
  /\ UNCHANGED <<rows, setup, cfg, draft, watch, adrift, owed>>

\* Create: the accepted row is in resp.State before the first poll.
Create(i) ==
  /\ pc = "create"
  /\ Post(i, Wanted)
  /\ draft' = [id |-> i, running |-> Wanted, status |-> rows'[i].st, tainted |-> FALSE]
  /\ adrift' = adrift \ {i}
  /\ Goto("createWait")
  /\ UNCHANGED <<setup, cfg, watch, replacing, owed>>

CreateUnanswered(i) ==
  /\ pc = "create"
  /\ Post(i, Wanted)
  /\ adrift' = adrift \cup {i}
  /\ Return("failed", NoEntry)
  /\ UNCHANGED <<setup, cfg, owed>>

CreateRefused ==
  /\ pc = "create"
  /\ Return("failed", NoEntry)
  /\ UNCHANGED <<rows, setup, cfg, adrift, owed>>

\* waitForVmStatus: the target is the status of the configured power state.
CreateReady ==
  /\ pc = "createWait"
  /\ Found(draft.id)
  /\ rows[draft.id].st = PowerStatus(draft.running)
  /\ Return("clean", SetVmState(draft, draft.id))
  /\ UNCHANGED <<rows, setup, cfg, adrift, owed>>

CreateBroken ==
  /\ pc = "createWait"
  /\ Found(draft.id)
  /\ rows[draft.id].st \in {"error", "destroyed"}
  /\ Return("failed", [SetVmState(draft, draft.id) EXCEPT !.tainted = TRUE])
  /\ UNCHANGED <<rows, setup, cfg, adrift, owed>>

\* Mutation: the state is written after the wait only.
CreateWaitAbortsUnsaved ==
  /\ pc = "createWait"
  /\ Return("failed", NoEntry)
  /\ UNCHANGED <<rows, setup, cfg, adrift, owed>>

\* Deadline, cancellation, or a GET that fails for good (404 too).
CreateWaitAborts ==
  /\ pc = "createWait"
  /\ Return("failed", [draft EXCEPT !.tainted = TRUE])
  /\ UNCHANGED <<rows, setup, cfg, adrift, owed>>

\* Update: a changed running goes through the power endpoint.
Power ==
  /\ pc = "update"
  /\ tf.running # Wanted
  /\ PowerRow(tf.id, Wanted)
  /\ owed' = PhaseOf(Wanted)
  /\ Goto("powerWait")
  /\ UNCHANGED <<setup, cfg, draft, watch, replacing, adrift>>

\* The call is applied and its answer lost, or it is refused.
PowerFails ==
  /\ pc = "update"
  /\ tf.running # Wanted
  /\ UNCHANGED rows \/ PowerRow(tf.id, Wanted)
  /\ Return("failed", tf)
  /\ UNCHANGED <<setup, cfg, adrift, owed>>

SkipPower ==
  /\ pc = "update"
  /\ tf.running = Wanted
  /\ Goto("powerRead")
  /\ UNCHANGED <<rows, setup, cfg, draft, watch, replacing, adrift, owed>>

\* waitForVmPowerState on the live phase.  A failure on the first observation
\* may be the one the power call is to remedy.
PowerSeesOther ==
  /\ pc = "powerWait"
  /\ Existing(tf.id)
  /\ rows[tf.id].phase # PhaseOf(Wanted)
  /\ IF rows[tf.id].phase = "Failed"
     THEN watch \in {"none", "failed"} /\ watch' = "failed"
     ELSE watch' = IF watch = "none" THEN "healthy"
                   ELSE IF watch = "failed" THEN "left" ELSE watch
  /\ UNCHANGED <<rows, setup, cfg, tf, pc, draft, replacing, verdict, adrift, released, owed>>

\* Mutation: the ordinary read, which mirrors the desired state, ends the wait.
PowerSettledOnDesired ==
  /\ pc = "powerWait"
  /\ Existing(tf.id)
  /\ rows[tf.id].st = PowerStatus(Wanted)
  /\ owed' = IF rows[tf.id].phase = owed THEN "none" ELSE owed
  /\ Goto("powerRead")
  /\ UNCHANGED <<rows, setup, cfg, draft, watch, replacing, adrift>>

PowerSettled ==
  /\ pc = "powerWait"
  /\ Existing(tf.id)
  /\ rows[tf.id].phase = PhaseOf(Wanted)
  /\ owed' = IF owed = PhaseOf(Wanted) THEN "none" ELSE owed
  /\ Goto("powerRead")
  /\ UNCHANGED <<rows, setup, cfg, draft, watch, replacing, adrift>>

\* Mutation: the first failure seen is blamed on the power call.
PowerBrokenAtOnce ==
  /\ pc = "powerWait"
  /\ Existing(tf.id)
  /\ rows[tf.id].phase = "Failed"
  /\ Return("blamed", tf)
  /\ UNCHANGED <<rows, setup, cfg, adrift, owed>>

PowerBroken ==
  /\ pc = "powerWait"
  /\ Existing(tf.id)
  /\ rows[tf.id].phase = "Failed"
  /\ watch \in {"healthy", "left"}
  /\ Return("blamed", tf)
  /\ UNCHANGED <<rows, setup, cfg, adrift, owed>>

\* Deadline, cancellation, or a permanent error: the status of a destroyed VM
\* is a 404.  The prior state is kept.
PowerWaitAborts ==
  /\ pc = "powerWait"
  /\ Return("failed", tf)
  /\ UNCHANGED <<rows, setup, cfg, adrift, owed>>

\* The closing GET of Update writes the plan and the observed fields.
PowerRead ==
  /\ pc = "powerRead"
  /\ Found(tf.id)
  /\ Return("clean", SetVmState([tf EXCEPT !.running = Wanted], tf.id))
  /\ UNCHANGED <<rows, setup, cfg, adrift, owed>>

PowerReadFails ==
  /\ pc = "powerRead"
  /\ Return("failed", tf)
  /\ UNCHANGED <<rows, setup, cfg, adrift, owed>>

Delete ==
  /\ pc = "delete"
  /\ DeleteRow(tf.id)
  /\ Goto("deleteWait")
  /\ UNCHANGED <<setup, cfg, draft, watch, replacing, adrift, owed>>

DeleteFails ==
  /\ pc = "delete"
  /\ UNCHANGED rows \/ DeleteRow(tf.id)
  /\ Return("failed", tf)
  /\ UNCHANGED <<setup, cfg, adrift, owed>>

\* Mutation: an accepted DELETE is the end of it.
DeleteDoneOnAccept ==
  /\ pc = "deleteWait"
  /\ Return("clean", NoEntry)
  /\ owed' = "none"
  /\ UNCHANGED <<rows, setup, cfg, adrift>>

\* waitForVmGone: 404 or destroyed.  A replacement goes on to create.
DeleteDone ==
  /\ pc = "deleteWait"
  /\ ~Found(tf.id) \/ rows[tf.id].st = "destroyed"
  /\ IF replacing
     THEN /\ pc' = "create"
          /\ tf' = NoEntry
          /\ released' = released \cup {tf.id}
          /\ replacing' = FALSE
          /\ UNCHANGED <<draft, watch, verdict>>
     ELSE Return("clean", NoEntry)
  /\ owed' = "none"
  /\ UNCHANGED <<rows, setup, cfg, adrift>>

DeleteWaitAborts ==
  /\ pc = "deleteWait"
  /\ Return("failed", tf)
  /\ UNCHANGED <<rows, setup, cfg, adrift, owed>>

-----------------------------------------------------------------------------
User ==
  \/ \E c \in {"absent", "running", "stopped"} : Configure(c)
  \/ StartRun
  \/ Crash
  \/ Untaint
  \/ \E i \in Ids : Import(i)

Server == \E i \in Ids : Settle(i) \/ Converge(i) \/ OutOfBand(i)

Provider ==
  \/ Read \/ ReadFails
  \/ PlanNothing \/ PlanCreate \/ PlanUpdate \/ PlanDelete
  \/ \E i \in Ids : Create(i) \/ CreateUnanswered(i)
  \/ CreateRefused \/ CreateReady \/ CreateBroken \/ CreateWaitAborts
  \/ Power \/ PowerFails \/ SkipPower
  \/ PowerSeesOther \/ PowerSettled \/ PowerBroken \/ PowerWaitAborts
  \/ PowerRead \/ PowerReadFails
  \/ Delete \/ DeleteFails \/ DeleteDone \/ DeleteWaitAborts

Next == User \/ Server \/ Provider

Spec == Init /\ [][Next]_vars

-----------------------------------------------------------------------------
(* Properties.                                                             *)

\* Every variable has its type.
TypeOK ==
  /\ setup \in Setups
  /\ rows \in [Ids -> Rows]
  /\ cfg \in {"absent", "running", "stopped"}
  /\ tf \in Entries
  /\ pc \in Points
  /\ draft \in Entries
  /\ watch \in {"none", "healthy", "failed", "left"}
  /\ replacing \in BOOLEAN
  /\ verdict \in {"none", "clean", "failed", "blamed"}
  /\ adrift \subseteq Ids
  /\ released \subseteq Ids
  /\ owed \in {"none", "Running", "Stopped"}

\* Persist before poll: a VM that is not torn down is in the saved state or in
\* the state the running Create returns, unless a fault struck.
NoOrphan == \A i \in LiveRows : i \in {tf.id, draft.id} \cup adrift

\* Delete, a replacement and Read's drift handling let go of a VM only once it
\* is destroyed or gone.
ReleasedAreTorn == \A i \in released : rows[i].st \in Torn

\* A named VM exists once: whatever answers were lost, a run that ends clean
\* with a VM that no teardown was accepted for leaves no second one behind.
NamedVmIsUnique ==
  setup.named /\ verdict = "clean" /\ Existing(tf.id) => \A i \in Ids : Existing(i) => i = tf.id

\* waitForVmPowerState blames a power call only for a failure that began after
\* it: the failure the call was made to remedy does not fail the update.
BlamesOnlyNewFailures ==
  [][verdict' = "blamed" /\ verdict # "blamed" => rows[tf.id].fresh]_vars

\* A run that ends clean has seen every power state it asked for in the live
\* phase, not in the ordinary read that mirrors the desired one at once.
PowerConfirmed == verdict = "clean" /\ cfg # "absent" => owed # PhaseOf(Wanted)

\* So it is where the API returns no specification for the refresh to copy.
PowerConfirmedWithoutReadback == ~setup.readback => PowerConfirmed

\* The custody of the VM rows.
Custodian == INSTANCE Custody WITH
  live <- LiveRows,
  dead <- {i \in Ids : rows[i].st \in Torn},
  held <- {tf.id, draft.id} \ {NoId},
  adrift <- adrift
KeepsCustody == Custodian!Spec
=============================================================================
