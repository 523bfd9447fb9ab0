# Verification of terraform-provider-fcs

TLA+ models of the FCS Terraform provider: what its resources do between
Terraform, which saves the state they return, and the FCS API, whose rows live
and die on their own. The question throughout is whether Terraform's state and
the server's rows stay together: nothing live is forgotten, nothing is doubled,
nothing is reported done that nobody has seen.

## The system

| Part | State it keeps | Operations | Hard behaviour |
|---|---|---|---|
| dedicated clusters (`dedicated_cluster_resource.go`, and the cluster resource) | seven node-pool attributes | the cluster's; ValidateConfig at plan and at apply | values that are not known while planning; zeros and defaults in partial requests |
| cluster resources (`cluster_resource.go`, `cluster_wait.go`) | an entry of the Terraform state: id, sizing by alias or by numbers, status | Create, Read, Update (resize), Delete, ImportState, each with a wait loop | persist before poll; a resize seen through stale reads; timeout and re-run; replacement under one idempotency key |
| VM resource (`vm_resource.go`, `vm_wait.go`) | id, running, status | Create, Read, Update (power), Delete, ImportState | the ordinary read mirrors the desired power state; failures older than the power call |
| environment resource | id, attributes | Create with a read-back, Read, Delete without a poll | failed read-back; the name is taken until the teardown ends |
| ingress, egress, published app, IaaS-vDC and network resources | id, parent ids | Create, Read, Delete; the gone-waits | order against their parents; 503 after a commit; waits that do not retry; two blocks with one idempotency key; conflicts with rows nobody has an id of |
| Harbor robot account, registry binding, artifact | metadata, one-time secret, rotation marker | Create, Read, Update with rotation, Delete | PATCH and rotation are two calls; a lost answer loses the secret |
| HTTP client | none | one request per call | lost answers; which failures of a read are retried |
| FCS API (`mockapi.go` in this repository) | the tables of rows | idempotent POSTs, status machines, cascading teardown | asynchronous reconciler, TTL reaper, destroyed rows that stay readable |
| Terraform (outside the repository) | configuration, saved state | refresh, plan, concurrent walk, taint, crash | saves what a handler returned, nothing else |

The provider is stateless: handlers share nothing but the API. A handler gets
plan and prior state, calls the API, and returns a state that Terraform saves,
also when it returns an error. A Create that fails with a state taints the
resource. Resources interact through references (a cluster's id in a rule),
which order the walk, and through the server's cascades.

### What makes each part correct

- Clusters and VMs: a live row is held by the saved state or by the running
  handler unless a fault struck (custody); a row is released only when it is
  destroyed or gone; after a clean run there is one row; a clean run has seen
  the sizing or power state it asked for; every wait ends.
- The stack: parents go after what refers to them; after a clean run every row
  sits below the row its parent stands for; a clean destroy leaves nothing in
  an environment that was not itself lost; every run ends.
- Harbor: the saved secret is the one that works, or the next run rotates.
- Resources that share a table: a clean run has every resource standing for a row
  with its own key, and its own target but where no answer tells the target (an
  ingress rule's port, a cluster's t-shirt size); keys may change hands in any order of the walk,
  and repeated runs sort it out; a row that nobody holds is one whose answer was
  lost.
- Dedicated sizes: no configuration is refused for a value that is not known yet,
  no size that breaks the platform's rules is requested, and what was configured
  is reached, also when it is zero.

## Modules

- `Custody` is the abstract specification: rows that are `live` or `dead`,
  rows that are `held`, rows that are `adrift` since a fault lost their holder.
  A live row is never let go of except by a fault. Teardowns and lost processes
  take sets of rows, so that resources with many rows can refine it. Four
  components do: `ClusterLifecycle`, `VmLifecycle`, `HarborRobot`, and
  `EnvironmentStack` for all rows below the environment at once. The environment
  itself does not: its POST can be answered with an environment that is being torn
  down (`stack_replace`), which no custodian takes over. `NaturalKeys` does not
  either, because it uses ids of dead rows again.
- `ClusterLifecycle` is one cluster resource. `rows` is the server's table,
  `tf` the saved entry, `draft` the handler's `resp.State`, `pc` the point in
  the handler between two requests. Each handler is cut at its requests: `Create`
  is the POST and the `State.Set` after it, `CreateActive`, `CreateBroken` and
  `CreateWaitAborts` the ends of `waitForClusterActive`, and so on for
  `Resize`/`Resized`, `RecoverResize`, `Delete`/`DeleteDone`. A poll that changes
  nothing is a stuttering step, except in the resize wait, which remembers its
  last observation (`last`) because a timeout saves it. `Reconcile` and `Reap`
  are the server's own steps. `queued` is a resize that was accepted and not
  started: reads show the old active row.
- `VmLifecycle` is one VM resource. A row has the status the ordinary read
  shows and the live `phase` the status endpoint shows; `watch` is
  `waitForVmPowerState`'s three booleans.
  `setup`, fixed at the start, says whether the VM is named and whether the API
  reads specifications back.
- `EnvironmentStack` is a whole configuration: nodes with a parent and a kind,
  the refresh, the plan and the concurrent walk. A node's server rows are
  numbered generations.
- `HarborRobot` is one Harbor robot account with its one-time secret. Update is two
  requests, `Patch` and `Rotate`, between which anything may happen.
- `NaturalKeys` is several resources of one type over one table whose POST is
  idempotent over a natural key. `kind` is one of seven resource types, which
  differ in five ways only: whether the POST compares the rest of the request
  (`Compares`: apps, networks, bindings), whether the rest is unique, too
  (`UniqueRest`: a network's CIDR), whether a change of it is an Update
  (`InPlace`: clusters, bindings), whether a handler waits for the row (`Awaited`:
  clusters, networks) and whether the rest is ever read back: not the port of an
  ingress rule and not the alias of a cluster sized by one (`Unreported`), for
  which `setClusterState` keeps the planned `size` and nulls the numbers. Clusters
  are therefore two types, `cluster` with numbers and `tshirt` with an alias. A
  handler is one step, since its waits are the subject of other
  modules; what interleaves is the walk over the resources, the faults and the
  reaper. A PATCH ends in four ways: answered (`Update`), answered without the row
  ever becoming active (`UpdateNeverActive`), applied but unanswered
  (`UpdateUnanswered`), refused (`UpdateRefused`). `strayed` collects the rows whose
  unreported rest is not what the state was left with, which a POST answered with an
  existing row and an unanswered PATCH can do. `calm` ends faults and edits for the
  liveness property.
- `DedicatedSizing` is the sizing of one dedicated cluster: a configuration whose
  attributes are null, unknown or numbers, `Refuses` (schema validators and
  `ValidateConfig`), `Resolve` (the apply validates again once everything is
  known), and the sizes as POST, PATCH (`Pointers` are the fields that a zero does
  not drop) and the API's row have them.
- `ClusterLifecycle_proofs`, `ClusterCustody_proofs`, `VmLifecycle_proofs`,
  `VmCustody_proofs`, `EnvironmentStack_proofs`, `HarborRobot_proofs`,
  `NaturalKeys_proofs` and `DedicatedSizing_proofs` hold the theorems.
- `MC...` modules and `.cfg` files instantiate them.

History variables (`adrift`, `released`, `owed`, `missed`, `disputed`, `hit`,
`strayed`) are read by properties only: no guard of an action depends on them.

Definitions named `...Unsaved`, `...Again`, `...AtOnce` and the like, marked
"Mutation", are not part of a specification: each is a plausible bug that the
property it goes with must notice.

### Abstractions

- A sizing is a model value. A t-shirt alias and the numbers the API resolves it
  to are one value in two fields. `Storage` is the disk it implies, because
  PATCH refuses to shrink it.
- A request and the answer acted upon are one step; an answer that is lost after
  the server acted is an action of its own, as is a request that failed before.
- Readable-as-destroyed and 404 are distinct in the lifecycle modules and merged
  in `EnvironmentStack`, where no kind tells them apart in its wait.
- The mock tears down within the DELETE; the API's statuses and the provider's
  waits say that teardown takes time. Rows therefore pass through `offboarding`
  (or `leaving`) for an arbitrary time, the mock's behaviour being the shortest.
- In `EnvironmentStack` a row is pending, active or leaving; rows in error are
  in the lifecycle modules, where the waits distinguish them.
- An ingress rule in `EnvironmentStack` is an egress rule without the retry of a
  503, so the runs there instantiate the latter.
- In `NaturalKeys` a row is live or not there; a row's `rest` is everything beside
  the key. A cluster there is sized one way, by numbers or by an alias, and its
  storage is never shrunk: a change of the way and the 409 of a shrinking PATCH are
  in `ClusterLifecycle` (two sizings of different storage). Rows of an artifact are keyed by digest: a reference stands for the
  digest it resolves to. A refusal because the cluster of an app is not active is a
  fault (`CreateRefused`, `DeleteFails` before `calm`).
- In `DedicatedSizing` `held` says whether the state has the cluster; the sizes it
  saved are not kept between runs, because every refresh replaces them by the API's
  (`seen`). `cp_ram_gb`, which no rule combines with another attribute, has one
  value in the instance.
- An API that reports no sizing at all (`OmitClusterSizing` in the mock) is left out.

## Runs

| Run | Instance | Shows |
|---|---|---|
| `cluster_safety` | 2 ids, 2 sizings of different storage | types, custody, no orphan, one cluster, confirmed custom resize, refinement of `Custody`, every operation ends |
| `cluster_rerun` | 1 id, 2 sizings | counterexample: a t-shirt resize that timed out is never confirmed |
| `vm_safety` | 2 ids; a named VM with readback, an unnamed one without | the same custody promises, uniqueness, blame, live power state confirmed without readback, refinement |
| `vm_rerun` | 1 id, readback | counterexample: a timed-out power update is never confirmed |
| `stack_rules` | environment, cluster, egress, app, reaper | order of deletes, orphans, nothing outlives its environment, wholeness after a drift, only failures hold a run back, sweep of a destroy |
| `stack_network` | environment, vDC, network, reaper | orphans over the network's waits, order, refinement of `Custody`, every run ends |
| `stack_replace` | environment, vDC, network | counterexample: a replaced environment is the old one |
| `robot_rotation` | 2 accounts, 2 metadata values, 2 markers, 3 secrets | a clean run has the working secret, no step destroys it, no account is orphaned, refinement of `Custody` |
| `keys_shared` | 2 resources, 2 keys, 2 targets, 3 ids, 7 types | clean runs leave and serve what was configured (but for strayed ports and t-shirt sizes), undisturbed runs fail nothing, no orphan, convergence once calm |
| `keys_unreported` | the same, ingress rules and clusters with a t-shirt size | counterexample: the port behind the endpoint, or the size on the server, is not the one in the state |
| `dedicated_sizing` | values on both sides of every floor, at most one unknown | no false refusal, no unsound request, every request reaches the plan, convergence once calm |
| `dedicated_workers` | the same | counterexample: a worker pool without size |

### Bounds, and why they suffice

`Ids` bounds how many rows one resource ever gets. Two are needed for a
replacement, a re-creation after a drift and a second row beside the first. Two
sizings give grow, shrink and a stale observation. `MaxGen` (rows per node) is
the same bound in `EnvironmentStack`: two generations, so that a parent can be
replaced below its children. At its bound a POST has no successful outcome left,
while being refused remains possible, so no run is blocked by a bound. Three or
four nodes (`ReferencesAssumption` is evaluated over all their subsets) give a chain of three and two siblings at its end; a cluster leaves its
rules behind and takes its apps along, so the runs differ in the kinds they
instantiate. `MaxSecret` is three: the saved secret, one that was missed, and one
more.

In `NaturalKeys` two resources and two keys give every hand-over: kept, renamed,
swapped, shared. Three ids suffice for them: a resource that creates has no id
in its entry, so at that moment at most one id is referred to by the other
resource, and at most one more is a live row of the key that is not asked for;
ids of rows that are gone and that nothing refers to are used again. In
`DedicatedSizing` `MaxUnknown` is one unknown attribute per configuration; the
theorem about refusals needs no such bound. The numbers lie on either side of each
floor and each default, and 75 off the 50 GB steps.

### Fairness

`FairSpec` has weak fairness of the provider's steps as a whole (`Provider`,
`Run`): Terraform goes on calling handlers, and every wait loop runs under
`context.WithTimeout`, so an operation that can take a step takes one in the end.
The server gets no fairness: a cluster may provision for ever, and operations end
even so. `NaturalKeys` and `DedicatedSizing` have weak fairness of `Run` as a whole, which
there includes the next run: somebody keeps applying. Their liveness promises
something only after `CalmDown`, from which on no request fails, nothing is
reaped and nobody edits; no step is obliged to calm anything down.
The model's abort actions are always enabled in their waits, which
is what a deadline amounts to when time is left out.

## Proofs

Every safety property that a passing run checks is also a theorem, for every value
of the constants (any ids, sizings, storage), from each module's
`ConstantsAssumption` and, where it is named below, `ReferencesAssumption`. About `ClusterLifecycle`:

- `TypeCorrect`: `Spec => []TypeOK`.
- `NothingOrphaned`: `Spec => []NoOrphan`.
- `ReleasesOnlyTorn`: `Spec => []ReleasedAreTorn`.
- `CleanHasOnlyCluster`: `Spec => []CleanMeansOnlyCluster`.
- `CustomResizesAreConfirmed`: `Spec => []CustomResizeConfirmed`.
- `ClusterKeepsCustody`: `Spec => Custodian!Spec`, the refinement.

`NoOrphan` is not inductive as it stands: that a handler returns what it
holds depends on what it may hold at each point. The inductive invariant `IInv`
therefore adds `Carried` (a create starts with an empty state, `draft` carries a
row only between an accepted request and the return, an update's draft is the
saved row, update and delete points have a saved row) and `Born` (every row held
or released exists on the server). For `ReleasedAreTorn` the row that a read
has just found destroyed stays torn: no server step leads out of
`destroyed` but to `gone` (`RowsMoveOn`). The refinement proof reuses the invariant and sends each action to
`Create`, `Adopt`, `Die`, `Lose` or a stutter (letting go of a torn-down row is a
`Die` in which nothing dies). Uniqueness holds at all
times (`OneCluster`): only a POST makes a cluster exist, and it adopts the one that
does. The confirmation of a custom sizing rests on `Confirming`, whose core is what a
refresh reads (`Refreshed`): a custom entry either has another sizing than the one
owed, which the plan sees, or a cluster still resizing towards the sizing read.
With an alias the entry does not keep what was read, and the argument fails where
`cluster_rerun` shows it.

About `VmLifecycle`, for any ids and setups: `TypeCorrect`, `NothingOrphaned`,
`ReleasesOnlyTorn` and the refinement `VmKeepsCustody` along the same argument, and

- `NamedVmsAreUnique`: `Spec => []NamedVmIsUnique`. Inductive is `OneVm`: at
  no time do two VMs exist, whatever the verdict; a POST alone makes one exist.
- `OnlyNewFailuresBlamed`: `Spec => BlamesOnlyNewFailures`. Inductive is
  `Blamable`: once the wait has seen the VM without a failure, a failure
  it finds began after the call.
- `PowerIsConfirmed`: `Spec => []PowerConfirmedWithoutReadback`. `OwedShows` says
  why a run that ends clean owes nothing: without readback the saved `running`
  is the last power state that was confirmed, so one that is owed is the opposite
  of it and the next plan has a diff.

About `EnvironmentStack`, for any tree of nodes, any kinds, any configurations and
any number of rows:

- `TypeCorrect`, `NothingOrphaned`, `NoneOutlives`, `CleanRunsAreWhole` and
  `DestroysSweep`: `Spec => []P` for `TypeOK`, `NoOrphan`, `NothingOutlives`,
  `CleanRunIsWhole` and `DestroySweeps`.
- `ParentsDeletedLast`: `Spec => ParentsGoLast`.
- `OnlyFailuresWait`: `Spec => OnlyFailuresHoldBack`.
- `StackKeepsCustody`: `Spec => Custodian!Spec`, the refinement.

The invariant has two halves. `Control` is about the walk: a node is created only
below a parent that is done, which stays done to the end of the run (`Walking`), and
the plan starts it that way because what a node refers to is renewed only if the node
is (`UpwardsOfParent`); what is done is as configured and not tainted, so that after
a clean run nothing needs renewing. `Custodial` is about the rows: the row of an
entry, or of a Create in flight, refers to the row the parent stood for then
(`Rowed`); below the environment even a row on its way out is still in hand unless it
is a vDC (`Held`), which is what the gone-waits are for and what `ParentsGoLast`
needs; what is live is below a live environment (`Housed`), which `DestroySweeps`
needs; and what a row takes along belongs to the same environment (`Sheltered`), so
that a cascade from above never takes a row and leaves what hangs on it
(`NothingOutlives`; `AgingShelters` is the server's part of it). `WalkKeeps` reduces
each handler's step to what it does to one node, its row and its entry.

`OnlyFailuresHoldBack` is the absence of a circular wait. A walk mixes creates, which
wait for the node above, with deletes, which wait for the nodes below, and a
replacement turns one into the other. `DeletesWaitDownwards` takes the lowest of the
deletes that hang on each other: the child it waits for is not done, because a done
node has a done parent, and so has failed; `CreatesWaitUpwards` takes the highest of
the creates. That there is a lowest and a highest is `ReferencesAssumption`:
configurations are finite, and Terraform refuses references in a circle.

The refinement maps `Custody`'s four sets row by row (`RowByRow`). Most steps are a
`Die` (`LettingGo`: rows age, and an entry, a draft or a history record goes only with
a row that is not live); a POST is `Create` or `Adopt` (`PostSeen`), a kill of the
process is `Lose` of all Creates in flight at once, and a lost answer is a `Create`
that nobody holds. It needs one more invariant, `AdriftBorn`: what is adrift was made
once, or a new row could be born adrift.

About `HarborRobot`: `TypeCorrect`, `NothingOrphaned`, `SecretStaysUsable`
(`Spec => []SecretUsable`), `SecretIsKept` (`Spec => SecretKept`) and the refinement
`RobotKeepsCustody` (`Spec => Custodian!Spec`).
`SecretUsable` speaks of clean runs only and needs what holds between them: `Behind`
says why a saved secret may be older than the account's (it was imported, or a
rotation was missed whose marker is not the saved one), `CleanMarker` that a clean
run has saved the configured marker, `Entry` that a rotation runs only when the
two markers differ. Together they say that the marker left unsaved by a
rotation that failed halfway is what makes the next run rotate again.

About `NaturalKeys`: `TypeCorrect`, `NothingOrphaned`, `CleanRunsServe`
(`Spec => []CleanRunServes`) and `UndisturbedRunsSucceed`
(`Spec => UndisturbedSucceeds`), for any number of resources, keys and ids.
`CleanRunServes` speaks of the end of a run and
needs what the walk keeps up meanwhile: a resource that is done has the configured
entry (`Stated`) and, when nobody's DELETE has hit it, stands for a row as configured
or for none (`Settled`); that holds under
another resource's POST and DELETE because a key that two resources claim, by their
entries or by their configurations, is among the disputed ones of the plan
(`Disputes`), and no handler makes a claim that was not there at the plan
(`ClaimsShrink`); and an entry's id is never handed out again (`Fresh`).
Where the rest is not reported, a refresh cannot put the entry right, so that the
invariant has to carry it from one run to the next: a row that one entry alone refers
to has the entry's rest unless it has strayed (`Told`; two entries with one id are
`Shared`, and the key of such a row is disputed).
`UndisturbedSucceeds` is the safety core of `Converges`: with no fault, no dispute and
no lost row, every live row is the one of exactly one entry (`EveryRowHasItsEntry`),
so that a POST meets no row (`PostIsFree`) and a DELETE takes its own only. Two networks
may exchange their CIDRs without a common name; `RestsApart` says of CIDRs what an empty
`disputed` says of keys, and `Ranged` that the state has a network's CIDR right, since a
network is never updated in place.

About `DedicatedSizing`: `TypeCorrect`, `NothingFalselyRefused` (by
`RefusalIsFinal`: every check that fires on a configuration fires on each of its
resolutions, so learning values never turns a refusal into acceptance),
`RequestsStaySound` (`Spec => RequestsAreSound`), whose invariant says that a run
that applies has a configuration that is resolved and not refused, and
`RequestsArePlans` (`Spec => RequestsReachPlan`), by `NothingLeftOut`: the attributes
whose zero is dropped are never zero in a configuration that was not refused.

Model-checked only are the four liveness properties: `OperationsEnd`, `RunsEnd` and
the two `Converges`. The prover does not do fairness and ENABLED. What they rest on
that is not liveness is proved: `OnlyFailuresWait` for `RunsEnd`,
`UndisturbedRunsSucceed` and `RequestsArePlans` for the two `Converges`.

## Where the code and its documentation differ

Five runs end in a counterexample, recorded under `findings`:

1. A t-shirt resize that times out while reads still show the old active cluster
   leaves the state with the new alias and an active status. The re-run the error
   message recommends has nothing to do and ends clean.
2. A power update that times out leaves, after the next refresh, the desired
   power state in the saved state: the next run is clean, though the live phase
   was never seen. Against an API without readback the same run retries.
3. A replacement of an environment does not wait for the old one to be destroyed,
   and the POST under the same name can be answered with it.
4. The POST of a cluster is answered with the one of its kind, whatever its size. With a
   t-shirt size the state keeps the planned alias, and the plan compares aliases only:
   after a lost create and an edit of `size` the run is clean, the state has the new
   size, the cluster the old one, and no later run resizes it. The repository's README
   discloses this for a resize made elsewhere, not for a run of Terraform's own. The
   same remains when a PATCH is applied without an answer and its edit is taken back.
   The POST of an ingress rule is answered with the rule that has the prefix, whatever
   its port, and no answer returns the port: the same two applies leave the state with
   one port and the rule with the other. `keys_unreported` stops at the first of the two
   types; with either alone in `Kinds` it finds the same steps.
5. `worker_vcpu` and `worker_ram_gb` are validated when they are given only; omitted,
   they default to 0 and a worker pool of that size is requested, which the
   validation refuses when the zeros are written out.

## Plan

Done: the two lifecycles, the stack, the robot account, resources that share a
table, dedicated sizes, the refinements of `Custody` and the proofs above. What would
come next, in this order:

1. The rotation of a registry binding, which is `HarborRobot`'s Update without a
   secret in the state.
2. Several ingress and egress rules below several clusters, as a composition of
   `NaturalKeys` and `EnvironmentStack`.
3. Apps of a cluster in error, whose every request is refused with a 409: the state
   keeps them, and a refresh fails until the user intervenes.
4. A measure of the work left in a run and in an operation that every step of the
   provider lowers and no other raises: the part of `RunsEnd` and `OperationsEnd` that
   needs no fairness.
5. The classification of failed reads as an operator over the kinds of errors, with the
   wait loops that retry some and the ones that retry none.

## Not modelled

Data sources (`quota_data_source.go`, `images_data_source.go`) are a GET and a
conversion. Minting a kubeconfig keeps no state. The provider's configuration is
wiring. `IsRetryableReadError` is a pure function of the error's class; the
lifecycle modules let a wait abort at any time, which covers both its answers.
Attributes that only force a replacement (image, version, labels) add nothing
to the replacement that is modelled. The validation of egress ports and of
names is pure and looks at one attribute at a time.
