------------------------------ MODULE NaturalKeys ------------------------------
(***************************************************************************)
(* Several resources of one type over one table whose POST is idempotent   *)
(* over a natural key: published apps (hostname), IaaS networks (name),    *)
(* ingress rules (hostname prefix), clusters (environment and kind),       *)
(* Harbor artifacts (digest) and Harbor registry bindings (secret).        *)
(*                                                                         *)
(* A POST for a key that is taken is answered with the row that has it, or *)
(* refused with a 409 where the API compares the rest of the request.      *)
(* Terraform knows nothing of keys: it walks the resources in any order.   *)
(*                                                                         *)
(* A handler is one step: what its wait loops go through is the subject of *)
(* ClusterLifecycle and EnvironmentStack, and so are a cluster's change    *)
(* between a t-shirt size and numbers, and the PATCH that would shrink its *)
(* storage.  An id of a row that is gone and that no state refers to may   *)
(* stand for a new row.                                                    *)
(***************************************************************************)
EXTENDS Naturals, FiniteSets

CONSTANTS
  Addresses,  \* the resource blocks of the configuration
  Keys,       \* values of the natural key
  Rests,      \* values of the other attributes
  Ids,        \* server-assigned row ids
  NoId,
  Absent,     \* a resource that is not configured
  Kinds,      \* the resource types to look at
  Configurations  \* what the user may ask for

\* A cluster has its sizing in numbers ("cluster") or as an alias ("tshirt").
AllKinds == {"app", "network", "ingress", "cluster", "tshirt", "artifact", "binding"}
Specs == [key : Keys, rest : Rests]

ASSUME ConstantsAssumption ==
  /\ NoId \notin Ids
  /\ Absent \notin Specs
  /\ Kinds \subseteq AllKinds
  /\ Configurations \subseteq [Addresses -> Specs \cup {Absent}]

VARIABLES
  kind,      \* the resource type
  rows,      \* the API's table: Absent stands for no row
  cfg,       \* the configuration
  tf,        \* the saved Terraform state
  phase,     \* idle or walk
  todo,      \* what the run has still to do for each resource
  clean,     \* the last run has ended without an error, and nothing was edited
  calm,      \* from here on nothing goes wrong and nobody edits
  adrift,    \* history: rows whose creation was answered to nobody
  disputed,  \* history: keys with two claimants when the run was planned
  hit,       \* history: resources whose row the DELETE of another has taken
  strayed    \* history: rows a POST was answered with, or a lost PATCH has changed,
             \* that have another rest than the state has been left with

vars == <<kind, rows, cfg, tf, phase, todo, clean, calm, adrift, disputed, hit, strayed>>

OptSpecs == Specs \cup {Absent}
NoEntry == [id |-> NoId, spec |-> Absent, tainted |-> FALSE]
Entries == [id : Ids, spec : Specs, tainted : BOOLEAN] \cup {NoEntry}
Chores == {"done", "failed", "create", "update", "delete", "replace"}

\* The POST compares everything else, too, and answers 409 when it differs.
Compares == kind \in {"app", "network", "binding"}
\* No two networks of a vDC have the same CIDR.
UniqueRest == kind = "network"
\* A change of the rest is an Update in place; else it forces a replacement.
InPlace == kind \in {"cluster", "tshirt", "binding"}
\* The state keeps the rest that was planned: no answer returns the port of an
\* ingress rule, and none the alias that a cluster was sized by.
Unreported == kind \in {"ingress", "tshirt"}
\* Create and Update wait for the row to become active.
Awaited == kind \in {"cluster", "tshirt", "network"}

Init ==
  /\ kind \in Kinds
  /\ rows = [i \in Ids |-> Absent]
  /\ cfg = [a \in Addresses |-> Absent]
  /\ tf = [a \in Addresses |-> NoEntry]
  /\ phase = "idle"
  /\ todo = [a \in Addresses |-> "done"]
  /\ clean = FALSE
  /\ calm = FALSE
  /\ adrift = {}
  /\ disputed = {}
  /\ hit = {}
  /\ strayed = {}

-----------------------------------------------------------------------------
(* The server.                                                             *)

Live(i) == i \in Ids /\ rows[i] # Absent

Fresh(i) == i \in Ids /\ ~Live(i) /\ \A a \in Addresses : tf[a].id # i
NewId == CHOOSE i \in Ids : Fresh(i)

Clashes(w, i) ==
  /\ Live(i)
  /\ \/ rows[i].key = w.key
     \/ UniqueRest /\ rows[i].rest = w.rest
Answers(w, i) ==
  Live(i) /\ rows[i].key = w.key /\ (Compares => rows[i].rest = w.rest)

\* A row that is new, and one that was there.
PostNew(w, i) ==
  /\ \A j \in Ids : ~Clashes(w, j)
  /\ \E j \in Ids : Fresh(j)
  /\ i = NewId
  /\ rows' = [rows EXCEPT ![i] = w]
Post(w, i) == PostNew(w, i) \/ (Answers(w, i) /\ UNCHANGED rows)

Remove(i) ==
  /\ rows' = IF Live(i) THEN [rows EXCEPT ![i] = Absent] ELSE rows
  /\ strayed' = strayed \ {i}

\* The TTL reaper, an operator, or the teardown of what the row lives in.
Reap(i) ==
  /\ ~calm
  /\ Live(i)
  /\ Remove(i)
  /\ adrift' = adrift \ {i}
  /\ UNCHANGED <<kind, cfg, tf, phase, todo, clean, calm, disputed, hit>>

-----------------------------------------------------------------------------
(* The Terraform run.                                                      *)

Configure(c) ==
  /\ ~calm
  /\ phase = "idle"
  /\ cfg' = c
  /\ clean' = FALSE
  /\ disputed' = {}
  /\ hit' = {}
  /\ UNCHANGED <<kind, rows, tf, phase, todo, calm, adrift, strayed>>

CalmDown ==
  /\ ~calm
  /\ calm' = TRUE
  /\ UNCHANGED <<kind, rows, cfg, tf, phase, todo, clean, adrift, disputed, hit, strayed>>

Crash ==
  /\ ~calm
  /\ phase = "walk"
  /\ phase' = "idle"
  /\ todo' = [a \in Addresses |-> "done"]
  /\ disputed' = {}
  /\ hit' = {}
  /\ UNCHANGED <<kind, rows, cfg, tf, clean, calm, adrift, strayed>>

\* Mutation: a resource that is gone stays in the state.
ReadKeeping(e) == e

\* Mutation: a resource that is gone is read as an empty one.
ReadEmpty(e) == IF Unreported THEN e ELSE [e EXCEPT !.spec = rows[e.id]]

\* Read: a row that is gone is dropped from the state.
Read(e) ==
  IF ~Live(e.id) THEN NoEntry
  ELSE IF Unreported THEN e ELSE [e EXCEPT !.spec = rows[e.id]]

\* What Terraform plans for a resource: the key forces a replacement.
Due(e, w) ==
  CASE e = NoEntry -> IF w = Absent THEN "done" ELSE "create"
    [] e # NoEntry /\ w = Absent -> "delete"
    [] e # NoEntry /\ w # Absent ->
         IF e.spec = w /\ ~e.tainted THEN "done"
         ELSE IF InPlace /\ e.spec.key = w.key /\ ~e.tainted THEN "update" ELSE "replace"

Claims(e, w, k) == k \in {v.key : v \in {e.spec, w} \ {Absent}}

\* The run refreshes every resource and plans; a refresh that fails ends it
\* before anything is saved.  A Read depends on its own row only, so the reads
\* are one step.
Plan ==
  /\ phase = "idle"
  /\ phase' = "walk"
  /\ tf' = [a \in Addresses |-> IF tf[a] = NoEntry THEN NoEntry ELSE Read(tf[a])]
  /\ todo' = [a \in Addresses |-> Due(tf'[a], cfg[a])]
  /\ clean' = FALSE
  /\ disputed' = {k \in Keys : \E a, b \in Addresses :
                     a # b /\ Claims(tf'[a], cfg[a], k) /\ Claims(tf'[b], cfg[b], k)}
  /\ hit' = {}
  /\ UNCHANGED <<kind, rows, cfg, calm, adrift, strayed>>

EndRun ==
  /\ phase = "walk"
  /\ \A a \in Addresses : todo[a] \in {"done", "failed"}
  /\ phase' = "idle"
  /\ todo' = [a \in Addresses |-> "done"]
  /\ clean' = \A a \in Addresses : todo[a] = "done"
  /\ disputed' = IF clean' THEN disputed ELSE {}
  /\ hit' = IF clean' THEN hit ELSE {}
  /\ UNCHANGED <<kind, rows, cfg, tf, calm, adrift, strayed>>

-----------------------------------------------------------------------------
(* The handlers.                                                           *)

Walking(a, chore) == phase = "walk" /\ todo[a] = chore
Ends(a, result) == todo' = [todo EXCEPT ![a] = result]
Step == UNCHANGED <<kind, cfg, phase, clean, calm, disputed>>

\* Mutation: the state is what was planned, not what the API answered.
RecordedAsPlanned(a, i) == cfg[a]

\* What the state says of the row that a POST was answered with.
Recorded(a, i) == IF Unreported THEN cfg[a] ELSE rows'[i]

\* Row i after a request that leaves the state with e of it.  A rest that is
\* reported is put right by the next refresh.
Strays(i, e) == IF Unreported /\ rows'[i] # e THEN strayed \cup {i} ELSE strayed \ {i}

\* Create: 201 and 200 alike.  Terraform objects to an answer that is not what
\* it planned and taints the resource.
Create(a, i) ==
  /\ Walking(a, "create")
  /\ Post(cfg[a], i)
  /\ tf' = [tf EXCEPT ![a] = [id |-> i, spec |-> Recorded(a, i),
                              tainted |-> Recorded(a, i) # cfg[a]]]
  /\ Ends(a, IF Recorded(a, i) = cfg[a] THEN "done" ELSE "failed")
  /\ adrift' = adrift \ {i}
  /\ hit' = hit \ {a}
  /\ strayed' = Strays(i, Recorded(a, i))
  /\ Step

\* The wait for an active cluster or network fails over a saved row.
CreateNeverActive(a, i) ==
  /\ ~calm
  /\ Awaited
  /\ Walking(a, "create")
  /\ Post(cfg[a], i)
  /\ tf' = [tf EXCEPT ![a] = [id |-> i, spec |-> Recorded(a, i), tainted |-> TRUE]]
  /\ Ends(a, "failed")
  /\ adrift' = adrift \ {i}
  /\ hit' = hit \ {a}
  /\ strayed' = Strays(i, Recorded(a, i))
  /\ Step

\* The row is made, its answer lost.
CreateUnanswered(a, i) ==
  /\ ~calm
  /\ Walking(a, "create")
  /\ PostNew(cfg[a], i)
  /\ Ends(a, "failed")
  /\ adrift' = adrift \cup {i}
  /\ UNCHANGED <<tf, hit, strayed>>
  /\ Step

\* 409: the key is taken by another target, a CIDR by another name.  Any other
\* refusal is a fault, that of a parent that is not active included.
CreateRefused(a) ==
  /\ Walking(a, "create")
  /\ \/ ~calm
     \/ \E i \in Ids : Clashes(cfg[a], i) /\ ~Answers(cfg[a], i)
  /\ Ends(a, "failed")
  /\ UNCHANGED <<rows, tf, adrift, hit, strayed>>
  /\ Step

Patch(a) ==
  /\ Walking(a, "update")
  /\ Live(tf[a].id)
  /\ rows' = [rows EXCEPT ![tf[a].id] = cfg[a]]
  /\ UNCHANGED <<adrift, hit>>
  /\ Step

\* PATCH of a cluster's sizing or a binding's service accounts.
Update(a) ==
  /\ Patch(a)
  /\ tf' = [tf EXCEPT ![a].spec = cfg[a]]
  /\ Ends(a, "done")
  /\ strayed' = Strays(tf[a].id, cfg[a])

\* The wait for the resized cluster fails over a state that has the new size.
UpdateNeverActive(a) ==
  /\ ~calm
  /\ Awaited
  /\ Patch(a)
  /\ tf' = [tf EXCEPT ![a].spec = cfg[a]]
  /\ Ends(a, "failed")
  /\ strayed' = Strays(tf[a].id, cfg[a])

\* The PATCH is applied, its answer lost: the state is the prior one.
UpdateUnanswered(a) ==
  /\ ~calm
  /\ Patch(a)
  /\ Ends(a, "failed")
  /\ strayed' = Strays(tf[a].id, tf[a].spec)
  /\ UNCHANGED tf

UpdateRefused(a) ==
  /\ Walking(a, "update")
  /\ ~calm \/ ~Live(tf[a].id)
  /\ Ends(a, "failed")
  /\ UNCHANGED <<rows, tf, adrift, hit, strayed>>
  /\ Step

Deleting(a) == Walking(a, "delete") \/ Walking(a, "replace")

\* Mutation: the DELETE is accepted and not waited for; the row is still there.
DeleteOnAccept(a) ==
  /\ Deleting(a)
  /\ tf' = [tf EXCEPT ![a] = NoEntry]
  /\ Ends(a, IF todo[a] = "replace" THEN "create" ELSE "done")
  /\ UNCHANGED <<rows, adrift, hit, strayed>>
  /\ Step

\* Delete: 204, 202 and its wait, or 404.
Delete(a) ==
  /\ Deleting(a)
  /\ Remove(tf[a].id)
  /\ tf' = [tf EXCEPT ![a] = NoEntry]
  /\ Ends(a, IF todo[a] = "replace" THEN "create" ELSE "done")
  /\ hit' = IF Live(tf[a].id)
            THEN hit \cup {b \in Addresses \ {a} : tf[b].id = tf[a].id} ELSE hit
  /\ UNCHANGED adrift
  /\ Step

\* Mutation: a DELETE that was refused (an app's cluster is not active) is taken
\* for one that found nothing.
DeleteFailsForgetting(a) ==
  /\ ~calm
  /\ Deleting(a)
  /\ UNCHANGED <<rows, strayed>> \/ Remove(tf[a].id)
  /\ tf' = [tf EXCEPT ![a] = NoEntry]
  /\ Ends(a, "failed")
  /\ UNCHANGED <<adrift, hit>>
  /\ Step

\* The request or the wait fails, whether or not the server acted on it.
DeleteFails(a) ==
  /\ Deleting(a)
  /\ ~calm
  /\ UNCHANGED <<rows, strayed>> \/ Remove(tf[a].id)
  /\ Ends(a, "failed")
  /\ UNCHANGED <<tf, adrift, hit>>
  /\ Step

-----------------------------------------------------------------------------
User == \/ \E c \in Configurations : Configure(c)
        \/ CalmDown
        \/ Crash

Run ==
  \/ Plan \/ EndRun
  \/ \E a \in Addresses :
       \/ CreateRefused(a)
       \/ Update(a) \/ UpdateNeverActive(a) \/ UpdateUnanswered(a) \/ UpdateRefused(a)
       \/ Delete(a) \/ DeleteFails(a)
       \/ \E i \in Ids : Create(a, i) \/ CreateNeverActive(a, i) \/ CreateUnanswered(a, i)

Next == User \/ Run \/ \E i \in Ids : Reap(i)

Spec == Init /\ [][Next]_vars

\* Terraform walks on, and somebody keeps applying.
FairSpec == Spec /\ WF_vars(Run)

-----------------------------------------------------------------------------
(* Properties.                                                             *)

\* Every variable has its type.
TypeOK ==
  /\ kind \in Kinds
  /\ rows \in [Ids -> OptSpecs]
  /\ cfg \in [Addresses -> OptSpecs]
  /\ tf \in [Addresses -> Entries]
  /\ phase \in {"idle", "walk"}
  /\ todo \in [Addresses -> Chores]
  /\ clean \in BOOLEAN
  /\ calm \in BOOLEAN
  /\ adrift \subseteq Ids
  /\ disputed \subseteq Keys
  /\ hit \subseteq Addresses
  /\ strayed \subseteq Ids

\* A live row is in the state of some resource unless its answer was lost, also
\* when its cluster is not active and every request for it is refused.
NoOrphan == \A i \in Ids : Live(i) => i \in adrift \/ \E a \in Addresses : tf[a].id = i

\* The row is as configured, unless it has strayed.
Agrees(a) ==
  LET row == rows[tf[a].id]
  IN  row.key = cfg[a].key /\ (row.rest = cfg[a].rest \/ tf[a].id \in strayed)

\* A clean run leaves what was configured: the state has exactly the configured
\* resources, as configured; a POST that was answered with an existing row has not
\* taken over one with another target, and no other resource's DELETE has hit it.
\* The server's side excepts keys that two resources claimed when the run was
\* planned (a renamed block, a slug that changes hands, two clusters of one kind
\* in an environment), and of an ingress rule or a cluster with a t-shirt size the
\* rest of a row that a POST was answered with or a lost PATCH has changed.
CleanRunServes ==
  clean =>
    \A a \in Addresses :
      /\ cfg[a] = Absent <=> tf[a] = NoEntry
      /\ cfg[a] # Absent => tf[a].spec = cfg[a] /\ ~tf[a].tainted
      /\ cfg[a] # Absent /\ cfg[a].key \notin disputed =>
           /\ a \notin hit
           /\ Live(tf[a].id) => Agrees(a)

\* No two networks have, or want, the same CIDR.
RestsApart ==
  UniqueRest =>
    \A a, b \in Addresses :
      \A v \in {tf[a].spec, cfg[a]} \ {Absent}, w \in {tf[b].spec, cfg[b]} \ {Absent} :
        a # b => v.rest # w.rest

\* Nothing stands in the way of the run: every request is answered, no key or CIDR
\* has two claimants, no lost row keeps one, and no row has gone since the plan.
Undisturbed ==
  /\ calm /\ adrift = {} /\ disputed = {} /\ RestsApart
  /\ \A a \in Addresses : tf[a] # NoEntry => Live(tf[a].id)

\* A run that nothing stands in the way of does not get in its own way: no
\* request of a resource, a replacement's POST after its own DELETE included, is
\* refused because of a row, answered with another's, or takes another's row.
UndisturbedSucceeds ==
  [][phase = "walk" /\ phase' = "walk" /\ Undisturbed =>
       /\ \A a \in Addresses : todo'[a] = "failed" => todo[a] = "failed"
       /\ Undisturbed']_vars

\* Each resource has a key of its own, and no CIDR is used twice.
Distinct ==
  \A a, b \in Addresses : a # b /\ cfg[a] # Absent /\ cfg[b] # Absent =>
    cfg[a].key # cfg[b].key /\ (UniqueRest => cfg[a].rest # cfg[b].rest)

Served(a) ==
  IF cfg[a] = Absent THEN tf[a] = NoEntry
  ELSE Live(tf[a].id) /\ ~tf[a].tainted /\ Agrees(a)

\* A lost row holds the key, or the CIDR, for something else.
Blocked(a) == cfg[a] # Absent /\ \E i \in adrift : Clashes(cfg[a], i) /\ ~Answers(cfg[a], i)

\* However keys have changed hands, runs repeated without further trouble end up
\* with every resource standing for a row of its own as configured, but those
\* whose key a lost row keeps, and the rest of rows that have strayed.
Converges == <>[](calm /\ Distinct => \A a \in Addresses : Served(a) \/ Blocked(a))

\* The endpoint of an ingress is https://<public_ip>[:<port>], and a change of a
\* cluster's size resizes it: after a clean run the port and the size that the state
\* has of a resource are those of its row.
SavedIsServed ==
  clean =>
    \A a \in Addresses : Live(tf[a].id) /\ tf[a].spec.key \notin disputed =>
      rows[tf[a].id].rest = tf[a].spec.rest
=============================================================================
