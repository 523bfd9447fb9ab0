------------------------------ MODULE HarborRobot ------------------------------
(***************************************************************************)
(* One fcs_harbor_robot_account: the accounts of the FCS registry API, the *)
(* provider's Create, Read, Update, Delete and Import, and the Terraform   *)
(* run around them.  The API answers a create and a rotation with the      *)
(* secret, once; a GET never shows it.  Update is a PATCH of the metadata  *)
(* followed, when rotation_trigger changed, by a rotation.                 *)
(*                                                                         *)
(* A secret is its number among those of its account, 0 when the state has *)
(* none.  The registry is not part of the repository: its rows do what the *)
(* client expects of them.  A request and the answer acted upon are one    *)
(* step.  The name, which forces a replacement, is left out.               *)
(***************************************************************************)
EXTENDS Naturals, FiniteSets

CONSTANTS
  Ids,        \* server-assigned account ids
  NoId,
  Metas,      \* description, permissions, lifetime and disabled together
  NoMeta,
  Markers,    \* values of rotation_trigger
  NoMarker,   \* rotation_trigger is not set
  MaxSecret   \* bound: secrets an account may have, one after the other

ASSUME ConstantsAssumption ==
  /\ NoId \notin Ids
  /\ NoMeta \notin Metas
  /\ NoMarker \notin Markers
  /\ MaxSecret \in Nat \ {0}

VARIABLES
  accounts,  \* the registry's table
  cfg,       \* the configuration: NoMeta stands for its absence
  tf,        \* the resource's entry in the saved Terraform state
  pc,        \* where the running operation is
  verdict,   \* how the last run ended
  adrift,    \* history: accounts whose creation was lost to a fault
  missed     \* history: markers of rotations whose secret never arrived

vars == <<accounts, cfg, tf, pc, verdict, adrift, missed>>

OptMarkers == Markers \cup {NoMarker}
OptMetas == Metas \cup {NoMeta}
Accounts == [st : {"unborn", "live", "revoked"}, meta : OptMetas, secret : 0..MaxSecret]
Entries == [id : Ids \cup {NoId}, meta : OptMetas, marker : OptMarkers, secret : 0..MaxSecret]
NoEntry == [id |-> NoId, meta |-> NoMeta, marker |-> NoMarker, secret |-> 0]
Absent == [meta |-> NoMeta, marker |-> NoMarker]

Init ==
  /\ accounts = [i \in Ids |-> [st |-> "unborn", meta |-> NoMeta, secret |-> 0]]
  /\ cfg = Absent
  /\ tf = NoEntry
  /\ pc = "idle"
  /\ verdict = "none"
  /\ adrift = {}
  /\ missed = {}

-----------------------------------------------------------------------------
(* The registry.                                                           *)

Found(i) == i \in Ids /\ accounts[i].st = "live"

\* The POST is not idempotent: each one that succeeds makes an account.
Post(i) ==
  /\ accounts[i].st = "unborn"
  /\ accounts' = [accounts EXCEPT ![i] = [st |-> "live", meta |-> cfg.meta, secret |-> 1]]

PatchRow(i) == Found(i) /\ accounts' = [accounts EXCEPT ![i].meta = cfg.meta]

RotateRow(i) ==
  /\ Found(i)
  /\ accounts[i].secret < MaxSecret
  /\ accounts' = [accounts EXCEPT ![i].secret = @ + 1]

DeleteRow(i) ==
  accounts' = IF Found(i) THEN [accounts EXCEPT ![i].st = "revoked"] ELSE accounts

\* Another client revokes the account or changes its metadata.
OutOfBand(i) ==
  /\ Found(i)
  /\ \/ accounts' = [accounts EXCEPT ![i].st = "revoked"]
     \/ \E m \in Metas : accounts' = [accounts EXCEPT ![i].meta = m]
  /\ UNCHANGED <<cfg, tf, pc, verdict, adrift, missed>>

-----------------------------------------------------------------------------
(* Terraform around the provider.                                          *)

\* A handler returns to Terraform, which saves the entry it was given.
Return(v, e) == pc' = "idle" /\ verdict' = v /\ tf' = e
Goto(p) == pc' = p /\ UNCHANGED <<tf, verdict>>

Configure(c) ==
  /\ pc = "idle"
  /\ cfg' = c
  /\ verdict' = "none"
  /\ UNCHANGED <<accounts, tf, pc, adrift, missed>>

StartRun ==
  /\ pc = "idle"
  /\ pc' = IF tf = NoEntry THEN "plan" ELSE "refresh"
  /\ verdict' = "none"
  /\ UNCHANGED <<accounts, cfg, tf, adrift, missed>>

Crash ==
  /\ pc # "idle"
  /\ Return("none", tf)
  /\ UNCHANGED <<accounts, cfg, adrift, missed>>

PlanNothing ==
  /\ pc = "plan"
  /\ IF tf = NoEntry THEN cfg = Absent
     ELSE tf.meta = cfg.meta /\ tf.marker = cfg.marker
  /\ Return("clean", tf)
  /\ UNCHANGED <<accounts, cfg, adrift, missed>>

PlanCreate ==
  /\ pc = "plan"
  /\ tf = NoEntry
  /\ cfg # Absent
  /\ Goto("create")
  /\ UNCHANGED <<accounts, cfg, adrift, missed>>

PlanUpdate ==
  /\ pc = "plan"
  /\ tf # NoEntry
  /\ cfg # Absent
  /\ tf.meta # cfg.meta \/ tf.marker # cfg.marker
  /\ Goto("update")
  /\ UNCHANGED <<accounts, cfg, adrift, missed>>

PlanDelete ==
  /\ pc = "plan"
  /\ tf # NoEntry
  /\ cfg = Absent
  /\ Goto("delete")
  /\ UNCHANGED <<accounts, cfg, adrift, missed>>

-----------------------------------------------------------------------------
(* The provider.                                                           *)

\* Create: the answer is saved, secret included.
Create(i) ==
  /\ pc = "create"
  /\ Post(i)
  /\ Return("clean", [id |-> i, meta |-> cfg.meta, marker |-> cfg.marker, secret |-> 1])
  /\ missed' = {}
  /\ UNCHANGED <<cfg, adrift>>

\* The answer is lost, or carries no secret: the account is nobody's.
CreateUnanswered(i) ==
  /\ pc = "create"
  /\ Post(i)
  /\ adrift' = adrift \cup {i}
  /\ Return("failed", NoEntry)
  /\ UNCHANGED <<cfg, missed>>

CreateRefused ==
  /\ pc = "create"
  /\ Return("failed", NoEntry)
  /\ UNCHANGED <<accounts, cfg, adrift, missed>>

\* applyHarborRobotAccount leaves secret and rotation_trigger alone.
ApplyMeta(e, i) == [e EXCEPT !.id = i, !.meta = accounts[i].meta]

\* Mutation: the secret, which a GET does not show, is overwritten by it.
ReadDroppingSecret ==
  /\ pc = "refresh"
  /\ tf' = IF Found(tf.id) THEN [ApplyMeta(tf, tf.id) EXCEPT !.secret = 0] ELSE NoEntry
  /\ pc' = "plan"
  /\ UNCHANGED <<accounts, cfg, verdict, adrift, missed>>

Read ==
  /\ pc = "refresh"
  /\ tf' = IF Found(tf.id) THEN ApplyMeta(tf, tf.id) ELSE NoEntry
  /\ missed' = IF Found(tf.id) THEN missed ELSE {}
  /\ pc' = "plan"
  /\ UNCHANGED <<accounts, cfg, verdict, adrift>>

ReadFails ==
  /\ pc = "refresh"
  /\ Return("failed", tf)
  /\ UNCHANGED <<accounts, cfg, adrift, missed>>

\* Mutation: ImportState alone, the id is not read.
ImportUnread(i) ==
  /\ pc = "idle"
  /\ tf = NoEntry
  /\ tf' = ApplyMeta(NoEntry, i)
  /\ adrift' = adrift \ {i}
  /\ missed' = {}
  /\ verdict' = "none"
  /\ UNCHANGED <<accounts, cfg, pc>>

\* Mutation: a GET answers with a revoked account.
ImportRevoked(i) ==
  /\ pc = "idle"
  /\ tf = NoEntry
  /\ accounts[i].st # "unborn"
  /\ tf' = ApplyMeta(NoEntry, i)
  /\ adrift' = adrift \ {i}
  /\ missed' = {}
  /\ verdict' = "none"
  /\ UNCHANGED <<accounts, cfg, pc>>

\* ImportState followed by Read: neither a secret nor a marker is known.
Import(i) ==
  /\ pc = "idle"
  /\ tf = NoEntry
  /\ Found(i)
  /\ tf' = ApplyMeta(NoEntry, i)
  /\ adrift' = adrift \ {i}
  /\ missed' = {}
  /\ verdict' = "none"
  /\ UNCHANGED <<accounts, cfg, pc>>

\* The first half of Update.
Patch ==
  /\ pc = "update"
  /\ PatchRow(tf.id)
  /\ IF cfg.marker # tf.marker
     THEN Goto("rotate")
     ELSE Return("clean", [tf EXCEPT !.meta = cfg.meta])
  /\ UNCHANGED <<cfg, adrift, missed>>

PatchFails ==
  /\ pc = "update"
  /\ UNCHANGED accounts \/ PatchRow(tf.id)
  /\ Return("failed", tf)
  /\ UNCHANGED <<cfg, adrift, missed>>

\* The second half: the new secret and the new marker are saved together.
\* Terraform objects to metadata that is not what was planned.
Rotate ==
  /\ pc = "rotate"
  /\ RotateRow(tf.id)
  /\ Return(IF accounts[tf.id].meta = cfg.meta THEN "clean" ELSE "failed",
            [ApplyMeta(tf, tf.id) EXCEPT !.marker = cfg.marker,
                                         !.secret = accounts'[tf.id].secret])
  /\ missed' = {}
  /\ UNCHANGED <<cfg, adrift>>

\* Mutation: the plan is saved before the rotation is answered.
RotateUnansweredSaved ==
  /\ pc = "rotate"
  /\ RotateRow(tf.id)
  /\ missed' = missed \cup {cfg.marker}
  /\ Return("failed", [ApplyMeta(tf, tf.id) EXCEPT !.marker = cfg.marker])
  /\ UNCHANGED <<cfg, adrift>>

\* The secret is rotated and its answer lost, or has no secret: Update
\* returns the prior state.
RotateUnanswered ==
  /\ pc = "rotate"
  /\ RotateRow(tf.id)
  /\ missed' = missed \cup {cfg.marker}
  /\ Return("failed", tf)
  /\ UNCHANGED <<cfg, adrift>>

RotateRefused ==
  /\ pc = "rotate"
  /\ Return("failed", tf)
  /\ UNCHANGED <<accounts, cfg, adrift, missed>>

\* 204, or 404: already absent.
Delete ==
  /\ pc = "delete"
  /\ DeleteRow(tf.id)
  /\ Return("clean", NoEntry)
  /\ missed' = {}
  /\ UNCHANGED <<cfg, adrift>>

\* Mutation: a failed DELETE drops the account from the state.
DeleteFailsForgetting ==
  /\ pc = "delete"
  /\ UNCHANGED accounts \/ DeleteRow(tf.id)
  /\ Return("failed", NoEntry)
  /\ UNCHANGED <<cfg, adrift, missed>>

DeleteFails ==
  /\ pc = "delete"
  /\ UNCHANGED accounts \/ DeleteRow(tf.id)
  /\ Return("failed", tf)
  /\ UNCHANGED <<cfg, adrift, missed>>

-----------------------------------------------------------------------------
Configurations == {Absent} \cup [meta : Metas, marker : OptMarkers]

User == \/ \E c \in Configurations : Configure(c)
        \/ StartRun \/ Crash
        \/ \E i \in Ids : Import(i)

Provider ==
  \/ PlanNothing \/ PlanCreate \/ PlanUpdate \/ PlanDelete
  \/ Read \/ ReadFails
  \/ \E i \in Ids : Create(i) \/ CreateUnanswered(i)
  \/ CreateRefused
  \/ Patch \/ PatchFails
  \/ Rotate \/ RotateUnanswered \/ RotateRefused
  \/ Delete \/ DeleteFails

Next == User \/ Provider \/ \E i \in Ids : OutOfBand(i)

Spec == Init /\ [][Next]_vars

-----------------------------------------------------------------------------
(* Properties.                                                             *)

\* Every variable has its type, and a saved entry is an account the registry made.
TypeOK ==
  /\ accounts \in [Ids -> Accounts]
  /\ cfg \in Configurations
  /\ tf \in Entries
  /\ pc \in {"idle", "refresh", "plan", "create", "update", "rotate", "delete"}
  /\ verdict \in {"none", "clean", "failed"}
  /\ adrift \subseteq Ids
  /\ missed \subseteq OptMarkers
  /\ tf.id # NoId => accounts[tf.id].st # "unborn"
  /\ pc \in {"refresh", "update", "rotate", "delete"} => tf.id # NoId

\* Create saves what it was answered and Delete lets go of a revoked account
\* only: a live account is in the saved state unless its answer was lost.
NoOrphan == \A i \in Ids : Found(i) => i = tf.id \/ i \in adrift

\* A run that ends clean leaves a usable secret in the state: after a rotation
\* that failed halfway, the marker that is still to be saved makes the next run
\* rotate again.  Excepted are an imported account without a marker, and a
\* rotation that was missed and whose marker the user has taken back.
SecretUsable ==
  verdict = "clean" /\ Found(tf.id) =>
    \/ tf.secret = accounts[tf.id].secret
    \/ tf.secret = 0 /\ cfg.marker = NoMarker
    \/ missed # {} /\ cfg.marker \notin missed

\* Read and Update never destroy the only usable copy of the secret: a saved
\* secret is replaced by a newer one of the same account or goes with it.
SecretKept == [][tf.id # NoId /\ tf'.id = tf.id => tf'.secret >= tf.secret]_vars

\* The custody of the accounts: an account is born into the saved state or
\* lost, taken over only while it is live, let go of only once it is revoked.
Custodian == INSTANCE Custody WITH
  live <- {i \in Ids : Found(i)},
  dead <- {i \in Ids : accounts[i].st = "revoked"},
  held <- {tf.id} \ {NoId},
  adrift <- adrift
KeepsCustody == Custodian!Spec
=============================================================================
