-------------------------- MODULE HarborRobot_proofs --------------------------
(***************************************************************************)
(* Proofs about HarborRobot: its type invariant, that no account is        *)
(* orphaned, that a clean run leaves a usable secret, that no step         *)
(* destroys the only copy, and that it implements Custody, for any         *)
(* accounts, metadata, markers and number of secrets.                      *)
(***************************************************************************)
EXTENDS HarborRobot, TLAPS

\* An entry that is not there carries nothing, and a create starts from it.
Entry ==
  /\ tf.id = NoId => tf = NoEntry /\ missed = {}
  /\ pc = "create" => tf = NoEntry
  /\ pc = "rotate" => cfg.marker # tf.marker

\* Why a saved secret may be behind its account's: an import, or a rotation
\* whose marker is not the saved one.
Behind ==
  /\ tf.marker \notin missed
  /\ Found(tf.id) =>
       /\ tf.secret <= accounts[tf.id].secret
       /\ \/ tf.secret = accounts[tf.id].secret
          \/ tf.secret = 0 /\ tf.marker = NoMarker
          \/ missed # {}

\* A run ends clean only with the configured marker in the state.
CleanMarker == verdict = "clean" /\ tf # NoEntry => tf.marker = cfg.marker

IInv == TypeOK /\ NoOrphan /\ Entry /\ Behind /\ CleanMarker

LEMMA Start == Init => IInv
<1> SUFFICES ASSUME Init PROVE IInv
  OBVIOUS
<1> USE ConstantsAssumption DEF Init, NoEntry, Absent
<1>1. TypeOK
  BY DEF TypeOK, Accounts, Entries, Configurations, OptMetas, OptMarkers
<1>2. NoOrphan /\ Entry /\ Behind /\ CleanMarker
  BY DEF NoOrphan, Found, Entry, Behind, CleanMarker
<1> QED BY <1>1, <1>2 DEF IInv

-----------------------------------------------------------------------------
\* What revoking an account, or changing its metadata, does to the table.
Gone ==
  /\ accounts' \in [Ids -> Accounts]
  /\ \A j \in Ids : /\ accounts'[j].secret = accounts[j].secret
                    /\ accounts'[j].st \in {accounts[j].st, "revoked"}

\* It keeps the invariant when the state is left alone and the run is where it
\* was, or has failed.
LEMMA Revoked ==
  ASSUME IInv, Gone, UNCHANGED <<cfg, tf, adrift, missed>>,
         \/ UNCHANGED <<pc, verdict>>
         \/ pc' = "idle" /\ verdict' = "failed"
  PROVE  IInv'
<1> USE DEF IInv
<1>1. TypeOK'
  BY DEF TypeOK, Gone, Entries
<1>2. NoOrphan'
  BY DEF NoOrphan, Found, Gone
<1>3. Entry' /\ CleanMarker'
  BY DEF Entry, CleanMarker
<1>4. Behind'
  BY DEF Behind, Found, Gone
<1> QED BY <1>1, <1>2, <1>3, <1>4

\* Every step of the run and of the registry keeps the invariant.
LEMMA Step == IInv /\ [Next]_vars => IInv'
<1> SUFFICES ASSUME IInv, [Next]_vars PROVE IInv'
  OBVIOUS
<1> USE ConstantsAssumption DEF IInv
<1>u. CASE UNCHANGED vars
  BY <1>u DEF vars, TypeOK, NoOrphan, Entry, Behind, CleanMarker, Found
<1>1. ASSUME NEW c \in Configurations, Configure(c) PROVE IInv'
  BY <1>1 DEF Configure, TypeOK, NoOrphan, Entry, Behind, CleanMarker, Found
<1>2. CASE StartRun
  BY <1>2 DEF StartRun, TypeOK, NoOrphan, Entry, Behind, CleanMarker, Found, NoEntry
<1>3. CASE Crash
  BY <1>3 DEF Crash, Return, TypeOK, NoOrphan, Entry, Behind, CleanMarker, Found
<1>4. ASSUME NEW i \in Ids, Import(i) PROVE IInv'
  <2>1. tf' = [id |-> i, meta |-> accounts[i].meta, marker |-> NoMarker, secret |-> 0]
    BY <1>4 DEF Import, ApplyMeta, NoEntry
  <2>2. TypeOK'
    BY <1>4, <2>1 DEF Import, Found, TypeOK, Entries, OptMarkers, Accounts
  <2>3. NoOrphan'
    BY <1>4, <2>1 DEF Import, NoOrphan, Found, NoEntry
  <2>4. Entry' /\ Behind' /\ CleanMarker'
    BY <1>4, <2>1 DEF Import, Entry, Behind, CleanMarker, Found, TypeOK, Accounts
  <2> QED BY <2>2, <2>3, <2>4
<1>5. CASE PlanNothing
  BY <1>5 DEF PlanNothing, Return, TypeOK, NoOrphan, Entry, Behind, CleanMarker, Found
<1>6. CASE PlanCreate \/ PlanUpdate \/ PlanDelete
  BY <1>6 DEF PlanCreate, PlanUpdate, PlanDelete, Goto, TypeOK, NoOrphan, Entry, Behind,
              CleanMarker, Found
<1>7. CASE Read
  <2>1. CASE Found(tf.id)
    <3>1. tf' = [tf EXCEPT !.meta = accounts[tf.id].meta]
      BY <1>7, <2>1 DEF Read, ApplyMeta, TypeOK, Entries
    <3> QED
      BY <1>7, <2>1, <3>1 DEF Read, TypeOK, Entries, Accounts, NoOrphan, Entry, Behind,
                              CleanMarker, Found, NoEntry
  <2>2. CASE ~Found(tf.id)
    BY <1>7, <2>2 DEF Read, TypeOK, Entries, Accounts, NoOrphan, Entry, Behind,
                      CleanMarker, Found, NoEntry, OptMetas, OptMarkers
  <2> QED BY <2>1, <2>2
<1>8. CASE ReadFails
  BY <1>8 DEF ReadFails, Return, TypeOK, NoOrphan, Entry, Behind, CleanMarker, Found
<1>9. ASSUME NEW i \in Ids, Create(i) \/ CreateUnanswered(i) PROVE IInv'
  <2>1. /\ accounts[i].st = "unborn"
        /\ accounts' = [accounts EXCEPT ![i] = [st |-> "live", meta |-> cfg.meta, secret |-> 1]]
        /\ accounts' \in [Ids -> Accounts]
    BY <1>9 DEF Create, CreateUnanswered, Post, TypeOK, Accounts, Configurations, Absent, OptMetas
  <2>2. CASE Create(i)
    <3>1. TypeOK'
      BY <2>1, <2>2 DEF Create, Return, TypeOK, Entries, Configurations, Absent, OptMetas,
                        OptMarkers
    <3>2. NoOrphan'
      BY <2>1, <2>2 DEF Create, Return, NoOrphan, Found, Entry, NoEntry, TypeOK
    <3>3. Entry' /\ Behind' /\ CleanMarker'
      BY <2>1, <2>2 DEF Create, Return, Entry, Behind, CleanMarker, Found, TypeOK
    <3> QED BY <3>1, <3>2, <3>3
  <2>3. CASE CreateUnanswered(i)
    BY <2>1, <2>3 DEF CreateUnanswered, Return, TypeOK, NoOrphan, Entry, Behind, CleanMarker,
                      Found, NoEntry
  <2> QED BY <1>9, <2>2, <2>3
<1>10. CASE CreateRefused
  BY <1>10 DEF CreateRefused, Return, TypeOK, NoOrphan, Entry, Behind, CleanMarker, Found
<1>11. CASE Patch \/ PatchFails
  <2>1. /\ accounts' \in [Ids -> Accounts]
        /\ \A i \in Ids : accounts'[i].st = accounts[i].st /\ accounts'[i].secret = accounts[i].secret
    BY <1>11 DEF Patch, PatchFails, PatchRow, Found, TypeOK, Accounts, Configurations, Absent,
                 OptMetas
  <2>2. \/ tf' = tf
        \/ tf' = [tf EXCEPT !.meta = cfg.meta] /\ cfg.marker = tf.marker
    BY <1>11 DEF Patch, PatchFails, Goto, Return
  <2>3. TypeOK'
    BY <1>11, <2>1, <2>2 DEF Patch, PatchFails, Goto, Return, TypeOK, Entries, Configurations,
                             Absent, OptMetas
  <2>4. NoOrphan'
    BY <1>11, <2>1, <2>2 DEF Patch, PatchFails, NoOrphan, Found, TypeOK, Entries
  <2>5. Entry'
    BY <1>11, <2>2 DEF Patch, PatchFails, Goto, Return, Entry, TypeOK, Entries
  <2>6. Behind' /\ CleanMarker'
    BY <1>11, <2>1, <2>2 DEF Patch, PatchFails, Goto, Return, Behind, CleanMarker, Found,
                             TypeOK, Entries
  <2> QED BY <2>3, <2>4, <2>5, <2>6
<1>12. CASE Rotate \/ RotateUnanswered
  <2>1. /\ tf.id \in Ids
        /\ accounts' = [accounts EXCEPT ![tf.id].secret = @ + 1]
        /\ accounts' \in [Ids -> Accounts]
        /\ accounts'[tf.id].secret = accounts[tf.id].secret + 1
        /\ \A i \in Ids : accounts'[i].st = accounts[i].st
    BY <1>12 DEF Rotate, RotateUnanswered, RotateRow, Found, TypeOK, Accounts
  <2>2. cfg.marker # tf.marker /\ cfg.marker \in OptMarkers
    BY <1>12 DEF Rotate, RotateUnanswered, Entry, TypeOK, Configurations, Absent, OptMarkers
  <2>3. CASE Rotate
    <3>1. tf' = [id |-> tf.id, meta |-> accounts[tf.id].meta, marker |-> cfg.marker,
                 secret |-> accounts'[tf.id].secret]
      BY <2>3 DEF Rotate, Return, ApplyMeta, TypeOK, Entries
    <3>2. tf' \in Entries
      <4>1. accounts[tf.id].meta \in OptMetas /\ accounts'[tf.id].secret \in 0..MaxSecret
        BY <2>1 DEF TypeOK, Accounts
      <4> QED BY <4>1, <2>1, <2>2, <3>1 DEF Entries
    <3>3. pc' = "idle" /\ verdict' \in {"clean", "failed"} /\ missed' = {} /\ cfg' = cfg /\ adrift' = adrift
      BY <2>3 DEF Rotate, Return
    <3>4. TypeOK'
      BY <2>1, <3>1, <3>2, <3>3 DEF TypeOK
    <3>5. NoOrphan'
      BY <2>1, <3>1, <3>3 DEF NoOrphan, Found
    <3>6. Entry' /\ CleanMarker'
      BY <2>1, <3>1, <3>3, ConstantsAssumption DEF Entry, CleanMarker
    <3>7. Behind'
      BY <2>1, <3>1, <3>2, <3>3 DEF Behind, Entries
    <3> QED BY <3>4, <3>5, <3>6, <3>7
  <2>4. CASE RotateUnanswered
    <3>1. TypeOK'
      BY <2>1, <2>2, <2>4 DEF RotateUnanswered, Return, TypeOK
    <3>2. NoOrphan' /\ Entry' /\ CleanMarker'
      BY <2>1, <2>4 DEF RotateUnanswered, Return, NoOrphan, Entry, CleanMarker, Found, TypeOK
    <3>3. Behind'
      BY <2>1, <2>2, <2>4 DEF RotateUnanswered, RotateRow, Return, Behind, Found, TypeOK,
                              Accounts, Entries
    <3> QED BY <3>1, <3>2, <3>3
  <2> QED BY <1>12, <2>3, <2>4
<1>13. CASE RotateRefused
  BY <1>13 DEF RotateRefused, Return, TypeOK, NoOrphan, Entry, Behind, CleanMarker, Found
<1>14. CASE Delete \/ DeleteFails
  <2>1. Gone
    <3>1. CASE UNCHANGED accounts
      BY <3>1 DEF Gone, TypeOK
    <3>2. CASE DeleteRow(tf.id)
      BY <3>2 DEF DeleteRow, Found, Gone, TypeOK, Accounts
    <3> QED BY <1>14, <3>1, <3>2 DEF Delete, DeleteFails
  <2>2. CASE Delete
    <3>1. /\ tf' = NoEntry /\ pc' = "idle" /\ verdict' = "clean"
          /\ missed' = {} /\ cfg' = cfg /\ adrift' = adrift
      BY <2>2 DEF Delete, Return
    <3>2. TypeOK'
      BY <2>1, <3>1 DEF Gone, TypeOK, NoEntry, Entries, OptMetas, OptMarkers
    <3>3. NoOrphan'
      <4>1. tf.id \in Ids => accounts'[tf.id].st # "live"
        BY <2>2 DEF Delete, DeleteRow, Found, TypeOK, Accounts
      <4> QED BY <2>1, <3>1, <4>1 DEF Gone, NoOrphan, Found
    <3>4. Entry' /\ Behind' /\ CleanMarker'
      BY <3>1 DEF Entry, Behind, CleanMarker, Found, NoEntry
    <3> QED BY <3>2, <3>3, <3>4
  <2>3. CASE DeleteFails
    <3>1. tf' = tf /\ pc' = "idle" /\ verdict' = "failed" /\ UNCHANGED <<cfg, adrift, missed>>
      BY <2>3 DEF DeleteFails, Return
    <3> QED BY <2>1, <3>1, Revoked
  <2> QED BY <1>14, <2>2, <2>3
<1>15. ASSUME NEW i \in Ids, OutOfBand(i) PROVE IInv'
  <2>1. CASE accounts' = [accounts EXCEPT ![i].st = "revoked"]
    <3>1. Gone
      BY <2>1 DEF Gone, TypeOK, Accounts
    <3>2. UNCHANGED <<cfg, tf, pc, verdict, adrift, missed>>
      BY <1>15 DEF OutOfBand
    <3> QED BY <3>1, <3>2, Revoked
  <2>2. ASSUME NEW m \in Metas, accounts' = [accounts EXCEPT ![i].meta = m] PROVE IInv'
    <3>1. Gone
      BY <2>2 DEF Gone, TypeOK, Accounts, OptMetas
    <3>2. UNCHANGED <<cfg, tf, pc, verdict, adrift, missed>>
      BY <1>15 DEF OutOfBand
    <3> QED BY <3>1, <3>2, Revoked
  <2> QED BY <1>15, <2>1, <2>2 DEF OutOfBand
<1> QED
  BY <1>u, <1>1, <1>2, <1>3, <1>4, <1>5, <1>6, <1>7, <1>8, <1>9, <1>10, <1>11, <1>12, <1>13,
     <1>14, <1>15
  DEF Next, User, Provider

LEMMA Invariance == Spec => []IInv
<1>1. Init => IInv
  BY Start
<1>2. IInv /\ [Next]_vars => IInv'
  BY Step
<1> QED BY <1>1, <1>2, PTL DEF Spec

-----------------------------------------------------------------------------
\* Every reachable state of the robot account's entry and table is well typed.
THEOREM TypeCorrect == Spec => []TypeOK
BY Invariance, PTL DEF IInv

\* A live account whose answer was not lost is in the saved state.
THEOREM NothingOrphaned == Spec => []NoOrphan
BY Invariance, PTL DEF IInv

\* A clean run leaves a usable secret in the state, whatever rotation was
\* missed before it.
THEOREM SecretStaysUsable == Spec => []SecretUsable
<1>1. IInv => SecretUsable
  BY ConstantsAssumption
  DEF IInv, SecretUsable, Behind, CleanMarker, Found, NoEntry, TypeOK, Entries
<1> QED BY <1>1, Invariance, PTL

\* No step replaces the saved secret by none or by an older one.
THEOREM SecretIsKept == Spec => SecretKept
<1>1. IInv /\ [Next]_vars => [tf.id # NoId /\ tf'.id = tf.id => tf'.secret >= tf.secret]_vars
  <2> SUFFICES ASSUME IInv, Next, tf.id # NoId, tf'.id = tf.id PROVE tf'.secret >= tf.secret
    OBVIOUS
  <2>1. tf.secret \in Nat /\ tf # NoEntry
    BY DEF IInv, TypeOK, Entries, NoEntry
  <2>2. CASE Rotate
    <3>1. Found(tf.id) /\ tf'.secret = accounts[tf.id].secret + 1
      BY <2>2, <2>1 DEF IInv, TypeOK, Entries, Accounts, Rotate, Return, ApplyMeta, RotateRow, Found
    <3>2. accounts[tf.id].secret \in Nat
      BY <3>1 DEF IInv, TypeOK, Accounts, Found
    <3> QED BY <2>1, <3>1, <3>2 DEF IInv, Behind
  <2>3. CASE Read
    BY <2>1, <2>3 DEF Read, ApplyMeta, NoEntry
  <2>4. CASE Patch
    BY <2>1, <2>4 DEF Patch, Goto, Return, IInv, TypeOK, Entries
  <2>5. ASSUME NEW i \in Ids, Import(i) \/ Create(i) \/ CreateUnanswered(i) PROVE FALSE
    BY <2>1, <2>5 DEF Import, Create, CreateUnanswered, IInv, Entry
  <2>6. CASE CreateRefused \/ Delete
    BY <2>1, <2>6 DEF CreateRefused, Delete, Return, IInv, Entry, NoEntry
  <2>7. CASE \/ PlanNothing \/ PlanCreate \/ PlanUpdate \/ PlanDelete \/ ReadFails
             \/ PatchFails \/ RotateUnanswered \/ RotateRefused \/ DeleteFails
             \/ StartRun \/ Crash
    BY <2>1, <2>7 DEF PlanNothing, PlanCreate, PlanUpdate, PlanDelete, ReadFails, PatchFails,
                RotateUnanswered, RotateRefused, DeleteFails, StartRun, Crash, Goto, Return
  <2>8. ASSUME NEW c \in Configurations, Configure(c) PROVE tf'.secret >= tf.secret
    BY <2>1, <2>8 DEF Configure
  <2>9. ASSUME NEW i \in Ids, OutOfBand(i) PROVE tf'.secret >= tf.secret
    BY <2>1, <2>9 DEF OutOfBand
  <2> QED
    BY <2>2, <2>3, <2>4, <2>5, <2>6, <2>7, <2>8, <2>9 DEF Next, User, Provider
<1> QED BY <1>1, Invariance, PTL DEF Spec, SecretKept

-----------------------------------------------------------------------------
(* HarborRobot implements Custody.                                         *)

LiveAccounts == {i \in Ids : Found(i)}
Revocations == {i \in Ids : accounts[i].st = "revoked"}
Held == {tf.id} \ {NoId}

\* An account is adrift only once it was made.
AdriftBorn == \A i \in adrift : accounts[i].st # "unborn"

\* What the custodian sees unchanged.
SameLives == LiveAccounts' = LiveAccounts /\ Revocations' = Revocations
Unseen == SameLives /\ Held' = Held /\ adrift' = adrift

LEMMA UnseenIsStutter == Unseen => UNCHANGED Custodian!vars
BY DEF Unseen, SameLives, Custodian!vars, LiveAccounts, Revocations, Held

LEMMA SameAccounts ==
  (\A i \in Ids : accounts'[i].st = accounts[i].st) => SameLives
BY DEF SameLives, LiveAccounts, Revocations, Found

\* Only a live account is revoked.
LiveRevoked == \A i \in Ids : accounts'[i].st = accounts[i].st \/ i \in LiveAccounts

LEMMA InitRefines == Init => Custodian!Init
BY DEF Init, Custodian!Init, Found, NoEntry

\* An account is revoked, or none is, and the entry is kept or let go of with
\* its account.
LEMMA RevokesRefines ==
  ASSUME IInv, Gone, LiveRevoked, adrift' = adrift,
         tf' = tf \/ (tf' = NoEntry /\ tf.id \notin LiveAccounts')
  PROVE  Custodian!Next
<1>1. /\ LiveAccounts' \subseteq LiveAccounts
      /\ Revocations' = Revocations \cup (LiveAccounts \ LiveAccounts')
  BY DEF Gone, LiveRevoked, LiveAccounts, Revocations, Found
<1>2. Held' \subseteq Held /\ (Held \ Held') \cap LiveAccounts' = {}
  BY DEF Held, NoEntry
<1>3. Custodian!Die
  BY <1>1, <1>2 DEF Custodian!Die, LiveAccounts, Revocations, Held
<1> QED BY <1>3 DEF Custodian!Next

\* A POST makes an account that is saved or lost.
LEMMA PostRefines ==
  ASSUME IInv, AdriftBorn, NEW i \in Ids, Create(i) \/ CreateUnanswered(i)
  PROVE  Custodian!Next
<1>1. /\ accounts[i].st = "unborn" /\ i \notin adrift /\ tf.id = NoId
      /\ accounts' = [accounts EXCEPT ![i] = [st |-> "live", meta |-> cfg.meta, secret |-> 1]]
      /\ accounts \in [Ids -> Accounts]
  BY DEF Create, CreateUnanswered, Post, AdriftBorn, IInv, Entry, NoEntry, TypeOK
<1>2. /\ i \notin LiveAccounts \cup Revocations
      /\ LiveAccounts' = LiveAccounts \cup {i}
      /\ Revocations' = Revocations
  BY <1>1 DEF LiveAccounts, Revocations, Found
<1>3. \/ Held' = Held \cup {i} /\ adrift' = adrift
      \/ Held' = Held /\ adrift' = adrift \cup {i}
  BY <1>1, ConstantsAssumption DEF Create, CreateUnanswered, Return, Held, NoEntry
<1>4. Custodian!Create(i)
  BY <1>2, <1>3 DEF Custodian!Create, LiveAccounts, Revocations, Held
<1> QED BY <1>4 DEF Custodian!Next

\* An import takes a live account over.
LEMMA ImportRefines ==
  ASSUME IInv, NEW i \in Ids, Import(i)
  PROVE  Custodian!Next
<1>1. /\ SameLives /\ i \in LiveAccounts /\ adrift' = adrift \ {i}
      /\ tf.id = NoId /\ tf'.id = i
  BY SameAccounts DEF Import, ApplyMeta, NoEntry, LiveAccounts
<1>2. i \notin Held /\ Held' = Held \cup {i}
  BY <1>1, ConstantsAssumption DEF Held
<1>3. Custodian!Adopt(i)
  BY <1>1, <1>2 DEF Custodian!Adopt, SameLives, LiveAccounts, Revocations, Held
<1> QED BY <1>3 DEF Custodian!Next

LEMMA NextRefines == IInv /\ AdriftBorn /\ [Next]_vars => [Custodian!Next]_(Custodian!vars)
<1>1. ASSUME IInv, AdriftBorn, Next
      PROVE  Custodian!Next \/ Unseen
  <2> USE <1>1 DEF IInv
  <2>1. ASSUME NEW i \in Ids, OutOfBand(i)
        PROVE  Custodian!Next
    <3>1. Gone /\ LiveRevoked
      BY <2>1 DEF OutOfBand, Gone, TypeOK, Accounts, OptMetas, LiveRevoked, LiveAccounts, Found
    <3> QED BY <2>1, <3>1, RevokesRefines DEF OutOfBand
  <2>2. CASE Delete \/ DeleteFails
    <3>1. Gone /\ LiveRevoked
      BY <2>2 DEF Delete, DeleteFails, DeleteRow, Found, Gone, TypeOK, Accounts, LiveRevoked, LiveAccounts
    <3>2. Delete => tf.id \notin LiveAccounts'
      BY DEF Delete, DeleteRow, LiveAccounts, Found, TypeOK, Accounts
    <3> QED BY <2>2, <3>1, <3>2, RevokesRefines DEF Delete, DeleteFails, Return
  <2>3. CASE Read
    <3>1. CASE Found(tf.id)
      BY <2>3, <3>1, SameAccounts DEF Read, ApplyMeta, Unseen, Held, TypeOK, Entries
    <3>2. CASE ~Found(tf.id)
      <4>1. Gone /\ LiveRevoked
        BY <2>3 DEF Read, Gone, TypeOK, LiveRevoked, LiveAccounts, Found
      <4>2. tf.id \notin LiveAccounts' /\ tf' = NoEntry /\ adrift' = adrift
        BY <2>3, <3>2 DEF Read, LiveAccounts, Found
      <4> QED BY <4>1, <4>2, RevokesRefines
    <3> QED BY <3>1, <3>2
  <2>4. CASE Patch \/ PatchFails
    <3>1. \A i \in Ids : accounts'[i].st = accounts[i].st
      BY <2>4 DEF Patch, PatchFails, PatchRow, TypeOK, Accounts
    <3>2. tf'.id = tf.id /\ adrift' = adrift
      BY <2>4 DEF Patch, PatchFails, Goto, Return, TypeOK, Entries
    <3> QED BY <3>1, <3>2, SameAccounts DEF Unseen, Held
  <2>5. CASE Rotate \/ RotateUnanswered
    <3>1. \A i \in Ids : accounts'[i].st = accounts[i].st
      BY <2>5 DEF Rotate, RotateUnanswered, RotateRow, TypeOK, Accounts
    <3>2. tf'.id = tf.id /\ adrift' = adrift
      BY <2>5 DEF Rotate, RotateUnanswered, Return, ApplyMeta, TypeOK, Entries
    <3> QED BY <3>1, <3>2, SameAccounts DEF Unseen, Held
  <2>6. ASSUME NEW i \in Ids, Import(i) \/ Create(i) \/ CreateUnanswered(i)
        PROVE  Custodian!Next
    BY <2>6, ImportRefines, PostRefines
  <2>7. CASE \/ PlanNothing \/ PlanCreate \/ PlanUpdate \/ PlanDelete \/ ReadFails
             \/ CreateRefused \/ RotateRefused \/ StartRun \/ Crash
             \/ \E c \in Configurations : Configure(c)
    <3>1. accounts' = accounts /\ tf' = tf /\ adrift' = adrift
      BY <2>7 DEF PlanNothing, PlanCreate, PlanUpdate, PlanDelete, ReadFails, CreateRefused,
         RotateRefused, StartRun, Crash, Configure, Goto, Return, Entry
    <3> QED BY <3>1, SameAccounts DEF Unseen, Held
  <2> QED BY <2>1, <2>2, <2>3, <2>4, <2>5, <2>6, <2>7 DEF Next, User, Provider
<1>2. UNCHANGED vars => Unseen
  BY SameAccounts DEF vars, Unseen, Held
<1> QED BY <1>1, <1>2, UnseenIsStutter

\* A step that sets an account adrift has made it, and none is unmade.
LEMMA AdriftBornNext == IInv /\ AdriftBorn /\ [Next]_vars => AdriftBorn'
<1> SUFFICES ASSUME IInv, AdriftBorn, [Next]_vars PROVE AdriftBorn'
  OBVIOUS
<1>1. \A i \in Ids : accounts[i].st # "unborn" => accounts'[i].st # "unborn"
  <2> USE DEF IInv, TypeOK, Accounts
  <2>1. ASSUME NEW i \in Ids, Create(i) \/ CreateUnanswered(i) \/ OutOfBand(i)
        PROVE  \A j \in Ids : accounts[j].st # "unborn" => accounts'[j].st # "unborn"
    BY <2>1 DEF Create, CreateUnanswered, Post, OutOfBand
  <2>2. CASE Patch \/ PatchFails
    BY <2>2 DEF Patch, PatchFails, PatchRow
  <2>3. CASE Rotate \/ RotateUnanswered
    BY <2>3 DEF Rotate, RotateUnanswered, RotateRow
  <2>4. CASE Delete \/ DeleteFails
    BY <2>4 DEF Delete, DeleteFails, DeleteRow
  <2>5. CASE UNCHANGED accounts
    BY <2>5
  <2>6. \/ \E i \in Ids : Create(i) \/ CreateUnanswered(i) \/ OutOfBand(i)
        \/ Patch \/ PatchFails \/ Rotate \/ RotateUnanswered \/ Delete \/ DeleteFails
        \/ UNCHANGED accounts
    BY DEF Next, User, Provider, vars, Configure, StartRun, Crash, Import, PlanNothing,
       PlanCreate, PlanUpdate, PlanDelete, Read, ReadFails, CreateRefused, RotateRefused
  <2> QED BY <2>1, <2>2, <2>3, <2>4, <2>5, <2>6
<1>2. CASE \E i \in Ids : CreateUnanswered(i)
  BY <1>1, <1>2 DEF CreateUnanswered, Post, AdriftBorn, IInv, TypeOK
<1>3. CASE adrift' \subseteq adrift
  BY <1>1, <1>3 DEF AdriftBorn, IInv, TypeOK
<1>4. (\E i \in Ids : CreateUnanswered(i)) \/ adrift' \subseteq adrift
  BY DEF Next, User, Provider, vars, Configure, StartRun, Crash, Import, PlanNothing,
     PlanCreate, PlanUpdate, PlanDelete, Read, ReadFails, Create, CreateRefused, Patch,
     PatchFails, Rotate, RotateUnanswered, RotateRefused, Delete, DeleteFails, OutOfBand
<1> QED BY <1>2, <1>3, <1>4

\* The robot account keeps the custody of its rows: it implements Custody.
THEOREM RobotKeepsCustody == Spec => KeepsCustody
<1>1. Init => AdriftBorn
  BY DEF Init, AdriftBorn
<1> QED
  BY <1>1, AdriftBornNext, InitRefines, NextRefines, Invariance, PTL
  DEF Spec, KeepsCustody, Custodian!Spec
=============================================================================
