------------------------ MODULE ClusterCustody_proofs ------------------------
(***************************************************************************)
(* ClusterLifecycle implements Custody: every step of the cluster resource *)
(* is a step of the abstract custodian of the rows, or changes nothing it  *)
(* can see.                                                                *)
(***************************************************************************)
EXTENDS ClusterLifecycle_proofs

Held == {tf.id, draft.id} \ {NoId}
Dead == {i \in Ids : rows[i].st \in Torn}

\* A row is adrift only once it was created.
AdriftBorn == \A i \in adrift : rows[i].st # "unborn"

CInv == IInv /\ AdriftBorn

\* What the custodian sees unchanged.
Unseen == LiveRows' = LiveRows /\ Dead' = Dead /\ Held' = Held /\ adrift' = adrift

LEMMA UnseenIsStutter == Unseen => UNCHANGED Custodian!vars
BY DEF Unseen, Custodian!vars, Dead, Held

LEMMA SameRows == UNCHANGED rows => LiveRows' = LiveRows /\ Dead' = Dead /\ RowsMoveOn
BY DEF LiveRows, Dead, RowsMoveOn

\* Patching a cluster or accepting its deletion is not seen by the custodian.
LEMMA PatchUnseen ==
  ASSUME NEW i \in Ids, NEW size \in OptSizes, TypeOK, Patch(i, size)
  PROVE  Dead' = Dead
<1>1. CASE rows' = [rows EXCEPT ![i] =
                      [st |-> "resizing", size |-> size, want |-> size]]
  BY <1>1 DEF Patch, Patchable, Existing, TypeOK, Torn, Dead, Rows
<1>2. CASE rows' = [rows EXCEPT ![i].st = "queued", ![i].want = size]
  BY <1>2 DEF Patch, Patchable, Existing, TypeOK, Torn, Dead, Rows
<1> QED BY <1>1, <1>2 DEF Patch

LEMMA DeleteRowUnseen ==
  ASSUME NEW i \in Ids, TypeOK, DeleteRow(i)
  PROVE  Dead' = Dead
BY DEF DeleteRow, Existing, TypeOK, Torn, Dead, Rows

-----------------------------------------------------------------------------
LEMMA InitRefines == Init => Custodian!Init
BY NoEntryType DEF Init, Custodian!Init, LiveRows, Torn

\* The server finishes a teardown, or does something the custodian ignores.
LEMMA ServerRefines ==
  ASSUME CInv, Server
  PROVE  Custodian!Next \/ Unseen
<1>0. ServerOnly /\ Held' = Held /\ adrift' = adrift
  BY DEF Server, Reconcile, Reap, ServerOnly, Held
<1>1. PICK i \in Ids : Reconcile(i) \/ Reap(i)
  BY DEF Server
<1>2. rows[i] \in Rows /\ rows \in [Ids -> Rows]
  BY DEF CInv, IInv, TypeOK
<1>3. /\ \A j \in Ids : j # i => rows'[j] = rows[j]
      /\ rows[i].st # "unborn"
  BY <1>1, <1>2 DEF Reconcile, Reap, Existing
<1>4. rows'[i].st # "unborn"
  BY <1>1, <1>2, <1>3, ServerMoves DEF CInv, IInv, RowsMoveOn
<1>5. CASE i \in LiveRows /\ i \in Dead'
  <2>1. LiveRows' = LiveRows \ {i} /\ Dead' = Dead \cup {i}
    BY <1>3, <1>5 DEF LiveRows, Dead
  <2> QED BY <1>0, <1>5, <2>1 DEF Custodian!Next, Custodian!Die, Held, Dead
<1>6. CASE ~(i \in LiveRows /\ i \in Dead')
  <2>1. rows[i].st \in Torn => rows'[i].st \in Torn
    BY ServerMoves DEF CInv, IInv, RowsMoveOn
  <2>2. LiveRows' = LiveRows /\ Dead' = Dead
    BY <1>3, <1>4, <1>6, <2>1 DEF LiveRows, Dead
  <2> QED BY <1>0, <2>2 DEF Unseen
<1> QED BY <1>5, <1>6

LEMMA UserRefines ==
  ASSUME CInv, User
  PROVE  Custodian!Next \/ Unseen
<1> USE NoEntryType
<1>0. rows' = rows /\ LiveRows' = LiveRows /\ Dead' = Dead
  BY SameRows DEF User, Configure, StartRun, Crash, Untaint, Import
<1>1. CASE (\E c \in Configurations : Configure(c)) \/ StartRun
  BY <1>0, <1>1 DEF Configure, StartRun, Unseen, Held
<1>2. CASE Untaint
  <2>1. tf'.id = tf.id
    BY <1>2 DEF Untaint, CInv, IInv, TypeOK, Entries
  <2> QED BY <1>0, <1>2, <2>1 DEF Untaint, Unseen, Held
<1>3. CASE Crash
  <2>1. Held' = {tf.id} \ {NoId} /\ adrift' = adrift \cup ({draft.id} \ {tf.id, NoId})
    BY <1>3 DEF Crash, Return, Held
  <2>2. CASE draft.id \in {tf.id, NoId}
    BY <1>0, <2>1, <2>2 DEF Unseen, Held
  <2>3. CASE draft.id \notin {tf.id, NoId}
    <3>1. draft.id \in Ids
      BY <2>3 DEF CInv, IInv, TypeOK, Entries, OptIds
    <3>2. draft.id \in Held /\ Held' = Held \ {draft.id} /\ adrift' = adrift \cup {draft.id}
      BY <2>1, <2>3 DEF Held
    <3>3. Custodian!Lose
      BY <1>0, <3>2 DEF Custodian!Lose, Held, Dead
    <3> QED BY <3>1, <3>3 DEF Custodian!Next
  <2> QED BY <2>2, <2>3
<1>4. ASSUME NEW i \in Ids, Import(i)
      PROVE  Custodian!Next
  <2>1. tf'.id = i /\ draft' = draft /\ adrift' = adrift \ {i}
    BY <1>4, SeenType, SetClusterStateType DEF Import, CInv, IInv, TypeOK, Observations
  <2>2. tf.id = NoId /\ draft.id = NoId /\ i # NoId
    BY <1>4 DEF Import, CInv, IInv, Carried
  <2>3. i \in LiveRows \ Held /\ Held' = Held \cup {i}
    BY <1>4, <2>1, <2>2 DEF Import, Found, LiveRows, Torn, Held
  <2>4. Custodian!Adopt(i)
    BY <1>0, <2>1, <2>3 DEF Custodian!Adopt, Held, Dead
  <2> QED BY <2>4 DEF Custodian!Next
<1> QED BY <1>1, <1>2, <1>3, <1>4 DEF User

\* Returning an entry for the same row, or for none when the row is torn down.
LEMMA ReturnRefines ==
  ASSUME CInv, NEW v, NEW e \in Entries, Return(v, e),
         LiveRows' = LiveRows, Dead' = Dead, adrift' = adrift,
         \/ e.id = draft.id /\ tf.id \in {draft.id, NoId}
         \/ e.id = tf.id /\ draft.id \in {tf.id, NoId}
         \/ e.id = NoId /\ draft.id = NoId /\ tf.id \in Ids \ LiveRows
  PROVE  Custodian!Next \/ Unseen
<1> USE NoEntryType
<1>1. Held' = {e.id} \ {NoId}
  BY DEF Return, Held
<1>2. CASE e.id = NoId /\ draft.id = NoId /\ tf.id \in Ids \ LiveRows
  <2>1. Custodian!Die
    BY <1>1, <1>2 DEF Custodian!Die, Held, Dead
  <2> QED BY <1>2, <2>1 DEF Custodian!Next
<1>3. CASE e.id = draft.id /\ tf.id \in {draft.id, NoId}
  BY <1>1, <1>3 DEF Unseen, Held
<1>4. CASE e.id = tf.id /\ draft.id \in {tf.id, NoId}
  BY <1>1, <1>4 DEF Unseen, Held
<1> QED BY <1>2, <1>3, <1>4

LEMMA RefreshRefines ==
  ASSUME CInv, Read \/ ReadFails
  PROVE  Custodian!Next \/ Unseen
<1> USE NoEntryType
<1>0. /\ rows' = rows /\ LiveRows' = LiveRows /\ Dead' = Dead /\ adrift' = adrift
      /\ tf.id \in Ids /\ tf \in Entries /\ draft.id = NoId
  BY SameRows DEF Read, ReadFails, CInv, IInv, TypeOK, Carried
<1>1. CASE ReadFails
  BY <1>0, <1>1, ReturnRefines DEF ReadFails, Fail
<1>2. CASE Read /\ tf' = SetClusterState(tf, tf.id, Seen(tf.id)) /\ Found(tf.id)
  <2>1. tf'.id = tf.id /\ draft' = draft
    BY <1>0, <1>2, SeenType, SetClusterStateType DEF Read, CInv, IInv, TypeOK, Observations
  <2> QED BY <1>0, <2>1 DEF Unseen, Held
<1>3. CASE Read /\ tf' = NoEntry /\ (~Found(tf.id) \/ rows[tf.id].st = "destroyed")
  <2>1. Held' = Held \ {tf.id} /\ tf.id \in Held \ LiveRows
    BY <1>0, <1>3 DEF Read, Held, LiveRows, Found, Torn
  <2>2. Custodian!Die
    BY <1>0, <2>1 DEF Custodian!Die, Held, Dead
  <2> QED BY <1>0, <2>2 DEF Custodian!Next
<1> QED BY <1>1, <1>2, <1>3 DEF Read

LEMMA PlanRefines ==
  ASSUME CInv, PlanNothing \/ PlanCreate \/ PlanUpdate \/ PlanDelete
  PROVE  Custodian!Next \/ Unseen
<1> USE NoEntryType
<1>0. /\ rows' = rows /\ LiveRows' = LiveRows /\ Dead' = Dead /\ adrift' = adrift
      /\ tf \in Entries /\ draft.id = NoId
  BY SameRows DEF PlanNothing, PlanCreate, PlanUpdate, PlanDelete, CInv, IInv, TypeOK, Carried
<1>1. CASE PlanNothing
  BY <1>0, <1>1, ReturnRefines DEF PlanNothing, Done
<1>2. CASE PlanCreate \/ PlanUpdate \/ PlanDelete
  BY <1>0, <1>2 DEF PlanCreate, PlanUpdate, PlanDelete, Goto, Unseen, Held
<1> QED BY <1>1, <1>2

\* A create makes a row, or adopts the one the environment already has.
LEMMA CreateRefines ==
  ASSUME CInv,
         \/ \E i \in Ids : Create(i) \/ CreateUnanswered(i)
         \/ CreateRefused
  PROVE  Custodian!Next \/ Unseen
<1> USE NoEntryType
<1>0. /\ tf.id = NoId /\ draft.id = NoId /\ Held = {}
      /\ TypeOK /\ LiveRows \subseteq adrift
  BY DEF CInv, IInv, Carried, Create, CreateUnanswered, CreateRefused, Held, NoOrphan, LiveRows
<1>1. CreateSize \in OptSizes
  BY ConstantsAssumption DEF CreateSize, OptSizes, CInv, IInv, TypeOK
<1>2. ASSUME NEW i \in Ids, Post(i, CreateSize)
      PROVE  \/ i \in LiveRows /\ LiveRows' = LiveRows /\ Dead' = Dead
             \/ /\ i \notin LiveRows \cup Dead \cup adrift
                /\ LiveRows' = LiveRows \cup {i}
                /\ Dead' = Dead
  <2>1. CASE Existing(i) /\ UNCHANGED rows
    BY <2>1 DEF Existing, LiveRows, Torn, Dead
  <2>2. CASE rows[i].st = "unborn"
    <3>1. /\ rows'[i].st \notin Torn \cup {"unborn"}
          /\ \A j \in Ids : j # i => rows'[j] = rows[j]
      BY <1>0, <1>1, <1>2, PostMoves
    <3> QED BY <2>2, <3>1 DEF LiveRows, Dead, Torn, CInv, AdriftBorn
  <2> QED BY <1>2, <2>1, <2>2 DEF Post
<1>3. ASSUME NEW i \in Ids, Create(i)
      PROVE  Custodian!Next
  <2>1. draft'.id = i /\ tf' = tf /\ adrift' = adrift \ {i}
    <3>1. Seen(i)' \in Observations
      BY <1>0, <1>1, <1>3, PostMoves
         DEF Create, Seen, Observations, Rows, RowStatuses, ShownStatuses, Torn
    <3> QED BY <1>0, <1>3, <3>1, PlannedType, SetClusterStateType DEF Create, Goto, TypeOK
  <2>2. Held' = {i}
    BY <1>0, <2>1 DEF Held
  <2>3. Custodian!Create(i) \/ Custodian!Adopt(i)
    BY <1>0, <1>2, <1>3, <2>1, <2>2
       DEF Create, Custodian!Create, Custodian!Adopt, Held, Dead
  <2> QED BY <2>3 DEF Custodian!Next
<1>4. ASSUME NEW i \in Ids, CreateUnanswered(i)
      PROVE  Custodian!Next \/ Unseen
  <2>1. Held' = Held /\ adrift' = adrift \cup {i}
    BY <1>0, <1>4 DEF CreateUnanswered, Fail, Return, Held
  <2>2. CASE i \in LiveRows /\ LiveRows' = LiveRows /\ Dead' = Dead
    BY <1>0, <2>1, <2>2 DEF Unseen
  <2>3. CASE /\ i \notin LiveRows \cup Dead \cup adrift
             /\ LiveRows' = LiveRows \cup {i}
             /\ Dead' = Dead
    <3>1. Custodian!Create(i)
      BY <2>1, <2>3 DEF Custodian!Create, Held, Dead
    <3> QED BY <3>1 DEF Custodian!Next
  <2> QED BY <1>2, <1>4, <2>2, <2>3 DEF CreateUnanswered
<1>5. CASE CreateRefused
  BY <1>0, <1>5, SameRows, ReturnRefines DEF CreateRefused, Fail
<1> QED BY <1>3, <1>4, <1>5

LEMMA CreateWaitRefines ==
  ASSUME CInv, CreateActive \/ CreateBroken \/ CreateWaitAborts
  PROVE  Custodian!Next \/ Unseen
<1> USE NoEntryType
<1>0. /\ LiveRows' = LiveRows /\ Dead' = Dead /\ adrift' = adrift
      /\ tf.id = NoId /\ draft.id \in Ids /\ draft \in Entries
  BY SameRows DEF CreateActive, CreateBroken, CreateWaitAborts, CInv, IInv, TypeOK, Carried
<1>1. ASSUME NEW v, NEW e \in Entries, Return(v, e), e.id = draft.id
      PROVE  Custodian!Next \/ Unseen
  BY <1>0, <1>1, ReturnRefines
<1>2. ASSUME Found(draft.id)
      PROVE  /\ SetClusterState(draft, draft.id, Seen(draft.id)) \in Entries
             /\ SetClusterState(draft, draft.id, Seen(draft.id)).id = draft.id
  <2>1. Seen(draft.id) \in Observations
    BY <1>0, <1>2, SeenType DEF CInv, IInv, TypeOK, Observations
  <2> QED BY <1>0, <2>1, SetClusterStateType
<1>3. ASSUME NEW e \in Entries
      PROVE  [e EXCEPT !.tainted = TRUE] \in Entries /\ [e EXCEPT !.tainted = TRUE].id = e.id
  BY DEF Entries
<1>4. CASE CreateActive
  BY <1>1, <1>2, <1>3, <1>4 DEF CreateActive, Fail, Done
<1>5. CASE CreateBroken
  BY <1>1, <1>2, <1>3, <1>5 DEF CreateBroken, Fail
<1>6. CASE CreateWaitAborts
  BY <1>0, <1>1, <1>3, <1>6 DEF CreateWaitAborts, Fail
<1> QED BY <1>4, <1>5, <1>6

LEMMA UpdateRefines ==
  ASSUME CInv,
         \/ UpdateTimeouts \/ RecoverResize \/ UpdateRefreshes
         \/ Resize \/ ResizeUnverified \/ UpdateFails
  PROVE  Custodian!Next \/ Unseen
<1> USE NoEntryType
<1>0. /\ adrift' = adrift /\ TypeOK
      /\ tf.id \in Ids /\ draft.id = tf.id /\ tf \in Entries
  BY DEF UpdateTimeouts, RecoverResize, UpdateRefreshes, Resize, ResizeUnverified,
         UpdateFails, CInv, IInv, TypeOK, Carried
<1>1. LiveRows' = LiveRows /\ Dead' = Dead
  <2>1. CASE Resize \/ ResizeUnverified
    <3>1. cfg.size \in OptSizes /\ Patch(tf.id, cfg.size)
      BY <1>0, <2>1 DEF Resize, ResizeUnverified, TypeOK
    <3> QED BY <1>0, <3>1, PatchMoves, PatchUnseen
  <2>2. CASE UpdateTimeouts \/ RecoverResize \/ UpdateRefreshes \/ UpdateFails
    BY <2>2, SameRows DEF UpdateTimeouts, RecoverResize, UpdateRefreshes, UpdateFails
  <2> QED BY <2>1, <2>2
<1>2. ASSUME NEW o \in Observations
      PROVE  LET e == SetClusterState(Planned(tf), tf.id, o)
             IN e \in Entries /\ e.id = tf.id
  BY <1>0, PlannedType, SetClusterStateType DEF TypeOK
<1>3. Found(tf.id) => Seen(tf.id) \in Observations
  BY <1>0, SeenType DEF TypeOK, Observations
<1>4. ASSUME draft'.id = tf.id, Goto("resizeWait")
      PROVE  Unseen
  BY <1>0, <1>1, <1>4 DEF Goto, Unseen, Held
<1>5. CASE UpdateTimeouts
  BY <1>0, <1>1, <1>5, ReturnRefines DEF UpdateTimeouts, Done
<1>6. CASE RecoverResize
  BY <1>2, <1>3, <1>4, <1>6 DEF RecoverResize
<1>7. CASE UpdateRefreshes
  BY <1>0, <1>1, <1>2, <1>3, <1>7, ReturnRefines DEF UpdateRefreshes, Done
<1>8. CASE Resize
  <2>1. [st |-> "resizing", size |-> cfg.size] \in Observations
    BY <1>0 DEF Observations, ShownStatuses, TypeOK
  <2> QED BY <1>2, <1>4, <1>8, <2>1 DEF Resize
<1>9. CASE ResizeUnverified \/ UpdateFails
  BY <1>0, <1>1, <1>9, ReturnRefines DEF ResizeUnverified, UpdateFails, Fail
<1> QED BY <1>5, <1>6, <1>7, <1>8, <1>9

LEMMA ResizeWaitRefines ==
  ASSUME CInv, ResizeSeesOther \/ Resized \/ ResizeBroken \/ ResizeWaitAborts
  PROVE  Custodian!Next \/ Unseen
<1> USE NoEntryType
<1>0. /\ LiveRows' = LiveRows /\ Dead' = Dead /\ adrift' = adrift
      /\ tf.id \in Ids /\ draft.id = tf.id /\ draft \in Entries /\ last \in Observations
  BY SameRows DEF ResizeSeesOther, Resized, ResizeBroken, ResizeWaitAborts,
     CInv, IInv, TypeOK, Carried
<1>1. ASSUME NEW o \in Observations
      PROVE  LET e == SetClusterState(draft, draft.id, o)
             IN e \in Entries /\ e.id = tf.id
  BY <1>0, SetClusterStateType
<1>2. Found(draft.id) => Seen(draft.id) \in Observations
  BY <1>0, SeenType DEF CInv, IInv, TypeOK, Observations
<1>3. CASE ResizeSeesOther
  BY <1>0, <1>3 DEF ResizeSeesOther, Unseen, Held
<1>4. CASE Resized \/ ResizeBroken
  BY <1>0, <1>1, <1>2, <1>4, ReturnRefines DEF Resized, ResizeBroken, Done, Fail
<1>5. CASE ResizeWaitAborts
  BY <1>0, <1>1, <1>5, ReturnRefines DEF ResizeWaitAborts, Fail
<1> QED BY <1>3, <1>4, <1>5

LEMMA DeleteRefines ==
  ASSUME CInv, Delete \/ DeleteFails \/ DeleteDone \/ DeleteWaitAborts
  PROVE  Custodian!Next \/ Unseen
<1> USE NoEntryType
<1>0. /\ adrift' = adrift /\ TypeOK
      /\ tf.id \in Ids /\ draft.id = NoId /\ tf \in Entries
  BY DEF Delete, DeleteFails, DeleteDone, DeleteWaitAborts, CInv, IInv, TypeOK, Carried
<1>1. LiveRows' = LiveRows /\ Dead' = Dead
  <2>1. UNCHANGED rows \/ DeleteRow(tf.id)
    BY DEF Delete, DeleteFails, DeleteDone, DeleteWaitAborts
  <2> QED BY <1>0, <2>1, SameRows, DeleteRowMoves, DeleteRowUnseen
<1>2. CASE Delete
  BY <1>0, <1>1, <1>2 DEF Delete, Goto, Unseen, Held
<1>3. CASE DeleteFails \/ DeleteWaitAborts
  BY <1>0, <1>1, <1>3, ReturnRefines DEF DeleteFails, DeleteWaitAborts, Fail
<1>4. CASE DeleteDone
  <2>1. tf.id \notin LiveRows
    BY <1>0, <1>4 DEF DeleteDone, Found, Seen, LiveRows, Torn
  <2>2. CASE replacing
    <3>1. Custodian!Die
      BY <1>0, <1>1, <1>4, <2>1, <2>2 DEF DeleteDone, Custodian!Die, Held, Dead
    <3> QED BY <1>0, <3>1 DEF Custodian!Next
  <2>3. CASE ~replacing
    BY <1>0, <1>1, <1>4, <2>1, <2>3, ReturnRefines DEF DeleteDone, Done
  <2> QED BY <2>2, <2>3
<1> QED BY <1>2, <1>3, <1>4

LEMMA NextRefines == CInv /\ [Next]_vars => [Custodian!Next]_(Custodian!vars)
<1>1. CInv /\ Next => Custodian!Next \/ Unseen
  BY UserRefines, ServerRefines, RefreshRefines, PlanRefines, CreateRefines,
     CreateWaitRefines, UpdateRefines, ResizeWaitRefines, DeleteRefines DEF Next, Provider
<1>2. UNCHANGED vars => Unseen
  BY SameRows DEF vars, Unseen, Held
<1> QED BY <1>1, <1>2, UnseenIsStutter

-----------------------------------------------------------------------------
\* No step ever takes a row back to before its creation.
LEMMA NextMoves ==
  ASSUME IInv, Next
  PROVE  RowsMoveOn
<1>0. TypeOK
  BY DEF IInv
<1>1. CASE UNCHANGED rows
  BY <1>1, SameRows
<1>2. CASE Server
  BY <1>0, <1>2, ServerMoves
<1>3. ASSUME NEW i \in Ids, Create(i) \/ CreateUnanswered(i)
      PROVE  RowsMoveOn
  <2>1. CreateSize \in OptSizes /\ Post(i, CreateSize)
    BY <1>0, <1>3, ConstantsAssumption
       DEF Create, CreateUnanswered, CreateSize, OptSizes, TypeOK
  <2> QED BY <1>0, <2>1, PostMoves
<1>4. CASE Resize \/ ResizeUnverified
  <2>1. cfg.size \in OptSizes /\ tf.id \in Ids /\ Patch(tf.id, cfg.size)
    BY <1>0, <1>4 DEF Resize, ResizeUnverified, TypeOK, IInv, Carried
  <2> QED BY <1>0, <2>1, PatchMoves
<1>5. CASE (Delete \/ DeleteFails) /\ DeleteRow(tf.id)
  <2>1. tf.id \in Ids
    BY <1>5 DEF Delete, DeleteFails, IInv, Carried
  <2> QED BY <1>0, <1>5, <2>1, DeleteRowMoves
<1>6. CASE User
  <2>1. UNCHANGED rows
    BY <1>6 DEF User, Configure, StartRun, Crash, Untaint, Import
  <2> QED BY <1>1, <2>1
<1>7. CASE Provider
  <2>1. CASE Delete \/ DeleteFails
    BY <1>1, <1>5, <2>1 DEF Delete, DeleteFails
  <2>2. CASE Read \/ ReadFails \/ PlanNothing \/ PlanCreate \/ PlanUpdate \/ PlanDelete
             \/ CreateRefused \/ CreateActive \/ CreateBroken \/ CreateWaitAborts
    BY <1>1, <2>2 DEF Read, ReadFails, PlanNothing, PlanCreate, PlanUpdate, PlanDelete,
       CreateRefused, CreateActive, CreateBroken, CreateWaitAborts
  <2>3. CASE UpdateTimeouts \/ RecoverResize \/ UpdateRefreshes \/ UpdateFails
             \/ ResizeSeesOther \/ Resized \/ ResizeBroken \/ ResizeWaitAborts
             \/ DeleteDone \/ DeleteWaitAborts
    BY <1>1, <2>3 DEF UpdateTimeouts, RecoverResize, UpdateRefreshes, UpdateFails,
       ResizeSeesOther, Resized, ResizeBroken, ResizeWaitAborts, DeleteDone, DeleteWaitAborts
  <2> QED BY <1>3, <1>4, <1>7, <2>1, <2>2, <2>3 DEF Provider
<1> QED BY <1>2, <1>6, <1>7 DEF Next


\* The rows a step sets adrift were created before, or by that step.
LEMMA AdriftBornNext == CInv /\ [Next]_vars => AdriftBorn'
<1>1. CASE CInv /\ UNCHANGED vars
  BY <1>1 DEF CInv, AdriftBorn, vars
<1>2. CASE CInv /\ Next
  <2> USE <1>2 DEF CInv
  <2>1. RowsMoveOn /\ adrift \subseteq Ids
    BY NextMoves DEF IInv, TypeOK
  <2>2. CASE adrift' \subseteq adrift
    BY <2>1, <2>2 DEF AdriftBorn, RowsMoveOn
  <2>3. CASE Crash
    <3>1. draft.id \in OptIds
      BY DEF IInv, TypeOK, Entries
    <3> QED BY <2>1, <2>3, <3>1 DEF Crash, AdriftBorn, IInv, Born, OptIds
  <2>4. ASSUME NEW i \in Ids, CreateUnanswered(i)
        PROVE  AdriftBorn'
    <3>1. CreateSize \in OptSizes /\ Post(i, CreateSize)
      BY <2>4, ConstantsAssumption DEF CreateUnanswered, CreateSize, OptSizes, IInv, TypeOK
    <3>2. rows'[i].st # "unborn"
      BY <3>1, PostMoves DEF IInv
    <3> QED BY <2>1, <2>4, <3>2 DEF CreateUnanswered, AdriftBorn, RowsMoveOn
  <2>5. adrift' \subseteq adrift \/ Crash \/ (\E i \in Ids : CreateUnanswered(i))
    BY DEF Next, User, Configure, StartRun, Untaint, Import, Server, Reconcile, Reap,
       ServerOnly, Provider, Read, ReadFails, PlanNothing, PlanCreate, PlanUpdate,
       PlanDelete, Create, CreateRefused, CreateActive, CreateBroken, CreateWaitAborts,
       UpdateTimeouts, RecoverResize, UpdateRefreshes, Resize, ResizeUnverified,
       UpdateFails, ResizeSeesOther, Resized, ResizeBroken, ResizeWaitAborts,
       Delete, DeleteFails, DeleteDone, DeleteWaitAborts
  <2> QED BY <2>2, <2>3, <2>4, <2>5
<1> QED BY <1>1, <1>2

\* The cluster resource keeps the custody of its rows: it implements Custody.
THEOREM ClusterKeepsCustody == Spec => KeepsCustody
<1>1. Init => CInv
  BY IInvInit DEF CInv, AdriftBorn, Init
<1>2. CInv /\ [Next]_vars => CInv'
  BY IInvNext, AdriftBornNext DEF CInv
<1> QED BY <1>1, <1>2, InitRefines, NextRefines, PTL DEF Spec, KeepsCustody, Custodian!Spec
=============================================================================
