----------------------- MODULE ClusterLifecycle_proofs -----------------------
(***************************************************************************)
(* Proofs about ClusterLifecycle: its type invariant, that no cluster is   *)
(* orphaned, that a released cluster is torn down, that there is no second *)
(* cluster and that a custom sizing is confirmed, for any number of server *)
(* ids and any set of sizings.                                             *)
(***************************************************************************)
EXTENDS ClusterLifecycle, TLAPS

\* What the handlers carry at each point of an operation.
Carried ==
  /\ tf # NoEntry => tf.id \in Ids
  /\ pc \in {"refresh", "update", "resizeWait", "delete", "deleteWait"} => tf.id \in Ids
  /\ pc \in {"create", "createWait"} => tf.id = NoId
  /\ pc = "createWait" => draft.id \in Ids
  /\ pc \in {"update", "resizeWait"} => draft.id = tf.id
  /\ pc \notin {"createWait", "update", "resizeWait"} => draft.id = NoId

\* An id the provider ever got hold of belongs to a row the server created.
Born == \A i \in Ids :
          i \in {tf.id, draft.id} \cup released => rows[i].st # "unborn"

IInv == TypeOK /\ Carried /\ Born /\ NoOrphan /\ ReleasedAreTorn

\* The life of a row has a direction: nothing is unborn again, and nothing
\* that is torn down comes back.
RowsMoveOn ==
  \A i \in Ids : /\ rows[i].st # "unborn" => rows'[i].st # "unborn"
                 /\ rows[i].st \in Torn => rows'[i].st \in Torn

-----------------------------------------------------------------------------
\* The server's side of each request keeps the table well-typed and only moves
\* rows on; a POST alone can make a row live.
LEMMA PostMoves ==
  ASSUME NEW i \in Ids, NEW size \in OptSizes, TypeOK, Post(i, size)
  PROVE  /\ rows' \in [Ids -> Rows]
         /\ RowsMoveOn
         /\ rows'[i].st \notin Torn \cup {"unborn"}
         /\ \A j \in Ids : j # i => rows'[j] = rows[j]
<1>1. CASE Existing(i) /\ UNCHANGED rows
  BY <1>1 DEF TypeOK, Existing, RowsMoveOn, Torn
<1>2. CASE /\ rows[i].st = "unborn"
           /\ rows' = [rows EXCEPT ![i] =
                         [st |-> "provisioning", size |-> size, want |-> NoSize]]
  BY <1>2 DEF TypeOK, RowsMoveOn, Torn, Rows, RowStatuses, OptSizes
<1> QED BY <1>1, <1>2 DEF Post

LEMMA PatchMoves ==
  ASSUME NEW i \in Ids, NEW size \in OptSizes, TypeOK, Patch(i, size)
  PROVE  /\ rows' \in [Ids -> Rows]
         /\ RowsMoveOn
         /\ LiveRows' = LiveRows
<1>1. CASE rows' = [rows EXCEPT ![i] =
                      [st |-> "resizing", size |-> size, want |-> size]]
  BY <1>1 DEF Patch, Patchable, Existing, TypeOK, RowsMoveOn, Torn, LiveRows,
              Rows, RowStatuses, OptSizes
<1>2. CASE rows' = [rows EXCEPT ![i].st = "queued", ![i].want = size]
  BY <1>2 DEF Patch, Patchable, Existing, TypeOK, RowsMoveOn, Torn, LiveRows,
              Rows, RowStatuses, OptSizes
<1> QED BY <1>1, <1>2 DEF Patch

LEMMA DeleteRowMoves ==
  ASSUME NEW i \in Ids, TypeOK, DeleteRow(i)
  PROVE  /\ rows' \in [Ids -> Rows]
         /\ RowsMoveOn
         /\ LiveRows' = LiveRows
BY DEF DeleteRow, Existing, TypeOK, RowsMoveOn, Torn, LiveRows, Rows, RowStatuses

LEMMA ServerMoves ==
  ASSUME TypeOK, Server
  PROVE  /\ rows' \in [Ids -> Rows]
         /\ RowsMoveOn
         /\ LiveRows' \subseteq LiveRows
<1>1. ASSUME NEW i \in Ids, Reconcile(i)
      PROVE  /\ rows' \in [Ids -> Rows]
             /\ RowsMoveOn
             /\ LiveRows' \subseteq LiveRows
  BY <1>1 DEF Reconcile, TypeOK, RowsMoveOn, Torn, LiveRows, Rows, RowStatuses, OptSizes
<1>2. ASSUME NEW i \in Ids, Reap(i)
      PROVE  /\ rows' \in [Ids -> Rows]
             /\ RowsMoveOn
             /\ LiveRows' \subseteq LiveRows
  BY <1>2 DEF Reap, Existing, TypeOK, RowsMoveOn, Torn, LiveRows, Rows, RowStatuses
<1> QED BY <1>1, <1>2 DEF Server

\* What a GET shows is an observation, and the entry written from one is typed.
LEMMA SeenType ==
  ASSUME NEW i \in Ids, rows \in [Ids -> Rows], Found(i)
  PROVE  Seen(i) \in [st : ShownStatuses, size : OptSizes]
BY DEF Seen, Found, Rows, RowStatuses, ShownStatuses

LEMMA SetClusterStateType ==
  ASSUME NEW e \in Entries, NEW i \in Ids,
         NEW o \in Observations
  PROVE  /\ SetClusterState(e, i, o) \in Entries
         /\ SetClusterState(e, i, o).id = i
BY DEF SetClusterState, Entries, Observations, OptIds, OptSizes

LEMMA PlannedType ==
  ASSUME NEW e \in Entries, cfg \in [mode : Modes, size : OptSizes]
  PROVE  Planned(e) \in Entries
BY DEF Planned, Entries, OptSizes

LEMMA NoEntryType == NoEntry \in Entries /\ NoEntry.id = NoId /\ NoId \notin Ids
BY ConstantsAssumption DEF NoEntry, Entries, OptIds, OptSizes

-----------------------------------------------------------------------------
\* A handler that returns entry e keeps the invariant if e carries every live
\* row the handler was responsible for and drops only what is torn down.
LEMMA ReturnKeeps ==
  ASSUME IInv, NEW v \in {"none", "clean", "failed"}, NEW e \in Entries, Return(v, e),
         rows' \in [Ids -> Rows], RowsMoveOn,
         cfg' = cfg, owed' \in OptSizes, adrift' \in SUBSET Ids,
         e # NoEntry => e.id \in Ids /\ rows'[e.id].st # "unborn",
         \A i \in LiveRows' : i \in {e.id} \cup adrift',
         tf.id \notin {e.id, NoId} => rows'[tf.id].st \in Torn
  PROVE  IInv'
<1> USE NoEntryType
<1>0. tf.id \in OptIds /\ e.id \in OptIds
  BY DEF IInv, TypeOK, Entries
<1>1. TypeOK'
  BY <1>0 DEF IInv, TypeOK, Return, Points, NoObservation, Observations, OptSizes,
              ShownStatuses, OptIds
<1>2. Carried'
  BY DEF Return, Carried
<1>3. Born'
  BY <1>0 DEF IInv, Born, Return, RowsMoveOn, Torn, OptIds
<1>4. NoOrphan'
  BY DEF NoOrphan, Return
<1>5. ReleasedAreTorn'
  BY <1>0 DEF IInv, ReleasedAreTorn, Return, RowsMoveOn, OptIds, TypeOK
<1> QED BY <1>1, <1>2, <1>3, <1>4, <1>5 DEF IInv

\* Returning the prior entry is always safe while no row is born.
LEMMA ReturnPriorKeeps ==
  ASSUME IInv, NEW v \in {"none", "clean", "failed"}, NEW e \in Entries, Return(v, e),
         e.id = tf.id, e = tf \/ tf.id \in Ids,
         draft.id \in {tf.id, NoId},
         rows' \in [Ids -> Rows], RowsMoveOn, LiveRows' \subseteq LiveRows,
         cfg' = cfg, owed' \in OptSizes, adrift' = adrift
  PROVE  IInv'
<1> USE NoEntryType
<1>1. e # NoEntry => e.id \in Ids /\ rows'[e.id].st # "unborn"
  BY DEF IInv, Carried, Born, RowsMoveOn
<1>2. \A i \in LiveRows' : i \in {e.id} \cup adrift'
  BY DEF IInv, NoOrphan, LiveRows
<1>3. adrift' \in SUBSET Ids
  BY DEF IInv, TypeOK
<1> QED BY <1>1, <1>2, <1>3, ReturnKeeps

\* A step of the operation that keeps the saved entry.
LEMMA GotoKeeps ==
  ASSUME IInv, NEW p \in Points, Goto(p),
         rows' \in [Ids -> Rows], RowsMoveOn,
         cfg' = cfg, owed' \in OptSizes, adrift' \in SUBSET Ids, draft' \in Entries,
         target' \in OptSizes, last' = last, replacing' \in BOOLEAN,
         Carried',
         draft'.id \in Ids => rows'[draft'.id].st # "unborn",
         \A i \in LiveRows' : i \in {tf.id, draft'.id} \cup adrift'
  PROVE  IInv'
<1> USE NoEntryType
<1>1. TypeOK'
  BY DEF IInv, TypeOK, Goto
<1>2. Born'
  BY DEF IInv, Born, Goto, RowsMoveOn
<1>3. NoOrphan'
  BY DEF NoOrphan, Goto
<1>4. ReleasedAreTorn'
  BY DEF IInv, ReleasedAreTorn, Goto, RowsMoveOn, TypeOK
<1> QED BY <1>1, <1>2, <1>3, <1>4 DEF IInv

-----------------------------------------------------------------------------
LEMMA IInvInit == Init => IInv
<1> SUFFICES ASSUME Init PROVE IInv
  OBVIOUS
<1> USE NoEntryType DEF Init
<1>1. TypeOK
  BY ConstantsAssumption DEF TypeOK, Rows, RowStatuses, OptSizes, Modes, Points,
     NoObservation, Observations
<1>2. Carried /\ Born /\ NoOrphan /\ ReleasedAreTorn
  BY DEF Carried, Born, NoOrphan, ReleasedAreTorn, LiveRows
<1> QED BY <1>1, <1>2 DEF IInv

LEMMA StutterKeeps == IInv /\ UNCHANGED vars => IInv'
BY DEF IInv, TypeOK, Carried, Born, NoOrphan, ReleasedAreTorn, LiveRows, vars

LEMMA ServerKeeps ==
  ASSUME IInv, Server
  PROVE  IInv'
<1>1. ServerOnly
  BY DEF Server, Reconcile, Reap
<1>2. rows' \in [Ids -> Rows] /\ RowsMoveOn /\ LiveRows' \subseteq LiveRows
  BY ServerMoves DEF IInv
<1>3. TypeOK' /\ Carried'
  BY <1>1, <1>2 DEF IInv, TypeOK, Carried, ServerOnly
<1>4. Born' /\ ReleasedAreTorn'
  BY <1>1, <1>2 DEF IInv, Born, ReleasedAreTorn, RowsMoveOn, ServerOnly, TypeOK
<1>5. NoOrphan'
  BY <1>1, <1>2 DEF IInv, NoOrphan, ServerOnly
<1> QED BY <1>3, <1>4, <1>5 DEF IInv

LEMMA SettleType ==
  ASSUME NEW o, Settle(o), owed \in OptSizes
  PROVE  owed' \in OptSizes
BY DEF Settle, OptSizes

LEMMA UserKeeps ==
  ASSUME IInv, User
  PROVE  IInv'
<1> USE NoEntryType
<1>1. ASSUME NEW c \in Configurations, Configure(c)
      PROVE  IInv'
  BY <1>1 DEF Configure, Configurations, Modes, OptSizes, IInv, TypeOK, Carried, Born,
     NoOrphan, ReleasedAreTorn, LiveRows
<1>2. CASE StartRun
  BY <1>2 DEF StartRun, Points, IInv, TypeOK, Carried, Born,
     NoOrphan, ReleasedAreTorn, LiveRows
<1>3. CASE Crash
  <2>1. draft.id \in OptIds /\ tf.id \in OptIds /\ tf \in Entries
    BY DEF IInv, TypeOK, Entries
  <2>2. adrift' \in SUBSET Ids
    BY <1>3, <2>1 DEF Crash, IInv, TypeOK, OptIds
  <2>3. \A i \in LiveRows' : i \in {tf.id} \cup adrift'
    BY <1>3 DEF Crash, IInv, NoOrphan, LiveRows
  <2>4. rows' \in [Ids -> Rows] /\ RowsMoveOn /\ owed' \in OptSizes /\ cfg' = cfg
    BY <1>3 DEF Crash, IInv, TypeOK, RowsMoveOn
  <2>5. tf # NoEntry => tf.id \in Ids /\ rows'[tf.id].st # "unborn"
    BY <1>3 DEF Crash, IInv, Carried, Born
  <2> QED BY <1>3, <2>1, <2>2, <2>3, <2>4, <2>5, ReturnKeeps DEF Crash
<1>4. CASE Untaint
  <2>1. tf' \in Entries /\ tf'.id = tf.id
    BY <1>4 DEF Untaint, IInv, TypeOK, Entries
  <2>2. tf # NoEntry
    BY <1>4 DEF Untaint, NoEntry
  <2> QED BY <1>4, <2>1, <2>2 DEF Untaint, IInv, TypeOK, Carried, Born,
          NoOrphan, ReleasedAreTorn, LiveRows
<1>5. ASSUME NEW i \in Ids, Import(i)
      PROVE  IInv'
  <2>1. Seen(i) \in Observations
    BY <1>5, SeenType DEF Import, IInv, TypeOK, Observations
  <2>2. tf' \in Entries /\ tf'.id = i
    BY <1>5, <2>1, SetClusterStateType DEF Import
  <2>3. owed' \in OptSizes
    BY <1>5, SettleType DEF Import, IInv, TypeOK
  <2>4. rows[i].st # "unborn"
    BY <1>5 DEF Import, Found
  <2>5. TypeOK' /\ Carried'
    BY <1>5, <2>2, <2>3 DEF Import, IInv, TypeOK, Carried
  <2>6. Born' /\ NoOrphan' /\ ReleasedAreTorn'
    BY <1>5, <2>2, <2>4 DEF Import, IInv, Born, NoOrphan, ReleasedAreTorn, LiveRows
  <2> QED BY <2>5, <2>6 DEF IInv
<1> QED BY <1>1, <1>2, <1>3, <1>4, <1>5 DEF User

-----------------------------------------------------------------------------
\* The handlers, one operation at a time.
LEMMA RefreshKeeps ==
  ASSUME IInv, Read \/ ReadFails
  PROVE  IInv'
<1> USE NoEntryType
<1>0. tf.id \in OptIds /\ tf \in Entries /\ draft.id \in OptIds
  BY DEF IInv, TypeOK, Entries
<1>1. CASE /\ Read
           /\ Found(tf.id)
           /\ tf' = SetClusterState(tf, tf.id, Seen(tf.id))
           /\ Settle(Seen(tf.id))
           /\ UNCHANGED released
  <2>1. tf.id \in Ids /\ Seen(tf.id) \in Observations
    BY <1>1, SeenType DEF Found, IInv, TypeOK, Observations
  <2>2. tf' \in Entries /\ tf'.id = tf.id
    BY <1>0, <1>1, <2>1, SetClusterStateType
  <2>3. owed' \in OptSizes
    BY <1>1, SettleType DEF IInv, TypeOK
  <2>4. TypeOK' /\ Carried'
    BY <1>1, <2>1, <2>2, <2>3 DEF Read, IInv, TypeOK, Carried, Points
  <2>5. Born' /\ NoOrphan' /\ ReleasedAreTorn'
    BY <1>1, <2>2 DEF Read, IInv, Born, NoOrphan, ReleasedAreTorn, LiveRows
  <2> QED BY <2>4, <2>5 DEF IInv
<1>2. CASE /\ Read
           /\ ~Found(tf.id) \/ rows[tf.id].st = "destroyed"
           /\ tf' = NoEntry
           /\ released' = released \cup {tf.id}
           /\ owed' = NoSize
  <2>1. tf.id \in Ids /\ draft.id = NoId
    BY <1>2 DEF Read, IInv, Carried
  <2>2. rows[tf.id].st \in Torn
    BY <1>2, <2>1 DEF Found, Torn, IInv, Born
  <2>3. TypeOK' /\ Carried'
    BY <1>2, <2>1 DEF Read, IInv, TypeOK, Carried, Points, OptSizes
  <2>4. Born' /\ NoOrphan' /\ ReleasedAreTorn'
    BY <1>2, <2>1, <2>2 DEF Read, IInv, Born, NoOrphan, ReleasedAreTorn, LiveRows, Torn
  <2> QED BY <2>3, <2>4 DEF IInv
<1>3. CASE ReadFails
  <2>1. draft.id \in {tf.id, NoId} /\ rows' \in [Ids -> Rows] /\ RowsMoveOn
        /\ LiveRows' \subseteq LiveRows /\ owed' \in OptSizes
    BY <1>3 DEF ReadFails, IInv, TypeOK, Carried, RowsMoveOn, LiveRows
  <2> QED BY <1>0, <1>3, <2>1, ReturnPriorKeeps DEF ReadFails, Fail
<1> QED BY <1>1, <1>2, <1>3 DEF Read

LEMMA PlanKeeps ==
  ASSUME IInv, PlanNothing \/ PlanCreate \/ PlanUpdate \/ PlanDelete
  PROVE  IInv'
<1> USE NoEntryType
<1>0. /\ tf \in Entries /\ draft \in Entries
      /\ UNCHANGED <<rows, cfg, adrift, owed>>
  BY DEF IInv, TypeOK, PlanNothing, PlanCreate, PlanUpdate, PlanDelete
<1>1. /\ rows' \in [Ids -> Rows] /\ RowsMoveOn /\ LiveRows' = LiveRows
      /\ owed' \in OptSizes /\ adrift' \in SUBSET Ids /\ draft.id = NoId
  BY <1>0 DEF IInv, TypeOK, RowsMoveOn, LiveRows, Carried,
     PlanNothing, PlanCreate, PlanUpdate, PlanDelete
<1>2. CASE PlanNothing
  BY <1>0, <1>1, <1>2, ReturnPriorKeeps DEF PlanNothing, Done
<1>3. CASE PlanCreate
  <2>1. Carried' /\ draft' = draft /\ target' = target /\ last' = last /\ replacing' = replacing
    BY <1>3 DEF PlanCreate, IInv, Carried, Goto
  <2> QED BY <1>0, <1>1, <1>3, <2>1, GotoKeeps
          DEF PlanCreate, IInv, TypeOK, NoOrphan, Points
<1>4. CASE PlanUpdate
  <2>1. Carried' /\ draft' = tf /\ target' = target /\ last' = last /\ replacing' = replacing
    BY <1>4 DEF PlanUpdate, IInv, Carried, Goto
  <2>2. draft'.id \in Ids => rows'[draft'.id].st # "unborn"
    BY <1>0, <2>1 DEF IInv, Born
  <2>3. \A i \in LiveRows' : i \in {tf.id, draft'.id} \cup adrift'
    BY <1>0, <1>1, <2>1, NoEntryType DEF IInv, NoOrphan, LiveRows
  <2>4. Goto("update") /\ "update" \in Points
    BY <1>4 DEF PlanUpdate, Points
  <2>5. target' \in OptSizes /\ replacing' \in BOOLEAN
    BY <2>1 DEF IInv, TypeOK
  <2> QED BY <1>0, <1>1, <2>1, <2>2, <2>3, <2>4, <2>5, GotoKeeps
<1>5. CASE PlanDelete
  <2>1. Carried' /\ draft' = draft /\ target' = target /\ last' = last /\ replacing' \in BOOLEAN
    BY <1>5 DEF PlanDelete, IInv, Carried, Goto
  <2> QED BY <1>0, <1>1, <1>5, <2>1, GotoKeeps
          DEF PlanDelete, IInv, TypeOK, NoOrphan, Points
<1> QED BY <1>2, <1>3, <1>4, <1>5

LEMMA CreateKeeps ==
  ASSUME IInv,
         \/ \E i \in Ids : Create(i) \/ CreateUnanswered(i)
         \/ CreateRefused
  PROVE  IInv'
<1> USE NoEntryType
<1>0. /\ tf.id = NoId /\ draft.id = NoId /\ pc = "create"
      /\ cfg' = cfg /\ owed' = owed
  BY DEF IInv, Carried, Create, CreateUnanswered, CreateRefused
<1>1. CreateSize \in OptSizes
  BY ConstantsAssumption DEF CreateSize, OptSizes, IInv, TypeOK
<1>2. ASSUME NEW i \in Ids, Create(i)
      PROVE  IInv'
  <2>1. /\ rows' \in [Ids -> Rows] /\ RowsMoveOn
        /\ rows'[i].st \notin Torn \cup {"unborn"}
        /\ \A j \in Ids : j # i => rows'[j] = rows[j]
    BY <1>1, <1>2, PostMoves DEF Create, IInv
  <2>2. Seen(i)' \in Observations
    BY <2>1 DEF Seen, Observations, Rows, RowStatuses, ShownStatuses, Torn
  <2>3. draft' \in Entries /\ draft'.id = i
    BY <1>2, <2>2, PlannedType, SetClusterStateType DEF Create, IInv, TypeOK
  <2>4. Carried'
    BY <1>0, <1>2, <2>3 DEF Create, Goto, Carried, IInv
  <2>5. \A j \in LiveRows' : j \in {tf.id, draft'.id} \cup adrift'
    BY <1>0, <1>2, <2>1, <2>3 DEF Create, IInv, NoOrphan, LiveRows
  <2> QED BY <1>0, <1>2, <2>1, <2>3, <2>4, <2>5, GotoKeeps
          DEF Create, IInv, TypeOK, Points
<1>3. ASSUME NEW i \in Ids, CreateUnanswered(i)
      PROVE  IInv'
  <2>1. /\ rows' \in [Ids -> Rows] /\ RowsMoveOn
        /\ \A j \in Ids : j # i => rows'[j] = rows[j]
    BY <1>1, <1>3, PostMoves DEF CreateUnanswered, IInv
  <2>2. \A j \in LiveRows' : j \in {NoEntry.id} \cup adrift'
    BY <1>0, <1>3, <2>1 DEF CreateUnanswered, IInv, NoOrphan, LiveRows
  <2>3. adrift' \in SUBSET Ids /\ owed' \in OptSizes
    BY <1>0, <1>3 DEF CreateUnanswered, IInv, TypeOK
  <2> QED BY <1>0, <1>3, <2>1, <2>2, <2>3, ReturnKeeps DEF CreateUnanswered, Fail
<1>4. CASE CreateRefused
  <2>1. rows' \in [Ids -> Rows] /\ RowsMoveOn /\ LiveRows' \subseteq LiveRows
        /\ owed' \in OptSizes
    BY <1>4 DEF CreateRefused, IInv, TypeOK, RowsMoveOn, LiveRows
  <2>2. tf = NoEntry
    BY <1>0 DEF IInv, Carried
  <2> QED BY <1>0, <1>4, <2>1, <2>2, ReturnPriorKeeps DEF CreateRefused, Fail
<1> QED BY <1>2, <1>3, <1>4

LEMMA CreateWaitKeeps ==
  ASSUME IInv, CreateActive \/ CreateBroken \/ CreateWaitAborts
  PROVE  IInv'
<1> USE NoEntryType
<1>0. /\ draft.id \in Ids /\ draft \in Entries /\ tf.id = NoId
      /\ UNCHANGED <<rows, cfg, adrift, owed>>
  BY DEF IInv, TypeOK, Carried, CreateActive, CreateBroken, CreateWaitAborts
<1>1. ASSUME NEW v \in {"none", "clean", "failed"}, NEW e \in Entries, Return(v, e), e.id = draft.id
      PROVE  IInv'
  <2>1. /\ rows' \in [Ids -> Rows] /\ RowsMoveOn /\ owed' \in OptSizes
        /\ adrift' \in SUBSET Ids /\ rows'[e.id].st # "unborn"
    BY <1>0, <1>1 DEF IInv, TypeOK, RowsMoveOn, Born
  <2>2. \A i \in LiveRows' : i \in {e.id} \cup adrift'
    BY <1>0, <1>1 DEF IInv, NoOrphan, LiveRows
  <2> QED BY <1>0, <1>1, <2>1, <2>2, ReturnKeeps
<1>2. ASSUME Found(draft.id)
      PROVE  /\ SetClusterState(draft, draft.id, Seen(draft.id)) \in Entries
             /\ SetClusterState(draft, draft.id, Seen(draft.id)).id = draft.id
  <2>1. Seen(draft.id) \in Observations
    BY <1>0, <1>2, SeenType DEF IInv, TypeOK, Observations
  <2> QED BY <1>0, <2>1, SetClusterStateType
<1>3. ASSUME NEW e \in Entries
      PROVE  [e EXCEPT !.tainted = TRUE] \in Entries /\ [e EXCEPT !.tainted = TRUE].id = e.id
  BY DEF Entries
<1>4. CASE CreateActive
  BY <1>1, <1>2, <1>3, <1>4 DEF CreateActive, Fail, Done
<1>5. CASE CreateBroken
  BY <1>1, <1>2, <1>3, <1>5 DEF CreateBroken, Fail
<1>6. CASE CreateWaitAborts
  BY <1>0, <1>1, <1>3, <1>6 DEF CreateWaitAborts, Fail
<1> QED BY <1>4, <1>5, <1>6

\* The requests of an Update.
LEMMA UpdateKeeps ==
  ASSUME IInv,
         \/ UpdateTimeouts \/ RecoverResize \/ UpdateRefreshes
         \/ Resize \/ ResizeUnverified \/ UpdateFails
  PROVE  IInv'
<1> USE NoEntryType
<1>0. /\ pc = "update" /\ tf.id \in Ids /\ draft.id = tf.id /\ tf \in Entries
      /\ UNCHANGED <<cfg, adrift>>
      /\ cfg \in [mode : Modes, size : OptSizes]
  BY DEF IInv, TypeOK, Carried, UpdateTimeouts, RecoverResize, UpdateRefreshes, Resize,
     ResizeUnverified, UpdateFails
<1>1. ASSUME NEW v \in {"none", "clean", "failed"}, NEW e \in Entries, Return(v, e),
             e.id = tf.id, rows' \in [Ids -> Rows], RowsMoveOn, LiveRows' \subseteq LiveRows,
             owed' \in OptSizes
      PROVE  IInv'
  BY <1>0, <1>1, ReturnPriorKeeps
<1>2. UNCHANGED rows => rows' \in [Ids -> Rows] /\ RowsMoveOn /\ LiveRows' \subseteq LiveRows
  BY DEF IInv, TypeOK, RowsMoveOn, LiveRows
<1>3. owed \in OptSizes
  BY DEF IInv, TypeOK
<1>4. ASSUME NEW o \in Observations
      PROVE  LET e == SetClusterState(Planned(tf), tf.id, o)
             IN e \in Entries /\ e.id = tf.id
  BY <1>0, PlannedType, SetClusterStateType
<1>5. Found(tf.id) => Seen(tf.id) \in Observations
  BY <1>0, SeenType DEF IInv, TypeOK, Observations
<1>6. cfg.mode \in {"alias", "custom"} => cfg.size \in OptSizes
  BY <1>0
<1>7. ASSUME Goto("resizeWait"), rows' \in [Ids -> Rows], RowsMoveOn, LiveRows' \subseteq LiveRows,
             owed' \in OptSizes, target' \in OptSizes, draft' \in Entries, draft'.id = tf.id,
             last' = last, replacing' = replacing
      PROVE  IInv'
  <2>1. Carried'
    BY <1>0, <1>7 DEF Goto, IInv, Carried
  <2>2. draft'.id \in Ids => rows'[draft'.id].st # "unborn"
    BY <1>0, <1>7 DEF IInv, Born, RowsMoveOn
  <2>3. \A i \in LiveRows' : i \in {tf.id, draft'.id} \cup adrift'
    BY <1>0, <1>7 DEF IInv, NoOrphan, LiveRows
  <2>4. adrift' \in SUBSET Ids /\ replacing' \in BOOLEAN /\ "resizeWait" \in Points
    BY <1>0, <1>7 DEF IInv, TypeOK, Points
  <2> QED BY <1>0, <1>7, <2>1, <2>2, <2>3, <2>4, GotoKeeps
<1>8. CASE UpdateTimeouts
  BY <1>0, <1>1, <1>2, <1>3, <1>8 DEF UpdateTimeouts, Done
<1>9. CASE RecoverResize
  <2>1. draft' \in Entries /\ draft'.id = tf.id
    BY <1>4, <1>5, <1>9 DEF RecoverResize
  <2>2. target' \in OptSizes
    BY <1>0, <1>9 DEF RecoverResize, IInv, TypeOK, Rows
  <2>3. /\ UNCHANGED rows /\ owed' = owed /\ Goto("resizeWait")
        /\ last' = last /\ replacing' = replacing
    BY <1>9 DEF RecoverResize
  <2> QED BY <1>2, <1>3, <1>7, <2>1, <2>2, <2>3
<1>10. CASE UpdateRefreshes
  <2>1. owed' \in OptSizes
    BY <1>3, <1>10, SettleType DEF UpdateRefreshes
  <2> QED BY <1>1, <1>2, <1>4, <1>5, <1>10, <2>1 DEF UpdateRefreshes, Done
<1>11. ASSUME Resize \/ ResizeUnverified
       PROVE  /\ cfg.size \in OptSizes
              /\ rows' \in [Ids -> Rows] /\ RowsMoveOn /\ LiveRows' \subseteq LiveRows
  <2>1. cfg.size \in OptSizes /\ Patch(tf.id, cfg.size)
    BY <1>0, <1>11 DEF Resize, ResizeUnverified
  <2> QED BY <1>0, <2>1, PatchMoves DEF IInv
<1>12. CASE Resize
  <2>1. [st |-> "resizing", size |-> cfg.size] \in Observations
    BY <1>11, <1>12 DEF Observations, ShownStatuses
  <2>2. draft' \in Entries /\ draft'.id = tf.id
    BY <1>4, <1>12, <2>1 DEF Resize
  <2>3. /\ target' = cfg.size /\ owed' = cfg.size /\ Goto("resizeWait")
        /\ last' = last /\ replacing' = replacing
    BY <1>12 DEF Resize
  <2> QED BY <1>7, <1>11, <1>12, <2>2, <2>3
<1>13. CASE ResizeUnverified
  BY <1>0, <1>1, <1>3, <1>11, <1>13 DEF ResizeUnverified, Fail
<1>14. CASE UpdateFails
  BY <1>0, <1>1, <1>2, <1>3, <1>14 DEF UpdateFails, Fail
<1> QED BY <1>8, <1>9, <1>10, <1>12, <1>13, <1>14

LEMMA ResizeWaitKeeps ==
  ASSUME IInv, ResizeSeesOther \/ Resized \/ ResizeBroken \/ ResizeWaitAborts
  PROVE  IInv'
<1> USE NoEntryType
<1>0. /\ pc = "resizeWait" /\ tf.id \in Ids /\ draft.id = tf.id /\ draft \in Entries
      /\ last \in Observations /\ owed \in OptSizes
      /\ UNCHANGED <<rows, cfg, adrift>>
  BY DEF IInv, TypeOK, Carried, ResizeSeesOther, Resized, ResizeBroken, ResizeWaitAborts
<1>1. rows' \in [Ids -> Rows] /\ RowsMoveOn /\ LiveRows' \subseteq LiveRows
  BY <1>0 DEF IInv, TypeOK, RowsMoveOn, LiveRows
<1>2. ASSUME NEW v \in {"none", "clean", "failed"}, NEW e \in Entries, Return(v, e),
             e.id = tf.id, owed' \in OptSizes
      PROVE  IInv'
  BY <1>0, <1>1, <1>2, ReturnPriorKeeps
<1>3. Found(draft.id) => Seen(draft.id) \in Observations
  BY <1>0, SeenType DEF IInv, TypeOK, Observations
<1>4. ASSUME NEW o \in Observations
      PROVE  LET e == SetClusterState(draft, draft.id, o)
             IN e \in Entries /\ e.id = tf.id
  BY <1>0, SetClusterStateType
<1>5. CASE ResizeSeesOther
  <2>1. last' \in Observations
    BY <1>3, <1>5 DEF ResizeSeesOther
  <2> QED BY <1>5, <2>1 DEF ResizeSeesOther, IInv, TypeOK, Carried, Born, NoOrphan,
          ReleasedAreTorn, LiveRows
<1>6. CASE Resized
  <2>1. owed' \in OptSizes
    BY <1>0, <1>6, SettleType DEF Resized
  <2> QED BY <1>2, <1>3, <1>4, <1>6, <2>1 DEF Resized, Done
<1>7. CASE ResizeBroken
  <2>1. owed' \in OptSizes
    BY <1>0, <1>7, SettleType DEF ResizeBroken
  <2> QED BY <1>2, <1>3, <1>4, <1>7, <2>1 DEF ResizeBroken, Fail
<1>8. CASE ResizeWaitAborts
  BY <1>0, <1>2, <1>4, <1>8 DEF ResizeWaitAborts, Fail
<1> QED BY <1>5, <1>6, <1>7, <1>8

LEMMA DeleteKeeps ==
  ASSUME IInv, Delete \/ DeleteFails \/ DeleteDone \/ DeleteWaitAborts
  PROVE  IInv'
<1> USE NoEntryType
<1>0. /\ tf.id \in Ids /\ draft.id = NoId /\ tf \in Entries /\ draft \in Entries
      /\ UNCHANGED <<cfg, adrift>> /\ owed' \in OptSizes
  BY DEF IInv, TypeOK, Carried, Delete, DeleteFails, DeleteDone, DeleteWaitAborts, OptSizes
<1>1. UNCHANGED rows \/ DeleteRow(tf.id)
  BY DEF Delete, DeleteFails, DeleteDone, DeleteWaitAborts
<1>2. rows' \in [Ids -> Rows] /\ RowsMoveOn /\ LiveRows' \subseteq LiveRows
  <2>1. CASE UNCHANGED rows
    BY <2>1 DEF IInv, TypeOK, RowsMoveOn, LiveRows
  <2>2. CASE DeleteRow(tf.id)
    BY <1>0, <2>2, DeleteRowMoves DEF IInv
  <2> QED BY <1>1, <2>1, <2>2
<1>3. CASE Delete
  <2>1. Carried' /\ draft' = draft /\ target' = target /\ last' = last /\ replacing' = replacing
    BY <1>3 DEF Delete, IInv, Carried, Goto
  <2>2. /\ Goto("deleteWait") /\ "deleteWait" \in Points
        /\ target \in OptSizes /\ replacing \in BOOLEAN /\ adrift' \in SUBSET Ids
    BY <1>0, <1>3 DEF Delete, IInv, TypeOK, Points
  <2>3. \A i \in LiveRows' : i \in {tf.id, draft'.id} \cup adrift'
    BY <1>0, <1>2, <2>1 DEF IInv, NoOrphan
  <2> QED BY <1>0, <1>2, <2>1, <2>2, <2>3, GotoKeeps
<1>4. CASE DeleteFails
  BY <1>0, <1>2, <1>4, ReturnPriorKeeps DEF DeleteFails, Fail
<1>5. CASE DeleteDone
  <2>1. rows[tf.id].st \in Torn /\ UNCHANGED rows
    BY <1>0, <1>5 DEF DeleteDone, Found, Seen, Torn, IInv, Born
  <2>2. \A i \in LiveRows' : i \in {NoEntry.id} \cup adrift'
    BY <1>0, <2>1 DEF IInv, NoOrphan, LiveRows
  <2>3. CASE replacing
    <3>1. TypeOK' /\ Carried'
      BY <1>0, <1>2, <1>5, <2>3 DEF DeleteDone, IInv, TypeOK, Carried, Points
    <3>2. Born' /\ ReleasedAreTorn' /\ NoOrphan'
      BY <1>0, <1>5, <2>1, <2>2, <2>3
         DEF DeleteDone, IInv, Born, ReleasedAreTorn, NoOrphan, LiveRows, Torn
    <3> QED BY <3>1, <3>2 DEF IInv
  <2>4. CASE ~replacing
    <3>1. Return("clean", NoEntry) /\ adrift' \in SUBSET Ids
      BY <1>0, <1>5, <2>4 DEF DeleteDone, Done, IInv, TypeOK
    <3> QED BY <1>0, <1>2, <2>1, <2>2, <3>1, ReturnKeeps
  <2> QED BY <2>3, <2>4
<1>6. CASE DeleteWaitAborts
  BY <1>0, <1>2, <1>6, ReturnPriorKeeps DEF DeleteWaitAborts, Fail
<1> QED BY <1>3, <1>4, <1>5, <1>6

LEMMA IInvNext == IInv /\ [Next]_vars => IInv'
<1> SUFFICES ASSUME IInv, Next PROVE IInv'
  BY StutterKeeps
<1>1. CASE User
  BY <1>1, UserKeeps
<1>2. CASE Server
  BY <1>2, ServerKeeps
<1>3. CASE Provider
  BY <1>3, RefreshKeeps, PlanKeeps, CreateKeeps, CreateWaitKeeps, UpdateKeeps,
     ResizeWaitKeeps, DeleteKeeps DEF Provider
<1> QED BY <1>1, <1>2, <1>3 DEF Next

-----------------------------------------------------------------------------
\* Every variable keeps its type (the handlers never return a malformed entry).
THEOREM TypeCorrect == Spec => []TypeOK
<1>1. IInv => TypeOK
  BY DEF IInv
<1> QED BY <1>1, IInvInit, IInvNext, PTL DEF Spec

\* Create and Update persist before they poll, Read and Delete only forget what
\* is gone: no live cluster is orphaned but by a lost answer or a killed process.
THEOREM NothingOrphaned == Spec => []NoOrphan
<1>1. IInv => NoOrphan
  BY DEF IInv
<1> QED BY <1>1, IInvInit, IInvNext, PTL DEF Spec

\* Whatever the saved state has let go of is torn down and stays so.
THEOREM ReleasesOnlyTorn == Spec => []ReleasedAreTorn
<1>1. IInv => ReleasedAreTorn
  BY DEF IInv
<1> QED BY <1>1, IInvInit, IInvNext, PTL DEF Spec

-----------------------------------------------------------------------------
(* Uniqueness.  Only a POST makes a cluster exist, and it adopts the one   *)
(* that does.                                                              *)
OneCluster == \A i, j \in Ids : Existing(i) /\ Existing(j) => i = j

\* A step after which no row exists that did not.
NoneNew == \A j \in Ids : Existing(j)' => Existing(j)

LEMMA NoneNewKeeps == OneCluster /\ NoneNew => OneCluster'
BY DEF OneCluster, NoneNew

LEMMA PostExists ==
  ASSUME NEW i \in Ids, NEW size \in OptSizes, TypeOK, Post(i, size), OneCluster
  PROVE  OneCluster'
<1>1. CASE UNCHANGED rows
  BY <1>1 DEF OneCluster, Existing
<1>2. CASE /\ \A j \in Ids : ~Existing(j)
           /\ rows' = [rows EXCEPT ![i] =
                         [st |-> "provisioning", size |-> size, want |-> NoSize]]
  <2>1. \A j \in Ids : Existing(j)' => j = i
    BY <1>2 DEF Existing, TypeOK
  <2> QED BY <2>1 DEF OneCluster
<1> QED BY <1>1, <1>2 DEF Post

\* Every step but a POST writes a row that exists, or ages one.
LEMMA OthersExist ==
  ASSUME TypeOK, NEW i \in Ids,
         \/ \E size \in OptSizes : Patch(i, size)
         \/ DeleteRow(i) \/ Reconcile(i) \/ Reap(i)
  PROVE  NoneNew
<1>1. rows \in [Ids -> Rows] /\ \A j \in Ids : j # i => rows'[j] = rows[j]
  BY DEF TypeOK, Patch, DeleteRow, Reconcile, Reap
<1>2. Existing(i)' => Existing(i)
  <2>1. CASE (\E size \in OptSizes : Patch(i, size)) \/ Reap(i)
    BY <2>1 DEF Patch, Patchable, Reap
  <2>2. CASE DeleteRow(i)
    BY <1>1, <2>2 DEF DeleteRow, Existing
  <2>3. CASE Reconcile(i)
    <3>1. CASE rows[i].st \in {"provisioning", "resizing", "queued"}
      BY <3>1 DEF Existing
    <3>2. CASE rows' = [rows EXCEPT ![i].st = "destroyed"]
      BY <1>1, <3>2 DEF Existing, Rows
    <3>3. CASE rows' = [rows EXCEPT ![i].st = "gone"]
      BY <1>1, <3>3 DEF Existing, Rows
    <3> QED BY <2>3, <3>1, <3>2, <3>3 DEF Reconcile
  <2> QED BY <2>1, <2>2, <2>3
<1> QED BY <1>1, <1>2 DEF NoneNew, Existing

LEMMA OneClusterNext == IInv /\ OneCluster /\ [Next]_vars => OneCluster'
<1>1. UNCHANGED rows => NoneNew
  BY DEF NoneNew, Existing
<1>2. ASSUME IInv, OneCluster, Next
      PROVE  OneCluster'
  <2>0. TypeOK
    BY <1>2 DEF IInv
  <2>1. CASE User
    BY <1>1, <1>2, <2>1, NoneNewKeeps DEF User, Configure, StartRun, Crash, Untaint, Import
  <2>2. CASE Server
    BY <1>2, <2>0, <2>2, OthersExist, NoneNewKeeps DEF Server
  <2>3. ASSUME NEW i \in Ids, Create(i) \/ CreateUnanswered(i)
        PROVE  OneCluster'
    <3>1. CreateSize \in OptSizes /\ Post(i, CreateSize)
      BY <2>0, <2>3, ConstantsAssumption
         DEF Create, CreateUnanswered, CreateSize, OptSizes, TypeOK
    <3> QED BY <1>2, <2>0, <3>1, PostExists
  <2>4. CASE Resize \/ ResizeUnverified \/ Delete \/ DeleteFails
    <3>1. tf.id \in Ids /\ cfg.size \in OptSizes
      BY <1>2, <2>4 DEF Resize, ResizeUnverified, Delete, DeleteFails, IInv, TypeOK, Carried
    <3>2. Patch(tf.id, cfg.size) \/ DeleteRow(tf.id) \/ UNCHANGED rows
      BY <2>4 DEF Resize, ResizeUnverified, Delete, DeleteFails
    <3> QED BY <1>1, <1>2, <2>0, <3>1, <3>2, OthersExist, NoneNewKeeps
  <2>5. CASE \/ Read \/ ReadFails \/ PlanNothing \/ PlanCreate \/ PlanUpdate \/ PlanDelete
             \/ CreateRefused \/ CreateActive \/ CreateBroken \/ CreateWaitAborts
             \/ UpdateTimeouts \/ RecoverResize \/ UpdateRefreshes \/ UpdateFails
             \/ ResizeSeesOther \/ Resized \/ ResizeBroken \/ ResizeWaitAborts
             \/ DeleteDone \/ DeleteWaitAborts
    <3>1. UNCHANGED rows
      BY <2>5 DEF Read, ReadFails, PlanNothing, PlanCreate, PlanUpdate, PlanDelete,
         CreateRefused, CreateActive, CreateBroken, CreateWaitAborts, UpdateTimeouts,
         RecoverResize, UpdateRefreshes, UpdateFails, ResizeSeesOther, Resized,
         ResizeBroken, ResizeWaitAborts, DeleteDone, DeleteWaitAborts
    <3> QED BY <1>1, <1>2, <3>1, NoneNewKeeps
  <2> QED BY <1>2, <2>1, <2>2, <2>3, <2>4, <2>5 DEF Next, Provider
<1>3. UNCHANGED vars => NoneNew
  BY <1>1 DEF vars
<1> QED BY <1>2, <1>3, NoneNewKeeps

\* There is never a second cluster, whatever answers were lost on the way.
THEOREM CleanHasOnlyCluster == Spec => []CleanMeansOnlyCluster
<1>1. Init => OneCluster
  BY DEF Init, OneCluster, Existing
<1>2. IInv /\ OneCluster => CleanMeansOnlyCluster
  <2> SUFFICES ASSUME IInv, OneCluster, tf.status = "active", rows[tf.id].st = "active"
               PROVE  \A i \in Ids : Existing(i) => i = tf.id
    BY DEF CleanMeansOnlyCluster
  <2>1. tf.id \in Ids
    BY DEF IInv, Carried, NoEntry
  <2> QED BY <2>1 DEF OneCluster, Existing
<1> QED BY <1>1, <1>2, IInvInit, IInvNext, OneClusterNext, PTL DEF Spec

-----------------------------------------------------------------------------
(* The confirmation of a custom sizing.  What a refresh of a custom entry  *)
(* read is either short of the resize that is owed, which the next plan    *)
(* sees, or still resizing, towards that very sizing.                      *)
Refreshed ==
  pc \in {"plan", "update"} /\ tf.id \in Ids /\ tf.alias = NoSize =>
    /\ tf.status = "resizing" => tf.custom = rows[tf.id].want
    /\ tf.status # "resizing" => owed = NoSize \/ tf.custom # owed

Confirming ==
  /\ cfg.mode = "custom" => cfg.size # NoSize
  /\ owed # NoSize => tf.id \in Ids /\ rows[tf.id].st # "provisioning"
  /\ \A i \in Ids : rows[i].st = "resizing" => rows[i].size = rows[i].want
  /\ Refreshed
  /\ pc = "resizeWait" /\ cfg.mode = "custom" => target = cfg.size
  /\ verdict = "clean" => pc = "idle"
  /\ CustomResizeConfirmed

\* What a step of the server, or of no request, does to the rows.
Aging ==
  \A i \in Ids : /\ rows'[i].want = rows[i].want
                 /\ rows'[i].st = "provisioning" => rows[i].st = "provisioning"
                 /\ rows'[i].st = "resizing" => rows'[i].size = rows'[i].want

LEMMA AgingKeeps ==
  ASSUME Confirming, Aging, UNCHANGED <<cfg, tf, pc, target, verdict, owed>>
  PROVE  Confirming'
BY DEF Confirming, Refreshed, Aging, CustomResizeConfirmed

LEMMA ServerAges ==
  ASSUME IInv, Confirming, Server
  PROVE  Confirming'
<1>1. PICK i \in Ids : Reconcile(i) \/ Reap(i)
  BY DEF Server
<1>2. rows \in [Ids -> Rows] /\ rows[i].st = "resizing" => rows[i].size = rows[i].want
  BY DEF IInv, TypeOK, Confirming
<1>3. \A j \in Ids : j # i => rows'[j] = rows[j]
  BY <1>1 DEF Reconcile, Reap, IInv, TypeOK
<1>4. /\ rows'[i].want = rows[i].want
      /\ rows'[i].st # "provisioning"
      /\ rows'[i].st = "resizing" => rows'[i].size = rows'[i].want
  BY <1>1 DEF Reconcile, Reap, IInv, TypeOK, Rows
<1>5. Aging
  BY <1>3, <1>4 DEF Aging, Confirming
<1> QED BY <1>1, <1>5, AgingKeeps DEF Reconcile, Reap, ServerOnly

LEMMA StillAges == Confirming /\ UNCHANGED rows => Aging
BY DEF Confirming, Aging

LEMMA PatchAges ==
  ASSUME TypeOK, Confirming, NEW i \in Ids, NEW size \in OptSizes, Patch(i, size)
  PROVE  /\ rows'[i].st \in {"resizing", "queued"}
         /\ \A j \in Ids : rows'[j].st = "resizing" => rows'[j].size = rows'[j].want
<1>1. CASE rows' = [rows EXCEPT ![i] = [st |-> "resizing", size |-> size, want |-> size]]
  BY <1>1 DEF TypeOK, Confirming
<1>2. CASE rows' = [rows EXCEPT ![i].st = "queued", ![i].want = size]
  BY <1>2 DEF TypeOK, Confirming, Rows
<1> QED BY <1>1, <1>2 DEF Patch

LEMMA DeleteRowAges ==
  ASSUME TypeOK, Confirming, NEW i \in Ids, DeleteRow(i)
  PROVE  Aging
BY DEF TypeOK, Confirming, Rows, DeleteRow, Aging

\* A handler that returns entry e keeps the promise if what is owed is owed
\* for that entry's cluster, and a clean end owes no custom sizing.
LEMMA ReturnConfirms ==
  ASSUME Confirming, NEW v, NEW e, Return(v, e), cfg' = cfg,
         owed' # NoSize => e.id \in Ids /\ rows'[e.id].st # "provisioning",
         \A i \in Ids : rows'[i].st = "resizing" => rows'[i].size = rows'[i].want,
         v = "clean" /\ cfg.mode = "custom" => owed' # cfg.size
  PROVE  Confirming'
BY DEF Return, Confirming, Refreshed, CustomResizeConfirmed

\* Where no request was accepted, a failed handler returns the prior entry.
LEMMA FailConfirms ==
  ASSUME Confirming, NEW v, NEW e, Return(v, e), v # "clean", e.id = tf.id,
         cfg' = cfg, Aging, owed' \in {owed, NoSize}
  PROVE  Confirming'
BY ReturnConfirms DEF Confirming, Aging

LEMMA SettlesNone ==
  ASSUME NEW o, Settle(o)
  PROVE  /\ owed' \in {owed, NoSize}
         /\ o.st \in {"error", "offboarding", "destroyed"} => owed' = NoSize
         /\ o.st = "active" => owed' = NoSize \/ o.size # owed'
BY DEF Settle

LEMMA SeenId ==
  ASSUME NEW e \in Entries, NEW i, NEW o
  PROVE  /\ SetClusterState(e, i, o).id = i
         /\ SetClusterState(e, i, o).status = o.st
         /\ SetClusterState(e, i, o).alias = e.alias
         /\ e.alias = NoSize => SetClusterState(e, i, o).custom = o.size
BY DEF SetClusterState, Entries

LEMMA UserConfirms ==
  ASSUME IInv, Confirming, User
  PROVE  Confirming'
<1>1. ASSUME NEW c \in Configurations, Configure(c)
      PROVE  Confirming'
  <2>1. c.mode = "custom" => c.size # NoSize
    BY <1>1, ConstantsAssumption DEF Configurations
  <2> QED BY <1>1, <2>1 DEF Configure, Confirming, Refreshed, CustomResizeConfirmed
<1>2. CASE StartRun
  BY <1>2, NoEntryType DEF StartRun, Confirming, Refreshed, CustomResizeConfirmed
<1>3. CASE Crash
  BY <1>3, StillAges, FailConfirms DEF Crash
<1>4. CASE Untaint
  <2>1. tf'.id = tf.id
    BY <1>4 DEF Untaint, IInv, TypeOK, Entries
  <2> QED BY <1>4, <2>1 DEF Untaint, Confirming, Refreshed, CustomResizeConfirmed
<1>5. ASSUME NEW i \in Ids, Import(i)
      PROVE  Confirming'
  <2>1. owed = NoSize /\ owed' = NoSize
    BY <1>5, SettlesNone, NoEntryType DEF Import, Confirming
  <2> QED BY <1>5, <2>1 DEF Import, Confirming, Refreshed, CustomResizeConfirmed
<1> QED BY <1>1, <1>2, <1>3, <1>4, <1>5 DEF User

LEMMA RefreshConfirms ==
  ASSUME IInv, Confirming, Read
  PROVE  Confirming'
<1>1. CASE Found(tf.id) /\ tf' = SetClusterState(tf, tf.id, Seen(tf.id)) /\ Settle(Seen(tf.id))
  <2> DEFINE o == Seen(tf.id)
  <2>1. /\ tf.id \in Ids /\ tf'.id = tf.id /\ tf'.status = o.st
        /\ tf'.alias = NoSize => tf'.custom = o.size
    BY <1>1, SeenId DEF Read, Found, IInv, TypeOK
  <2>2. o.st \in ShownStatuses
    BY <1>1, <2>1, SeenType DEF IInv, TypeOK
  <2>3. tf'.status = "resizing" /\ tf'.alias = NoSize => tf'.custom = rows[tf.id].want
    BY <2>1 DEF Seen, Confirming
  <2>4. o.st = "provisioning" => owed = NoSize
    BY DEF Seen, Confirming
  <2>5. tf'.status # "resizing" /\ tf'.alias = NoSize
          => owed' = NoSize \/ tf'.custom # owed'
    BY <1>1, <2>1, <2>2, <2>4, SettlesNone DEF ShownStatuses
  <2>6. owed' \in {owed, NoSize}
    BY <1>1, SettlesNone
  <2> HIDE DEF o
  <2> QED BY <1>1, <2>1, <2>3, <2>5, <2>6
          DEF Read, Confirming, Refreshed, CustomResizeConfirmed
<1>2. CASE tf' = NoEntry /\ owed' = NoSize
  BY <1>2, NoEntryType DEF Read, Confirming, Refreshed, CustomResizeConfirmed
<1> QED BY <1>1, <1>2 DEF Read

LEMMA PlanConfirms ==
  ASSUME IInv, Confirming, PlanNothing \/ PlanCreate \/ PlanUpdate \/ PlanDelete
  PROVE  Confirming'
<1>1. CASE PlanNothing
  <2>1. cfg.mode = "custom" => owed # cfg.size
    <3> SUFFICES ASSUME cfg.mode = "custom" PROVE owed # cfg.size
      OBVIOUS
    <3>1. tf # NoEntry /\ tf.alias = NoSize /\ tf.custom = cfg.size /\ tf.status # "resizing"
      BY <1>1 DEF PlanNothing, SizingChanged
    <3>2. tf.id \in Ids /\ pc = "plan"
      BY <1>1, <3>1 DEF PlanNothing, IInv, Carried
    <3> QED BY <3>1, <3>2 DEF Confirming, Refreshed
  <2> QED BY <1>1, <2>1, ReturnConfirms DEF PlanNothing, Done, Confirming
<1>2. CASE PlanCreate \/ PlanUpdate \/ PlanDelete
  BY <1>2 DEF PlanCreate, PlanUpdate, PlanDelete, Goto, Confirming, Refreshed,
              CustomResizeConfirmed
<1> QED BY <1>1, <1>2

\* While a create runs no resize is owed.
LEMMA CreateConfirms ==
  ASSUME IInv, Confirming,
         \/ \E i \in Ids : Create(i) \/ CreateUnanswered(i)
         \/ CreateRefused \/ CreateActive \/ CreateBroken \/ CreateWaitAborts
  PROVE  Confirming'
<1>0. /\ tf.id = NoId /\ owed = NoSize /\ owed' = NoSize /\ cfg' = cfg
      /\ verdict # "clean"
  BY NoEntryType DEF Create, CreateUnanswered, CreateRefused, CreateActive, CreateBroken,
     CreateWaitAborts, IInv, Carried, Confirming
<1>1. \A i \in Ids : rows'[i].st = "resizing" => rows'[i].size = rows'[i].want
  <2>1. ASSUME NEW i \in Ids, Create(i) \/ CreateUnanswered(i)
        PROVE  \A j \in Ids : rows'[j].st = "resizing" => rows'[j].size = rows'[j].want
    BY <2>1 DEF Create, CreateUnanswered, Post, Confirming, IInv, TypeOK
  <2>2. CASE CreateRefused \/ CreateActive \/ CreateBroken \/ CreateWaitAborts
    BY <2>2 DEF CreateRefused, CreateActive, CreateBroken, CreateWaitAborts, Confirming
  <2> QED BY <2>1, <2>2
<1>2. ASSUME NEW i \in Ids, Create(i)
      PROVE  Confirming'
  BY <1>0, <1>1, <1>2 DEF Create, Goto, Confirming, Refreshed, CustomResizeConfirmed
<1>3. ASSUME NEW v, NEW e, Return(v, e)
      PROVE  Confirming'
  BY <1>0, <1>1, <1>3, ReturnConfirms DEF Confirming
<1>4. CASE (\E i \in Ids : CreateUnanswered(i)) \/ CreateRefused \/ CreateBroken
             \/ CreateWaitAborts \/ CreateActive
  BY <1>3, <1>4 DEF CreateUnanswered, CreateRefused, CreateBroken, CreateWaitAborts,
     CreateActive, Fail, Done
<1> QED BY <1>2, <1>4

LEMMA UpdateConfirms ==
  ASSUME IInv, Confirming,
         \/ UpdateTimeouts \/ RecoverResize \/ UpdateRefreshes
         \/ Resize \/ ResizeUnverified \/ UpdateFails
  PROVE  Confirming'
<1>0. /\ pc = "update" /\ tf.id \in Ids /\ tf \in Entries /\ cfg' = cfg
      /\ verdict # "clean" /\ cfg.size \in OptSizes /\ TypeOK
  BY DEF IInv, TypeOK, Carried, UpdateTimeouts, RecoverResize, UpdateRefreshes, Resize,
     ResizeUnverified, UpdateFails, Confirming
<1>1. cfg.mode = "custom" /\ ~SizingChanged => tf.alias = NoSize /\ tf.custom = cfg.size
  BY DEF SizingChanged
<1>2. CASE UpdateTimeouts
  <2>1. cfg.mode = "custom" => owed # cfg.size
    BY <1>0, <1>1, <1>2 DEF UpdateTimeouts, Confirming, Refreshed
  <2> QED BY <1>2, <2>1, ReturnConfirms DEF UpdateTimeouts, Done, Confirming
<1>3. CASE RecoverResize
  <2>1. cfg.mode = "custom" => target' = cfg.size
    BY <1>0, <1>1, <1>3 DEF RecoverResize, Confirming, Refreshed
  <2> QED BY <1>0, <1>3, <2>1
          DEF RecoverResize, Goto, Confirming, Refreshed, CustomResizeConfirmed
<1>4. CASE UpdateRefreshes
  <2>1. owed' \in {owed, NoSize}
    BY <1>4, SettlesNone DEF UpdateRefreshes
  <2>2. SetClusterState(Planned(tf), tf.id, Seen(tf.id)).id = tf.id
    BY <1>0, PlannedType, SeenId DEF TypeOK
  <2> QED BY <1>4, <2>1, <2>2, ReturnConfirms DEF UpdateRefreshes, Done, Confirming
<1>5. ASSUME Resize \/ ResizeUnverified
      PROVE  /\ rows'[tf.id].st # "provisioning"
             /\ \A i \in Ids : rows'[i].st = "resizing" => rows'[i].size = rows'[i].want
  BY <1>0, <1>5, PatchAges DEF Resize, ResizeUnverified
<1>6. CASE Resize
  BY <1>0, <1>5, <1>6 DEF Resize, Goto, Confirming, Refreshed, CustomResizeConfirmed
<1>7. CASE ResizeUnverified
  BY <1>0, <1>5, <1>7, ReturnConfirms DEF ResizeUnverified, Fail
<1>8. CASE UpdateFails
  BY <1>8, StillAges, FailConfirms DEF UpdateFails, Fail
<1> QED BY <1>2, <1>3, <1>4, <1>6, <1>7, <1>8

LEMMA ResizeWaitConfirms ==
  ASSUME IInv, Confirming, ResizeSeesOther \/ Resized \/ ResizeBroken \/ ResizeWaitAborts
  PROVE  Confirming'
<1>0. /\ draft.id = tf.id /\ draft \in Entries /\ pc = "resizeWait"
      /\ \A o : SetClusterState(draft, draft.id, o).id = tf.id
      /\ Aging /\ cfg' = cfg
  BY SeenId, StillAges DEF IInv, TypeOK, Carried, ResizeSeesOther, Resized, ResizeBroken,
     ResizeWaitAborts
<1>1. CASE ResizeSeesOther
  BY <1>0, <1>1, AgingKeeps DEF ResizeSeesOther
<1>2. CASE Resized
  <2> DEFINE e == SetClusterState(draft, draft.id, Seen(draft.id))
  <2>1. /\ owed' \in {owed, NoSize}
        /\ owed' = NoSize \/ target # owed'
    BY <1>2, SettlesNone DEF Resized
  <2>2. cfg.mode = "custom" => owed' # cfg.size
    BY <1>0, <2>1 DEF Confirming
  <2>3. Return("clean", e) /\ e.id = tf.id
    BY <1>0, <1>2 DEF Resized, Done
  <2>4. /\ owed' # NoSize => tf.id \in Ids /\ rows'[tf.id].st # "provisioning"
        /\ \A i \in Ids : rows'[i].st = "resizing" => rows'[i].size = rows'[i].want
    BY <1>0, <2>1 DEF Confirming, Aging
  <2> HIDE DEF e
  <2> QED BY <1>0, <2>2, <2>3, <2>4, ReturnConfirms
<1>3. CASE ResizeBroken
  BY <1>0, <1>3, SettlesNone, FailConfirms DEF ResizeBroken, Fail
<1>4. CASE ResizeWaitAborts
  BY <1>0, <1>4, FailConfirms DEF ResizeWaitAborts, Fail
<1> QED BY <1>1, <1>2, <1>3, <1>4

LEMMA DeleteConfirms ==
  ASSUME IInv, Confirming, Delete \/ DeleteFails \/ DeleteDone \/ DeleteWaitAborts
  PROVE  Confirming'
<1>0. tf.id \in Ids /\ cfg' = cfg /\ TypeOK /\ verdict # "clean"
  BY DEF IInv, Carried, Delete, DeleteFails, DeleteDone, DeleteWaitAborts, Confirming
<1>1. Aging
  BY <1>0, StillAges, DeleteRowAges DEF Delete, DeleteFails, DeleteDone, DeleteWaitAborts
<1>2. CASE Delete
  BY <1>0, <1>1, <1>2
     DEF Delete, Goto, Confirming, Refreshed, Aging, CustomResizeConfirmed
<1>3. CASE DeleteFails \/ DeleteWaitAborts
  BY <1>0, <1>1, <1>3, FailConfirms DEF DeleteFails, DeleteWaitAborts, Fail
<1>4. CASE DeleteDone
  <2>1. owed' = NoSize /\ (cfg.mode = "custom" => cfg.size # NoSize)
    BY <1>4 DEF DeleteDone, Confirming
  <2>2. CASE replacing
    BY <1>0, <1>1, <1>4, <2>1, <2>2
       DEF DeleteDone, Confirming, Refreshed, Aging, CustomResizeConfirmed
  <2>3. CASE ~replacing
    BY <1>0, <1>1, <1>4, <2>1, <2>3, ReturnConfirms DEF DeleteDone, Done, Aging, Confirming
  <2> QED BY <2>2, <2>3
<1> QED BY <1>2, <1>3, <1>4

LEMMA ConfirmingNext == IInv /\ Confirming /\ [Next]_vars => Confirming'
<1>1. ASSUME IInv, Confirming, Next
      PROVE  Confirming'
  <2>1. CASE ReadFails
    BY <1>1, <2>1, StillAges, FailConfirms DEF ReadFails, Fail
  <2> QED BY <1>1, <2>1, UserConfirms, ServerAges, RefreshConfirms, PlanConfirms,
          CreateConfirms, UpdateConfirms, ResizeWaitConfirms, DeleteConfirms
          DEF Next, Provider
<1>2. Confirming /\ UNCHANGED vars => Confirming'
  BY StillAges, AgingKeeps DEF vars
<1> QED BY <1>1, <1>2

\* A run with a custom sizing that ends clean has seen the sizing it asked for,
\* however many resizes before it timed out, were cancelled or not answered.
THEOREM CustomResizesAreConfirmed == Spec => []CustomResizeConfirmed
<1>1. Init => Confirming
  BY DEF Init, Confirming, Refreshed, CustomResizeConfirmed
<1>2. Confirming => CustomResizeConfirmed
  BY DEF Confirming
<1> QED BY <1>1, <1>2, IInvInit, IInvNext, ConfirmingNext, PTL DEF Spec
=============================================================================
