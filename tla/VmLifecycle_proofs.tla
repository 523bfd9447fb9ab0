-------------------------- MODULE VmLifecycle_proofs --------------------------
(***************************************************************************)
(* Proofs about VmLifecycle: its type invariant, that no VM is orphaned,   *)
(* that a released VM is torn down and that a power state is confirmed,    *)
(* for any number of server ids and any of the setups.                     *)
(***************************************************************************)
EXTENDS VmLifecycle, TLAPS

Powering == {"update", "powerWait", "powerRead"}

\* What the handlers carry at each point of an operation: only a waiting
\* Create has a draft, and it runs only with nothing in the saved state.
Carried ==
  /\ tf # NoEntry => tf.id \in Ids
  /\ pc \in Powering \cup {"refresh", "delete", "deleteWait"} => tf.id \in Ids
  /\ pc \in {"create", "createWait"} => tf.id = NoId
  /\ IF pc = "createWait" THEN draft.id \in Ids ELSE draft.id = NoId

\* An id the provider ever got hold of belongs to a row the server created.
Born == \A i \in Ids :
          i \in {tf.id, draft.id} \cup released => rows[i].st # "unborn"

IInv == TypeOK /\ Carried /\ Born /\ NoOrphan /\ ReleasedAreTorn

\* The life of a row has a direction: nothing is unborn again, and nothing
\* that is torn down comes back.
RowsMoveOn ==
  \A i \in Ids : /\ rows[i].st # "unborn" => rows'[i].st # "unborn"
                 /\ rows[i].st \in Torn => rows'[i].st \in Torn

\* Such a step of the server, during which no row becomes live.
RowsOnlyAge == rows' \in [Ids -> Rows] /\ RowsMoveOn /\ LiveRows' \subseteq LiveRows

-----------------------------------------------------------------------------
\* The server's side of each request; a POST alone can make a row live.
LEMMA PostMoves ==
  ASSUME NEW i \in Ids, NEW running \in BOOLEAN, TypeOK, Post(i, running)
  PROVE  /\ rows' \in [Ids -> Rows]
         /\ RowsMoveOn
         /\ rows'[i].st \in ShownStatuses \ Torn
         /\ \A j \in Ids : j # i => rows'[j] = rows[j]
<1>1. CASE Existing(i) /\ UNCHANGED rows
  BY <1>1 DEF TypeOK, Existing, RowsMoveOn, Torn, ShownStatuses
<1>2. CASE /\ rows[i].st = "unborn"
           /\ rows' = [rows EXCEPT ![i] = [Unborn EXCEPT !.st = "provisioning",
                                                         !.running = running]]
  <2>1. [Unborn EXCEPT !.st = "provisioning", !.running = running] \in Rows
    BY DEF Unborn, Rows, RowStatuses, Phases
  <2> QED BY <1>2, <2>1 DEF Unborn, TypeOK, RowsMoveOn, Torn, ShownStatuses
<1> QED BY <1>1, <1>2 DEF Post

\* A step that writes one row, and makes no row live.
LEMMA RowMoves ==
  ASSUME NEW i \in Ids, NEW r \in Rows, TypeOK, rows' = [rows EXCEPT ![i] = r],
         rows[i].st # "unborn" => r.st # "unborn",
         rows[i].st \in Torn => r.st \in Torn,
         r.st \in Torn \/ i \in LiveRows
  PROVE  RowsOnlyAge
BY DEF RowsOnlyAge, TypeOK, RowsMoveOn, LiveRows

LEMMA PowerRowMoves ==
  ASSUME NEW i \in Ids, NEW running \in BOOLEAN, TypeOK, PowerRow(i, running)
  PROVE  RowsOnlyAge
<1> DEFINE r == [rows[i] EXCEPT !.st = PowerStatus(running), !.running = running,
                                !.fresh = FALSE]
<1>1. rows[i] \in Rows /\ i \in LiveRows /\ rows' = [rows EXCEPT ![i] = r]
  BY DEF PowerRow, Existing, LiveRows, Torn, TypeOK
<1>2. r \in Rows /\ r.st \notin Torn \cup {"unborn"}
  BY <1>1 DEF PowerStatus, Rows, RowStatuses, Torn
<1> HIDE DEF r
<1> QED BY <1>1, <1>2, RowMoves DEF LiveRows

LEMMA DeleteRowMoves ==
  ASSUME NEW i \in Ids, TypeOK, DeleteRow(i)
  PROVE  RowsOnlyAge
<1>1. rows[i] \in Rows /\ (Existing(i) => i \in LiveRows)
  BY DEF Existing, LiveRows, Torn, TypeOK
<1>2. CASE Existing(i) /\ rows' = [rows EXCEPT ![i].leaving = TRUE]
  <2>1. [rows[i] EXCEPT !.leaving = TRUE] \in Rows
    BY <1>1 DEF Rows
  <2> QED BY <1>1, <1>2, <2>1, RowMoves DEF Rows
<1>3. CASE Existing(i) /\ rows' = [rows EXCEPT ![i].st = "destroyed"]
  <2>1. [rows[i] EXCEPT !.st = "destroyed"] \in Rows
    BY <1>1 DEF Rows, RowStatuses
  <2> QED BY <1>1, <1>3, <2>1, RowMoves DEF Rows, Torn
<1>4. CASE UNCHANGED rows
  BY <1>4 DEF RowsOnlyAge, TypeOK, RowsMoveOn, LiveRows
<1> QED BY <1>2, <1>3, <1>4 DEF DeleteRow

LEMMA StillRows == TypeOK /\ UNCHANGED rows => RowsOnlyAge
BY DEF RowsOnlyAge, TypeOK, RowsMoveOn, LiveRows

LEMMA ServerMoves ==
  ASSUME TypeOK, Server
  PROVE  RowsOnlyAge
<1>1. ASSUME NEW i \in Ids, Settle(i)
      PROVE  RowsOnlyAge
  BY <1>1 DEF RowsOnlyAge, Settle, PowerStatus, TypeOK, RowsMoveOn, Torn, LiveRows, Rows,
              RowStatuses, Phases
<1>2. ASSUME NEW i \in Ids, Existing(i)
      PROVE  /\ rows[i] \in Rows /\ i \in LiveRows
             /\ rows[i].st \notin Torn \cup {"unborn"}
  BY <1>2 DEF Existing, LiveRows, Torn, TypeOK
<1>3. ASSUME NEW i \in Ids, Converge(i)
      PROVE  RowsOnlyAge
  <2>1. PICK p \in Phases :
          rows' = [rows EXCEPT ![i].phase = p, ![i].fresh = (p = "Failed")]
    BY <1>3 DEF Converge, Phases
  <2> DEFINE r == [rows[i] EXCEPT !.phase = p, !.fresh = (p = "Failed")]
  <2>2. Existing(i)
    BY <1>3 DEF Converge
  <2>3. r \in Rows /\ r.st = rows[i].st
    BY <1>2, <2>2 DEF Rows
  <2>4. rows' = [rows EXCEPT ![i] = r]
    BY <2>1 DEF TypeOK
  <2> QED BY <1>2, <2>2, <2>3, <2>4, RowMoves
<1>4. ASSUME NEW i \in Ids, OutOfBand(i)
      PROVE  RowsOnlyAge
  <2>1. Existing(i)
    BY <1>4 DEF OutOfBand
  <2>2. ASSUME NEW r \in Rows, rows' = [rows EXCEPT ![i] = r], r.st # "unborn"
        PROVE  RowsOnlyAge
    BY <1>2, <2>1, <2>2, RowMoves
  <2>3. CASE \E st \in Torn : rows' = [rows EXCEPT ![i].st = st]
    <3>1. PICK st \in Torn : rows' = [rows EXCEPT ![i].st = st]
      BY <2>3
    <3> DEFINE r == [rows[i] EXCEPT !.st = st]
    <3>2. r \in Rows /\ r.st # "unborn"
      BY <1>2, <2>1 DEF Torn, Rows, RowStatuses
    <3> QED BY <2>2, <3>1, <3>2 DEF TypeOK
  <2>4. CASE rows' = [rows EXCEPT ![i].leaving = TRUE]
    <3> DEFINE r == [rows[i] EXCEPT !.leaving = TRUE]
    <3>1. r \in Rows /\ r.st # "unborn"
      BY <1>2, <2>1 DEF Rows
    <3> QED BY <2>2, <2>4, <3>1 DEF TypeOK
  <2>5. CASE \E running \in BOOLEAN :
               rows' = [rows EXCEPT ![i].st = PowerStatus(running), ![i].running = running]
    <3>1. PICK running \in BOOLEAN :
            rows' = [rows EXCEPT ![i].st = PowerStatus(running), ![i].running = running]
      BY <2>5
    <3> DEFINE r == [rows[i] EXCEPT !.st = PowerStatus(running), !.running = running]
    <3>2. r \in Rows /\ r.st # "unborn"
      BY <1>2, <2>1 DEF Rows, RowStatuses, PowerStatus
    <3>3. rows' = [rows EXCEPT ![i] = r]
      BY <3>1 DEF TypeOK
    <3> QED BY <2>2, <3>2, <3>3
  <2> QED BY <1>4, <2>3, <2>4, <2>5 DEF OutOfBand
<1> QED BY <1>1, <1>3, <1>4 DEF Server

\* The entries the handlers write from an answer are typed and keep the id.
LEMMA SetStateType ==
  ASSUME NEW e \in Entries, NEW i \in Ids, rows \in [Ids -> Rows], Found(i)
  PROVE  /\ SetVmState(e, i) \in Entries
         /\ SetVmState(e, i).id = i
         /\ SetVmReadState(e, i) \in Entries
         /\ SetVmReadState(e, i).id = i
<1>1. rows[i].st \in ShownStatuses /\ rows[i].running \in BOOLEAN
  BY DEF Found, Rows, RowStatuses, ShownStatuses
<1>2. SetVmState(e, i) \in Entries /\ SetVmState(e, i).id = i
  BY <1>1 DEF SetVmState, Entries, OptIds
<1> QED BY <1>1, <1>2 DEF SetVmReadState, Entries

LEMMA TaintType ==
  ASSUME NEW e \in Entries, NEW b \in BOOLEAN
  PROVE  [e EXCEPT !.tainted = b] \in Entries /\ [e EXCEPT !.tainted = b].id = e.id
BY DEF Entries

LEMMA NoEntryType == NoEntry \in Entries /\ NoEntry.id = NoId /\ NoId \notin Ids
BY ConstantsAssumption DEF NoEntry, Entries, OptIds

-----------------------------------------------------------------------------
\* A handler that returns entry e keeps the invariant if e carries every live
\* row the handler was responsible for and drops only what is torn down.
LEMMA ReturnKeeps ==
  ASSUME IInv, NEW v \in {"none", "clean", "failed", "blamed"}, NEW e \in Entries,
         Return(v, e),
         rows' \in [Ids -> Rows], RowsMoveOn, setup' = setup, cfg' = cfg,
         owed' \in {"none", "Running", "Stopped"}, adrift' \in SUBSET Ids,
         e # NoEntry => e.id \in Ids /\ rows'[e.id].st # "unborn",
         \A i \in LiveRows' : i \in {e.id} \cup adrift',
         tf.id \notin {e.id, NoId} => rows'[tf.id].st \in Torn
  PROVE  IInv'
<1> USE NoEntryType
<1>0. tf.id \in OptIds /\ e.id \in OptIds
  BY DEF IInv, TypeOK, Entries
<1>1. TypeOK'
  BY <1>0 DEF IInv, TypeOK, Return, Points, OptIds
<1>2. Carried'
  BY DEF Return, Carried, Powering
<1>3. Born'
  BY <1>0 DEF IInv, Born, Return, RowsMoveOn, Torn, OptIds
<1>4. NoOrphan'
  BY DEF NoOrphan, Return
<1>5. ReleasedAreTorn'
  BY <1>0 DEF IInv, ReleasedAreTorn, Return, RowsMoveOn, OptIds, TypeOK
<1> QED BY <1>1, <1>2, <1>3, <1>4, <1>5 DEF IInv

\* Returning the prior entry is always safe while there is no draft.
LEMMA ReturnPriorKeeps ==
  ASSUME IInv, NEW v \in {"none", "clean", "failed", "blamed"}, NEW e \in Entries,
         Return(v, e),
         e.id = tf.id, e = tf \/ tf.id \in Ids, pc # "createWait", RowsOnlyAge,
         setup' = setup, cfg' = cfg, adrift' = adrift,
         owed' \in {"none", "Running", "Stopped"}
  PROVE  IInv'
<1> USE NoEntryType
<1>1. e # NoEntry => e.id \in Ids /\ rows'[e.id].st # "unborn"
  BY DEF IInv, Carried, Born, RowsMoveOn, RowsOnlyAge
<1>2. \A i \in LiveRows' : i \in {e.id} \cup adrift'
  BY DEF IInv, NoOrphan, Carried, LiveRows, RowsOnlyAge
<1>3. adrift' \in SUBSET Ids
  BY DEF IInv, TypeOK
<1> QED BY <1>1, <1>2, <1>3, ReturnKeeps DEF RowsOnlyAge

\* A step of the operation that keeps the saved entry and needs no draft.
LEMMA GotoKeeps ==
  ASSUME IInv, NEW p \in Points, Goto(p), pc # "createWait", p # "createWait",
         RowsOnlyAge, UNCHANGED <<setup, cfg, draft, watch, adrift>>,
         replacing' \in BOOLEAN, owed' \in {"none", "Running", "Stopped"},
         p \in Powering \cup {"refresh", "delete", "deleteWait"} => tf.id \in Ids,
         p = "create" => tf.id = NoId
  PROVE  IInv'
<1>1. TypeOK'
  BY DEF IInv, TypeOK, Goto, RowsOnlyAge
<1>2. Carried'
  BY DEF IInv, Carried, Goto
<1>3. Born' /\ ReleasedAreTorn'
  BY DEF IInv, Born, ReleasedAreTorn, Goto, RowsMoveOn, RowsOnlyAge, TypeOK
<1>4. NoOrphan'
  BY DEF IInv, NoOrphan, Goto, RowsOnlyAge
<1> QED BY <1>1, <1>2, <1>3, <1>4 DEF IInv

-----------------------------------------------------------------------------
LEMMA IInvInit == Init => IInv
<1> SUFFICES ASSUME Init PROVE IInv
  OBVIOUS
<1> USE NoEntryType DEF Init
<1>1. TypeOK
  BY DEF TypeOK, Unborn, Rows, RowStatuses, Phases, Points
<1>2. Carried /\ Born /\ NoOrphan /\ ReleasedAreTorn
  BY DEF Carried, Powering, Born, NoOrphan, ReleasedAreTorn, LiveRows, Unborn
<1> QED BY <1>1, <1>2 DEF IInv

LEMMA StutterKeeps == IInv /\ UNCHANGED vars => IInv'
BY DEF IInv, TypeOK, Carried, Born, NoOrphan, ReleasedAreTorn, LiveRows, vars

LEMMA ServerKeeps ==
  ASSUME IInv, Server
  PROVE  IInv'
<1>1. ServerOnly
  BY DEF Server, Settle, Converge, OutOfBand
<1>2. RowsOnlyAge
  BY ServerMoves DEF IInv
<1>3. TypeOK' /\ Carried'
  BY <1>1, <1>2 DEF IInv, TypeOK, Carried, ServerOnly, RowsOnlyAge
<1>4. Born' /\ ReleasedAreTorn'
  BY <1>1, <1>2 DEF IInv, Born, ReleasedAreTorn, RowsMoveOn, RowsOnlyAge, ServerOnly, TypeOK
<1>5. NoOrphan'
  BY <1>1, <1>2 DEF IInv, NoOrphan, RowsOnlyAge, ServerOnly
<1> QED BY <1>3, <1>4, <1>5 DEF IInv

LEMMA UserKeeps ==
  ASSUME IInv, User
  PROVE  IInv'
<1> USE NoEntryType
<1>1. ASSUME NEW c \in {"absent", "running", "stopped"}, Configure(c)
      PROVE  IInv'
  BY <1>1 DEF Configure, IInv, TypeOK, Carried, Born, NoOrphan, ReleasedAreTorn, LiveRows
<1>2. CASE StartRun
  BY <1>2 DEF StartRun, Points, Powering, IInv, TypeOK, Carried, Born, NoOrphan,
              ReleasedAreTorn, LiveRows
<1>3. CASE Crash
  <2>1. draft.id \in OptIds /\ tf \in Entries
    BY DEF IInv, TypeOK, Entries
  <2>2. adrift' \in SUBSET Ids
    BY <1>3, <2>1 DEF Crash, IInv, TypeOK, OptIds
  <2>3. \A i \in LiveRows' : i \in {tf.id} \cup adrift'
    BY <1>3 DEF Crash, IInv, NoOrphan, LiveRows
  <2>4. tf # NoEntry => tf.id \in Ids /\ rows'[tf.id].st # "unborn"
    BY <1>3 DEF Crash, IInv, Carried, Born
  <2>5. RowsOnlyAge /\ owed' \in {"none", "Running", "Stopped"}
    BY <1>3, StillRows DEF Crash, IInv, TypeOK
  <2> QED BY <1>3, <2>1, <2>2, <2>3, <2>4, <2>5, ReturnKeeps DEF Crash, RowsOnlyAge
<1>4. CASE Untaint
  <2>1. tf' \in Entries /\ tf'.id = tf.id
    BY <1>4, TaintType DEF Untaint, IInv, TypeOK
  <2>2. tf # NoEntry
    BY <1>4 DEF Untaint, NoEntry
  <2> QED BY <1>4, <2>1, <2>2 DEF Untaint, IInv, TypeOK, Carried, Born, NoOrphan,
          ReleasedAreTorn, LiveRows
<1>5. ASSUME NEW i \in Ids, Import(i)
      PROVE  IInv'
  <2>1. tf' \in Entries /\ tf'.id = i
    BY <1>5, SetStateType DEF Import, IInv, TypeOK
  <2>2. rows[i].st # "unborn"
    BY <1>5 DEF Import, Found
  <2>3. TypeOK' /\ Carried'
    BY <1>5, <2>1 DEF Import, IInv, TypeOK, Carried, Powering
  <2>4. Born' /\ NoOrphan' /\ ReleasedAreTorn'
    BY <1>5, <2>1, <2>2 DEF Import, IInv, Born, NoOrphan, ReleasedAreTorn, LiveRows
  <2> QED BY <2>3, <2>4 DEF IInv
<1> QED BY <1>1, <1>2, <1>3, <1>4, <1>5 DEF User

-----------------------------------------------------------------------------
\* The handlers, one operation at a time.
LEMMA RefreshKeeps ==
  ASSUME IInv, Read \/ ReadFails
  PROVE  IInv'
<1> USE NoEntryType
<1>0. /\ pc = "refresh" /\ tf.id \in Ids /\ draft.id = NoId /\ tf \in Entries
      /\ UNCHANGED <<rows, setup, cfg, adrift>>
  BY DEF Read, ReadFails, IInv, TypeOK, Carried
<1>1. CASE /\ Read
           /\ Found(tf.id)
           /\ tf' = SetVmReadState(tf, tf.id)
           /\ UNCHANGED <<released, owed>>
  <2>1. tf' \in Entries /\ tf'.id = tf.id
    BY <1>0, <1>1, SetStateType DEF IInv, TypeOK
  <2>2. TypeOK' /\ Carried'
    BY <1>0, <1>1, <2>1 DEF Read, IInv, TypeOK, Carried, Powering, Points
  <2>3. Born' /\ NoOrphan' /\ ReleasedAreTorn'
    BY <1>0, <1>1, <2>1 DEF Read, IInv, Born, NoOrphan, ReleasedAreTorn, LiveRows
  <2> QED BY <2>2, <2>3 DEF IInv
<1>2. CASE /\ Read
           /\ ~Found(tf.id) \/ rows[tf.id].st = "destroyed"
           /\ tf' = NoEntry
           /\ released' = released \cup {tf.id}
           /\ owed' = "none"
  <2>1. rows[tf.id].st \in Torn
    BY <1>0, <1>2 DEF Found, Torn, IInv, Born
  <2>2. TypeOK' /\ Carried'
    BY <1>0, <1>2 DEF Read, IInv, TypeOK, Carried, Powering, Points
  <2>3. Born' /\ NoOrphan' /\ ReleasedAreTorn'
    BY <1>0, <1>2, <2>1 DEF Read, IInv, Born, NoOrphan, ReleasedAreTorn, LiveRows, Torn
  <2> QED BY <2>2, <2>3 DEF IInv
<1>3. CASE ReadFails
  BY <1>0, <1>3, StillRows, ReturnPriorKeeps DEF ReadFails, IInv, TypeOK
<1> QED BY <1>1, <1>2, <1>3 DEF Read

LEMMA PlanKeeps ==
  ASSUME IInv, PlanNothing \/ PlanCreate \/ PlanUpdate \/ PlanDelete
  PROVE  IInv'
<1>0. /\ pc = "plan" /\ RowsOnlyAge /\ UNCHANGED <<setup, cfg, adrift, owed>>
      /\ tf \in Entries /\ owed \in {"none", "Running", "Stopped"} /\ replacing \in BOOLEAN
  BY StillRows DEF IInv, TypeOK, PlanNothing, PlanCreate, PlanUpdate, PlanDelete
<1>1. CASE PlanNothing
  BY <1>0, <1>1, ReturnPriorKeeps DEF PlanNothing
<1>2. CASE PlanCreate
  <2>1. tf.id = NoId
    BY <1>2, NoEntryType DEF PlanCreate
  <2> QED BY <1>0, <1>2, <2>1, GotoKeeps DEF PlanCreate, Points, Powering
<1>3. CASE PlanUpdate
  <2>1. tf.id \in Ids
    BY <1>3 DEF PlanUpdate, IInv, Carried
  <2> QED BY <1>0, <1>3, <2>1, GotoKeeps DEF PlanUpdate, Points
<1>4. CASE PlanDelete
  <2>1. tf.id \in Ids
    BY <1>4 DEF PlanDelete, IInv, Carried
  <2> QED BY <1>0, <1>4, <2>1, GotoKeeps DEF PlanDelete, Points
<1> QED BY <1>1, <1>2, <1>3, <1>4

LEMMA CreateKeeps ==
  ASSUME IInv,
         \/ \E i \in Ids : Create(i) \/ CreateUnanswered(i)
         \/ CreateRefused
  PROVE  IInv'
<1> USE NoEntryType
<1>0. /\ tf.id = NoId /\ tf = NoEntry /\ draft.id = NoId /\ pc = "create"
      /\ UNCHANGED <<setup, cfg, owed>> /\ owed \in {"none", "Running", "Stopped"}
  BY DEF IInv, TypeOK, Carried, Create, CreateUnanswered, CreateRefused
<1>1. Wanted \in BOOLEAN
  BY DEF Wanted
<1>2. ASSUME NEW i \in Ids, Create(i)
      PROVE  IInv'
  <2>1. /\ rows' \in [Ids -> Rows] /\ RowsMoveOn
        /\ rows'[i].st \in ShownStatuses \ Torn
        /\ \A j \in Ids : j # i => rows'[j] = rows[j]
    BY <1>1, <1>2, PostMoves DEF Create, IInv
  <2>2. draft' \in Entries /\ draft'.id = i
    BY <1>1, <1>2, <2>1 DEF Create, Entries, OptIds
  <2>3. rows'[i].st # "unborn"
    BY <2>1 DEF ShownStatuses
  <2>4. TypeOK'
    BY <1>0, <1>2, <2>1, <2>2 DEF Create, Goto, IInv, TypeOK, Points
  <2>5. Carried'
    BY <1>0, <1>2, <2>2 DEF Create, Goto, IInv, Carried, Powering
  <2>6. Born' /\ ReleasedAreTorn'
    BY <1>2, <2>1, <2>2, <2>3
       DEF Create, Goto, IInv, Born, ReleasedAreTorn, RowsMoveOn, TypeOK
  <2>7. NoOrphan'
    BY <1>0, <1>2, <2>1, <2>2 DEF Create, Goto, IInv, NoOrphan, LiveRows
  <2> QED BY <2>4, <2>5, <2>6, <2>7 DEF IInv
<1>3. ASSUME NEW i \in Ids, CreateUnanswered(i)
      PROVE  IInv'
  <2>1. /\ rows' \in [Ids -> Rows] /\ RowsMoveOn
        /\ \A j \in Ids : j # i => rows'[j] = rows[j]
    BY <1>1, <1>3, PostMoves DEF CreateUnanswered, IInv
  <2>2. \A j \in LiveRows' : j \in {NoEntry.id} \cup adrift'
    BY <1>0, <1>3, <2>1 DEF CreateUnanswered, IInv, NoOrphan, LiveRows
  <2>3. adrift' \in SUBSET Ids
    BY <1>3 DEF CreateUnanswered, IInv, TypeOK
  <2> QED BY <1>0, <1>3, <2>1, <2>2, <2>3, ReturnKeeps DEF CreateUnanswered
<1>4. CASE CreateRefused
  BY <1>0, <1>4, StillRows, ReturnPriorKeeps DEF CreateRefused, IInv
<1> QED BY <1>2, <1>3, <1>4

\* Whatever ends the wait of a Create, the row it created is returned.
LEMMA CreateWaitKeeps ==
  ASSUME IInv, CreateReady \/ CreateBroken \/ CreateWaitAborts
  PROVE  IInv'
<1> USE NoEntryType
<1>0. /\ draft.id \in Ids /\ draft \in Entries /\ tf.id = NoId
      /\ UNCHANGED <<rows, setup, cfg, adrift, owed>>
  BY DEF IInv, TypeOK, Carried, CreateReady, CreateBroken, CreateWaitAborts
<1>1. ASSUME NEW v \in {"clean", "failed"}, NEW e \in Entries, Return(v, e), e.id = draft.id
      PROVE  IInv'
  <2>1. /\ RowsOnlyAge /\ owed' \in {"none", "Running", "Stopped"}
        /\ adrift' \in SUBSET Ids
    BY <1>0, StillRows DEF IInv, TypeOK
  <2>2. rows'[e.id].st # "unborn"
    BY <1>0, <1>1 DEF IInv, Born
  <2>3. \A i \in LiveRows' : i \in {e.id} \cup adrift'
    BY <1>0, <1>1 DEF IInv, NoOrphan, LiveRows
  <2> QED BY <1>0, <1>1, <2>1, <2>2, <2>3, ReturnKeeps DEF RowsOnlyAge
<1>2. Found(draft.id) => /\ SetVmState(draft, draft.id) \in Entries
                         /\ SetVmState(draft, draft.id).id = draft.id
  BY <1>0, SetStateType DEF IInv, TypeOK
<1>3. CASE CreateReady
  BY <1>1, <1>2, <1>3 DEF CreateReady
<1>4. CASE CreateBroken
  BY <1>1, <1>2, <1>4, TaintType DEF CreateBroken
<1>5. CASE CreateWaitAborts
  BY <1>0, <1>1, <1>5, TaintType DEF CreateWaitAborts
<1> QED BY <1>3, <1>4, <1>5

\* An Update keeps the entry's id, whatever becomes of the power call.
LEMMA PowerKeeps ==
  ASSUME IInv,
         \/ Power \/ PowerFails \/ SkipPower
         \/ PowerSeesOther \/ PowerSettled \/ PowerBroken \/ PowerWaitAborts
         \/ PowerRead \/ PowerReadFails
  PROVE  IInv'
<1>0. /\ pc \in Powering /\ tf.id \in Ids /\ tf \in Entries
      /\ owed \in {"none", "Running", "Stopped"} /\ replacing \in BOOLEAN
      /\ UNCHANGED <<setup, cfg, adrift>>
  BY DEF IInv, TypeOK, Carried, Powering, Power, PowerFails, SkipPower, PowerSeesOther,
     PowerSettled, PowerBroken, PowerWaitAborts, PowerRead, PowerReadFails
<1>1. UNCHANGED rows \/ PowerRow(tf.id, Wanted)
  BY DEF Power, PowerFails, SkipPower, PowerSeesOther, PowerSettled, PowerBroken,
     PowerWaitAborts, PowerRead, PowerReadFails
<1>2. RowsOnlyAge
  BY <1>0, <1>1, StillRows, PowerRowMoves DEF IInv, Wanted
<1>3. ASSUME NEW v \in {"clean", "failed", "blamed"}, NEW e \in Entries, Return(v, e),
             e.id = tf.id, owed' = owed
      PROVE  IInv'
  BY <1>0, <1>2, <1>3, ReturnPriorKeeps DEF Powering
<1>4. ASSUME NEW p \in Powering, Goto(p), owed' \in {"none", "Running", "Stopped"},
             UNCHANGED <<draft, watch, replacing>>
      PROVE  IInv'
  BY <1>0, <1>2, <1>4, GotoKeeps DEF Powering, Points
<1>5. CASE Power
  BY <1>4, <1>5 DEF Power, PhaseOf, Powering
<1>6. CASE SkipPower
  BY <1>0, <1>4, <1>6 DEF SkipPower, Powering
<1>7. CASE PowerSettled
  BY <1>0, <1>4, <1>7 DEF PowerSettled, Powering
<1>8. CASE PowerSeesOther
  BY <1>0, <1>8 DEF PowerSeesOther, IInv, TypeOK, Carried, Powering, Born, NoOrphan,
     ReleasedAreTorn, LiveRows
<1>9. CASE PowerFails \/ PowerBroken \/ PowerWaitAborts \/ PowerReadFails
  BY <1>0, <1>3, <1>9 DEF PowerFails, PowerBroken, PowerWaitAborts, PowerReadFails
<1>10. CASE PowerRead
  <2> DEFINE e == [tf EXCEPT !.running = Wanted]
  <2>1. e \in Entries
    BY <1>0 DEF Entries, Wanted
  <2>2. SetVmState(e, tf.id) \in Entries /\ SetVmState(e, tf.id).id = tf.id
    BY <1>0, <1>10, <2>1, SetStateType DEF PowerRead, IInv, TypeOK
  <2> QED BY <1>3, <1>10, <2>2 DEF PowerRead
<1> QED BY <1>5, <1>6, <1>7, <1>8, <1>9, <1>10

LEMMA DeleteKeeps ==
  ASSUME IInv, Delete \/ DeleteFails \/ DeleteDone \/ DeleteWaitAborts
  PROVE  IInv'
<1> USE NoEntryType
<1>0. /\ pc \in {"delete", "deleteWait"} /\ tf.id \in Ids /\ draft.id = NoId
      /\ tf \in Entries /\ UNCHANGED <<setup, cfg, adrift>>
      /\ owed' \in {"none", "Running", "Stopped"} /\ replacing \in BOOLEAN
  BY DEF IInv, TypeOK, Carried, Delete, DeleteFails, DeleteDone, DeleteWaitAborts
<1>1. UNCHANGED rows \/ DeleteRow(tf.id)
  BY DEF Delete, DeleteFails, DeleteDone, DeleteWaitAborts
<1>2. RowsOnlyAge
  BY <1>0, <1>1, StillRows, DeleteRowMoves DEF IInv
<1>3. CASE Delete
  <2>1. /\ Goto("deleteWait") /\ "deleteWait" \in Points /\ replacing' = replacing
        /\ UNCHANGED <<draft, watch>>
    BY <1>3 DEF Delete, Points
  <2> QED BY <1>0, <1>2, <2>1, GotoKeeps
<1>4. CASE DeleteFails \/ DeleteWaitAborts
  BY <1>0, <1>2, <1>4, ReturnPriorKeeps DEF DeleteFails, DeleteWaitAborts
<1>5. CASE DeleteDone
  <2>1. rows[tf.id].st \in Torn /\ UNCHANGED rows
    BY <1>0, <1>5 DEF DeleteDone, Found, Torn, IInv, Born
  <2>2. \A i \in LiveRows' : i \in {NoEntry.id} \cup adrift'
    BY <1>0, <2>1 DEF IInv, NoOrphan, LiveRows
  <2>3. CASE replacing
    <3>1. TypeOK' /\ Carried'
      BY <1>0, <1>2, <1>5, <2>3
         DEF DeleteDone, RowsOnlyAge, IInv, TypeOK, Carried, Powering, Points
    <3>2. Born' /\ ReleasedAreTorn' /\ NoOrphan'
      BY <1>0, <1>5, <2>1, <2>2, <2>3
         DEF DeleteDone, IInv, Born, ReleasedAreTorn, NoOrphan, LiveRows, Torn
    <3> QED BY <3>1, <3>2 DEF IInv
  <2>4. CASE ~replacing
    <3>1. Return("clean", NoEntry) /\ adrift' \in SUBSET Ids
      BY <1>0, <1>5, <2>4 DEF DeleteDone, IInv, TypeOK
    <3> QED BY <1>0, <1>2, <2>1, <2>2, <3>1, ReturnKeeps DEF RowsOnlyAge
  <2> QED BY <2>3, <2>4
<1> QED BY <1>3, <1>4, <1>5

LEMMA IInvNext == IInv /\ [Next]_vars => IInv'
<1> SUFFICES ASSUME IInv, Next PROVE IInv'
  BY StutterKeeps
<1>1. CASE User
  BY <1>1, UserKeeps
<1>2. CASE Server
  BY <1>2, ServerKeeps
<1>3. CASE Provider
  BY <1>3, RefreshKeeps, PlanKeeps, CreateKeeps, CreateWaitKeeps, PowerKeeps, DeleteKeeps
     DEF Provider
<1> QED BY <1>1, <1>2, <1>3 DEF Next

-----------------------------------------------------------------------------
\* Every variable keeps its type (the handlers never return a malformed entry).
THEOREM TypeCorrect == Spec => []TypeOK
<1>1. IInv => TypeOK
  BY DEF IInv
<1> QED BY <1>1, IInvInit, IInvNext, PTL DEF Spec

\* Create is in the returned state before its first poll, a replacement waits
\* for the teardown, Read only forgets what is gone: no live VM is orphaned but
\* by a lost answer or a killed process.
THEOREM NothingOrphaned == Spec => []NoOrphan
<1>1. IInv => NoOrphan
  BY DEF IInv
<1> QED BY <1>1, IInvInit, IInvNext, PTL DEF Spec

\* Whatever the saved state has let go of is torn down and stays so.
THEOREM ReleasesOnlyTorn == Spec => []ReleasedAreTorn
<1>1. IInv => ReleasedAreTorn
  BY DEF IInv
<1> QED BY <1>1, IInvInit, IInvNext, PTL DEF Spec

-----------------------------------------------------------------------------
(* The power state.  Where the API returns no specification the saved      *)
(* running is the last power state that was confirmed, so a call whose     *)
(* outcome is owed still shows in the next plan.                           *)
OwedShows ==
  /\ owed # "none" => tf.id \in Ids /\ owed = PhaseOf(~tf.running)
  /\ pc = "powerWait" => owed = PhaseOf(Wanted)
  /\ pc = "powerRead" => owed # PhaseOf(Wanted)
  /\ verdict = "clean" => pc = "idle"
  /\ PowerConfirmed

PInv == ~setup.readback => OwedShows

LEMMA PhasesDiffer ==
  \A a, b \in BOOLEAN : /\ a # b <=> PhaseOf(a) # PhaseOf(b)
                        /\ a # b <=> PhaseOf(a) = PhaseOf(~b)
                        /\ PhaseOf(a) \in {"Running", "Stopped"}
BY DEF PhaseOf

\* A handler that returns keeps PInv if what is owed still shows in the entry,
\* and the run may only end clean when nothing configured is owed.
LEMMA ReturnShows ==
  ASSUME NEW v, NEW e, Return(v, e), cfg' = cfg,
         owed' # "none" => e.id \in Ids /\ owed' = PhaseOf(~e.running),
         v = "clean" /\ cfg # "absent" => owed' # PhaseOf(Wanted)
  PROVE  OwedShows'
BY DEF Return, OwedShows, PowerConfirmed, PhaseOf, Wanted

LEMMA PInvInit == Init => PInv
BY DEF Init, PInv, OwedShows, PowerConfirmed

LEMMA PInvUser ==
  ASSUME IInv, OwedShows, User
  PROVE  OwedShows'
<1>1. ASSUME NEW c \in {"absent", "running", "stopped"}, Configure(c)
      PROVE  OwedShows'
  BY <1>1 DEF Configure, OwedShows, PowerConfirmed
<1>2. CASE StartRun
  BY <1>2 DEF StartRun, OwedShows, PowerConfirmed
<1>3. CASE Crash
  BY <1>3, ReturnShows DEF Crash, OwedShows
<1>4. CASE Untaint
  BY <1>4 DEF Untaint, OwedShows, PowerConfirmed, IInv, TypeOK, Entries
<1>5. ASSUME NEW i \in Ids, Import(i)
      PROVE  OwedShows'
  <2>1. owed = "none"
    BY <1>5, NoEntryType DEF Import, OwedShows
  <2> QED BY <1>5, <2>1 DEF Import, OwedShows, PowerConfirmed
<1> QED BY <1>1, <1>2, <1>3, <1>4, <1>5 DEF User

LEMMA PInvServer ==
  ASSUME OwedShows, Server
  PROVE  OwedShows'
<1>1. ServerOnly
  BY DEF Server, Settle, Converge, OutOfBand
<1> QED BY <1>1 DEF ServerOnly, OwedShows, PowerConfirmed, PhaseOf, Wanted

\* A refresh, the plan and the requests of Create and Delete.
LEMMA PInvRun ==
  ASSUME IInv, ~setup.readback, OwedShows,
         \/ Read \/ ReadFails \/ PlanNothing \/ PlanCreate \/ PlanUpdate \/ PlanDelete
         \/ \E i \in Ids : Create(i) \/ CreateUnanswered(i)
         \/ CreateRefused \/ CreateReady \/ CreateBroken \/ CreateWaitAborts
         \/ Delete \/ DeleteFails \/ DeleteDone \/ DeleteWaitAborts
  PROVE  OwedShows'
<1>0. tf.id \notin Ids => owed = "none"
  BY DEF OwedShows
<1>1. CASE ReadFails \/ DeleteFails \/ DeleteWaitAborts
  BY <1>1, ReturnShows DEF ReadFails, DeleteFails, DeleteWaitAborts, OwedShows
<1>2. CASE Read
  <2>1. SetVmReadState(tf, tf.id).id = tf.id /\ SetVmReadState(tf, tf.id).running = tf.running
    BY DEF SetVmReadState, SetVmState, IInv, TypeOK, Entries
  <2> QED BY <1>2, <2>1 DEF Read, OwedShows, PowerConfirmed
<1>3. CASE PlanNothing
  <2>1. owed # "none" /\ cfg # "absent" => owed # PhaseOf(Wanted)
    <3>1. cfg # "absent" => tf.running = Wanted \/ tf = NoEntry
      BY <1>3 DEF PlanNothing
    <3>2. tf.running \in BOOLEAN /\ Wanted \in BOOLEAN
      BY DEF IInv, TypeOK, Entries, Wanted
    <3> QED BY <3>1, <3>2, PhasesDiffer, NoEntryType DEF OwedShows
  <2>2. "none" # PhaseOf(Wanted)
    BY DEF PhaseOf
  <2> QED BY <1>3, <2>1, <2>2, ReturnShows DEF PlanNothing, OwedShows
<1>4. CASE PlanCreate \/ PlanUpdate \/ PlanDelete \/ Delete
  BY <1>4 DEF PlanCreate, PlanUpdate, PlanDelete, Delete, Goto, OwedShows, PowerConfirmed
<1>5. ASSUME pc \in {"create", "createWait"}
      PROVE  owed = "none"
  BY <1>0, <1>5, NoEntryType DEF IInv, Carried
<1>6. ASSUME NEW i \in Ids, Create(i)
      PROVE  OwedShows'
  BY <1>5, <1>6 DEF Create, Goto, OwedShows, PowerConfirmed
<1>7. CASE \/ \E i \in Ids : CreateUnanswered(i)
           \/ CreateRefused \/ CreateReady \/ CreateBroken \/ CreateWaitAborts
  <2>1. /\ owed' = "none" /\ cfg' = cfg
        /\ \E v, e : Return(v, e)
    BY <1>5, <1>7 DEF CreateUnanswered, CreateRefused, CreateReady, CreateBroken,
       CreateWaitAborts
  <2>2. "none" # PhaseOf(Wanted)
    BY DEF PhaseOf
  <2> QED BY <2>1, <2>2, ReturnShows
<1>8. CASE DeleteDone
  <2>1. owed' = "none" /\ cfg' = cfg /\ "none" # PhaseOf(Wanted)
    BY <1>8 DEF DeleteDone, PhaseOf
  <2>2. CASE replacing
    BY <1>8, <2>1, <2>2 DEF DeleteDone, OwedShows, PowerConfirmed
  <2>3. CASE ~replacing
    BY <1>8, <2>1, <2>3, ReturnShows DEF DeleteDone
  <2> QED BY <2>2, <2>3 DEF IInv, TypeOK
<1> QED BY <1>1, <1>2, <1>3, <1>4, <1>6, <1>7, <1>8

LEMMA PInvPower ==
  ASSUME IInv, OwedShows,
         \/ Power \/ PowerFails \/ SkipPower
         \/ PowerSeesOther \/ PowerSettled \/ PowerBroken \/ PowerWaitAborts
         \/ PowerRead \/ PowerReadFails
  PROVE  OwedShows'
<1>0. /\ tf.running \in BOOLEAN /\ Wanted \in BOOLEAN /\ tf \in Entries
      /\ owed \in {"none", "Running", "Stopped"}
      /\ "none" # PhaseOf(Wanted)
  BY DEF IInv, TypeOK, Entries, Wanted, PhaseOf
<1>1. CASE PowerFails \/ PowerBroken \/ PowerWaitAborts \/ PowerReadFails
  BY <1>1, ReturnShows
     DEF PowerFails, PowerBroken, PowerWaitAborts, PowerReadFails, OwedShows
<1>2. CASE Power
  <2>1. tf.id \in Ids /\ PhaseOf(Wanted) = PhaseOf(~tf.running)
    BY <1>0, <1>2, PhasesDiffer DEF Power, IInv, Carried, Powering
  <2> QED BY <1>2, <2>1 DEF Power, Goto, OwedShows, PowerConfirmed, Wanted, PhaseOf
<1>3. CASE SkipPower
  <2>1. owed # PhaseOf(Wanted)
    BY <1>0, <1>3, PhasesDiffer DEF SkipPower, OwedShows
  <2> QED BY <1>3, <2>1 DEF SkipPower, Goto, OwedShows, PowerConfirmed, Wanted, PhaseOf
<1>4. CASE PowerSeesOther
  BY <1>4 DEF PowerSeesOther, OwedShows, PowerConfirmed, Wanted, PhaseOf
<1>5. CASE PowerSettled
  <2>1. owed' = "none"
    BY <1>5 DEF PowerSettled, OwedShows
  <2> QED BY <1>5, <2>1 DEF PowerSettled, Goto, OwedShows, PowerConfirmed, Wanted, PhaseOf
<1>6. CASE PowerRead
  <2> DEFINE e == SetVmState([tf EXCEPT !.running = Wanted], tf.id)
  <2>1. e.id = tf.id /\ e.running = Wanted
    BY <1>0 DEF SetVmState, Entries
  <2>2. owed # PhaseOf(Wanted)
    BY <1>6 DEF PowerRead, OwedShows
  <2>3. owed # "none" => owed = PhaseOf(~Wanted)
    BY <1>0, <2>2 DEF PhaseOf
  <2>4. Return("clean", e) /\ cfg' = cfg /\ owed' = owed
    BY <1>6 DEF PowerRead
  <2>5. owed # "none" => tf.id \in Ids
    BY DEF OwedShows
  <2> HIDE DEF e
  <2> QED BY <2>1, <2>2, <2>3, <2>4, <2>5, ReturnShows
<1> QED BY <1>1, <1>2, <1>3, <1>4, <1>5, <1>6

LEMMA PInvNext == IInv /\ PInv /\ [Next]_vars => PInv'
<1>1. ASSUME IInv, PInv, Next
      PROVE  PInv'
  <2>1. setup' = setup
    BY <1>1 DEF Next, User, Configure, StartRun, Crash, Untaint, Import, Server, Settle,
       Converge, OutOfBand, ServerOnly, Provider, Read, ReadFails, PlanNothing, PlanCreate,
       PlanUpdate, PlanDelete, Create, CreateUnanswered, CreateRefused, CreateReady,
       CreateBroken, CreateWaitAborts, Power, PowerFails, SkipPower, PowerSeesOther,
       PowerSettled, PowerBroken, PowerWaitAborts, PowerRead, PowerReadFails, Delete,
       DeleteFails, DeleteDone, DeleteWaitAborts
  <2>2. ASSUME ~setup.readback
        PROVE  OwedShows'
    BY <1>1, <2>2, PInvUser, PInvServer, PInvRun, PInvPower DEF Next, Provider, PInv
  <2> QED BY <2>1, <2>2 DEF PInv
<1>2. PInv /\ UNCHANGED vars => PInv'
  BY DEF PInv, vars, OwedShows, PowerConfirmed, PhaseOf, Wanted
<1> QED BY <1>1, <1>2

\* Where a refresh cannot copy the desired power state, a run that ends clean
\* has seen every power state it asked for in the live phase: an update that
\* failed after an accepted call leaves a diff for the next plan.
THEOREM PowerIsConfirmed == Spec => []PowerConfirmedWithoutReadback
<1>1. PInv => PowerConfirmedWithoutReadback
  BY DEF PInv, OwedShows, PowerConfirmedWithoutReadback
<1> QED BY <1>1, IInvInit, IInvNext, PInvInit, PInvNext, PTL DEF Spec

-----------------------------------------------------------------------------
(* Uniqueness.  Only a POST makes a VM exist, and a POST for a name adopts *)
(* the VM that has it.                                                     *)
OneVm == setup.named => \A i, j \in Ids : Existing(i) /\ Existing(j) => i = j

LEMMA PostExists ==
  ASSUME NEW i \in Ids, NEW running \in BOOLEAN, TypeOK, Post(i, running), OneVm,
         setup' = setup
  PROVE  OneVm'
<1>1. CASE Existing(i) /\ UNCHANGED rows
  BY <1>1 DEF OneVm, Existing
<1>2. CASE /\ setup.named => \A j \in Ids : ~Existing(j)
           /\ rows' = [rows EXCEPT ![i] = [Unborn EXCEPT !.st = "provisioning",
                                                         !.running = running]]
  <2>1. \A j \in Ids : Existing(j)' => Existing(j) \/ j = i
    BY <1>2 DEF Existing, TypeOK
  <2> QED BY <1>2, <2>1 DEF OneVm
<1> QED BY <1>1, <1>2 DEF Post

\* Everything else makes no VM exist that did not.
NoneNew == \A j \in Ids : Existing(j)' => Existing(j)

LEMMA OneVmNext == IInv /\ OneVm /\ [Next]_vars => OneVm'
<1>1. ASSUME OneVm, NoneNew, setup' = setup
      PROVE  OneVm'
  BY <1>1 DEF OneVm, NoneNew
<1>2. UNCHANGED rows => NoneNew
  BY DEF NoneNew, Existing
<1>3. UNCHANGED vars /\ OneVm => OneVm'
  BY DEF vars, OneVm, Existing
<1> SUFFICES ASSUME IInv, OneVm, Next
             PROVE  OneVm'
  BY <1>3
<1>4. TypeOK
  BY DEF IInv
<1>5. CASE User
  <2>1. UNCHANGED <<rows, setup>>
    BY <1>5 DEF User, Configure, StartRun, Crash, Untaint, Import
  <2> QED BY <1>1, <1>2, <2>1
<1>6. CASE Server
  <2>1. PICK i \in Ids : Settle(i) \/ Converge(i) \/ OutOfBand(i)
    BY <1>6 DEF Server
  <2>2. setup' = setup
    BY <2>1 DEF Settle, Converge, OutOfBand, ServerOnly
  <2>3. \A j \in Ids : j # i => rows'[j] = rows[j]
    BY <1>4, <2>1 DEF Settle, Converge, OutOfBand, TypeOK
  <2>4. Existing(i) \/ rows'[i].st \in Torn
    <3>1. CASE rows[i].st = "provisioning" /\ ~rows[i].leaving
      BY <3>1 DEF Existing
    <3>2. CASE /\ Settle(i)
               /\ ~(rows[i].st = "provisioning" /\ ~rows[i].leaving)
      <4>1. rows[i] \in Rows
        BY <1>4 DEF TypeOK
      <4>2. \/ rows' = [rows EXCEPT ![i].st = "destroyed", ![i].leaving = FALSE]
            \/ rows' = [rows EXCEPT ![i].st = "gone"]
        BY <3>2 DEF Settle
      <4> QED BY <1>4, <4>1, <4>2 DEF TypeOK, Torn, Rows
    <3>3. CASE Converge(i) \/ OutOfBand(i)
      BY <3>3 DEF Converge, OutOfBand
    <3> QED BY <2>1, <3>1, <3>2, <3>3
  <2>5. NoneNew
    BY <2>3, <2>4 DEF Existing, NoneNew, Torn
  <2> QED BY <1>1, <2>2, <2>5
<1>7. ASSUME NEW i \in Ids, Create(i) \/ CreateUnanswered(i)
      PROVE  OneVm'
  <2>1. Post(i, Wanted) /\ Wanted \in BOOLEAN /\ setup' = setup
    BY <1>7 DEF Create, CreateUnanswered, Wanted
  <2> QED BY <1>4, <2>1, PostExists
<1>8. CASE /\ tf.id \in Ids /\ setup' = setup
           /\ PowerRow(tf.id, Wanted) \/ DeleteRow(tf.id) \/ UNCHANGED rows
  <2>1. CASE PowerRow(tf.id, Wanted)
    <3>1. Existing(tf.id) /\ \A j \in Ids : j # tf.id => rows'[j] = rows[j]
      BY <1>4, <2>1 DEF PowerRow, TypeOK
    <3>2. NoneNew
      BY <3>1 DEF Existing, NoneNew
    <3> QED BY <1>1, <1>8, <3>2
  <2>2. CASE DeleteRow(tf.id)
    <3>1. /\ Existing(tf.id) \/ UNCHANGED rows
          /\ \A j \in Ids : j # tf.id => rows'[j] = rows[j]
      BY <1>4, <2>2 DEF DeleteRow, TypeOK
    <3>2. NoneNew
      BY <1>2, <3>1 DEF Existing, NoneNew
    <3> QED BY <1>1, <1>8, <3>2
  <2> QED BY <1>1, <1>2, <1>8, <2>1, <2>2
<1>9. CASE Power \/ PowerFails \/ Delete \/ DeleteFails
  <2>1. /\ tf.id \in Ids /\ setup' = setup
        /\ PowerRow(tf.id, Wanted) \/ DeleteRow(tf.id) \/ UNCHANGED rows
    BY <1>9 DEF Power, PowerFails, Delete, DeleteFails, IInv, Carried, Powering
  <2> QED BY <1>8, <2>1
<1>10. CASE \/ Read \/ ReadFails \/ PlanNothing \/ PlanCreate \/ PlanUpdate \/ PlanDelete
            \/ CreateRefused \/ CreateReady \/ CreateBroken \/ CreateWaitAborts
            \/ SkipPower \/ PowerSeesOther \/ PowerSettled \/ PowerBroken
            \/ PowerWaitAborts \/ PowerRead \/ PowerReadFails
            \/ DeleteDone \/ DeleteWaitAborts
  <2>1. UNCHANGED <<rows, setup>>
    BY <1>10 DEF Read, ReadFails, PlanNothing, PlanCreate, PlanUpdate, PlanDelete,
       CreateRefused, CreateReady, CreateBroken, CreateWaitAborts, SkipPower,
       PowerSeesOther, PowerSettled, PowerBroken, PowerWaitAborts, PowerRead,
       PowerReadFails, DeleteDone, DeleteWaitAborts
  <2> QED BY <1>1, <1>2, <2>1
<1> QED BY <1>5, <1>6, <1>7, <1>9, <1>10 DEF Next, Provider

\* A named VM exists once, whatever answers to its creation were lost.
THEOREM NamedVmsAreUnique == Spec => []NamedVmIsUnique
<1>1. Init => OneVm
  BY DEF Init, OneVm, Existing, Unborn
<1>2. IInv /\ OneVm => NamedVmIsUnique
  BY DEF OneVm, NamedVmIsUnique, Existing
<1> QED BY <1>1, <1>2, IInvInit, IInvNext, OneVmNext, PTL DEF Spec

-----------------------------------------------------------------------------
(* The blame for a failure.  Once the wait has seen the VM without a       *)
(* failure, a failure it sees is younger than the power call.              *)
Blamable ==
  /\ watch # "none" => pc \in {"powerWait", "powerRead"}
  /\ watch \in {"healthy", "left"} => ~(rows[tf.id].phase = "Failed") \/ rows[tf.id].fresh

LEMMA ServerKeepsBlamable ==
  ASSUME IInv, Blamable, Server
  PROVE  Blamable'
<1>1. PICK i \in Ids : Settle(i) \/ Converge(i) \/ OutOfBand(i)
  BY DEF Server
<1>2. UNCHANGED <<watch, pc, tf>>
  BY <1>1 DEF Settle, Converge, OutOfBand, ServerOnly
<1>3. \A j \in Ids : rows'[j].phase = "Failed"
                        => \/ rows'[j].fresh
                           \/ rows[j].phase = "Failed" /\ rows'[j].fresh = rows[j].fresh
  <2>0. rows \in [Ids -> Rows] /\ rows[i] \in Rows
    BY DEF IInv, TypeOK
  <2>1. CASE Settle(i)
    <3>1. CASE rows' = [rows EXCEPT ![i].st = PowerStatus(rows[i].running),
                          ![i].phase = IF rows[i].running THEN "Running" ELSE "Stopped"]
      BY <2>0, <3>1 DEF Rows
    <3>2. CASE rows' = [rows EXCEPT ![i].st = "error", ![i].phase = "Failed",
                                    ![i].fresh = TRUE]
      BY <2>0, <3>2 DEF Rows
    <3>3. CASE \/ rows' = [rows EXCEPT ![i].st = "destroyed", ![i].leaving = FALSE]
               \/ rows' = [rows EXCEPT ![i].st = "gone"]
      BY <2>0, <3>3 DEF Rows
    <3> QED BY <2>1, <3>1, <3>2, <3>3 DEF Settle
  <2>2. CASE Converge(i)
    <3>1. PICK p : rows' = [rows EXCEPT ![i].phase = p, ![i].fresh = (p = "Failed")]
      BY <2>2 DEF Converge
    <3>2. rows'[i].phase = p /\ rows'[i].fresh = (p = "Failed")
      BY <2>0, <3>1 DEF Rows
    <3>3. \A j \in Ids : j # i => rows'[j] = rows[j]
      BY <2>0, <3>1
    <3> QED BY <3>2, <3>3
  <2>3. CASE OutOfBand(i)
    <3>1. PICK r : /\ rows' = [rows EXCEPT ![i] = r]
                   /\ r.phase = rows[i].phase /\ r.fresh = rows[i].fresh
      <4>1. CASE \E st \in Torn : rows' = [rows EXCEPT ![i].st = st]
        <5>1. PICK st : rows' = [rows EXCEPT ![i].st = st]
          BY <4>1
        <5> DEFINE r == [rows[i] EXCEPT !.st = st]
        <5>2. r.phase = rows[i].phase /\ r.fresh = rows[i].fresh
          BY <2>0 DEF Rows
        <5> QED BY <2>0, <5>1, <5>2
      <4>2. CASE rows' = [rows EXCEPT ![i].leaving = TRUE]
        <5> DEFINE r == [rows[i] EXCEPT !.leaving = TRUE]
        <5>1. r.phase = rows[i].phase /\ r.fresh = rows[i].fresh
          BY <2>0 DEF Rows
        <5> QED BY <2>0, <4>2, <5>1
      <4>3. CASE \E running \in BOOLEAN :
                   rows' = [rows EXCEPT ![i].st = PowerStatus(running), ![i].running = running]
        <5>1. PICK running : rows' = [rows EXCEPT ![i].st = PowerStatus(running),
                                                  ![i].running = running]
          BY <4>3
        <5> DEFINE r == [rows[i] EXCEPT !.st = PowerStatus(running), !.running = running]
        <5>2. r.phase = rows[i].phase /\ r.fresh = rows[i].fresh
          BY <2>0 DEF Rows
        <5> QED BY <2>0, <5>1, <5>2
      <4> QED BY <2>3, <4>1, <4>2, <4>3 DEF OutOfBand
    <3> QED BY <2>0, <3>1
  <2> QED BY <1>1, <2>1, <2>2, <2>3
<1>4. watch # "none" => tf.id \in Ids
  BY DEF IInv, Carried, Powering, Blamable
<1> QED BY <1>2, <1>3, <1>4 DEF Blamable

LEMMA BlamableNext == IInv /\ Blamable /\ [Next]_vars => Blamable'
<1>1. ASSUME NEW v, NEW e, Return(v, e)
      PROVE  Blamable'
  BY <1>1 DEF Return, Blamable
<1>2. ASSUME Blamable, pc \notin {"powerWait", "powerRead"}, watch' = watch
      PROVE  Blamable'
  BY <1>2 DEF Blamable
<1>3. UNCHANGED vars /\ Blamable => Blamable'
  BY DEF vars, Blamable
<1> SUFFICES ASSUME IInv, Blamable, Next
             PROVE  Blamable'
  BY <1>3
<1>4. CASE User
  BY <1>1, <1>2, <1>4 DEF User, Configure, StartRun, Crash, Untaint, Import
<1>5. CASE Server
  BY <1>5, ServerKeepsBlamable
<1>6. CASE PowerSeesOther
  BY <1>6 DEF PowerSeesOther, Blamable
<1>7. CASE PowerSettled
  BY <1>7 DEF PowerSettled, Goto, Blamable
<1>8. CASE Provider /\ ~PowerSeesOther /\ ~PowerSettled
  BY <1>1, <1>2, <1>8
     DEF Provider, Read, ReadFails, PlanNothing, PlanCreate, PlanUpdate, PlanDelete, Create,
         CreateUnanswered, CreateRefused, CreateReady, CreateBroken, CreateWaitAborts,
         Power, PowerFails, SkipPower, PowerBroken, PowerWaitAborts, PowerRead,
         PowerReadFails, Delete, DeleteFails, DeleteDone, DeleteWaitAborts, Goto
<1> QED BY <1>4, <1>5, <1>6, <1>7, <1>8 DEF Next

\* waitForVmPowerState never blames a power call for the failure it found.
THEOREM OnlyNewFailuresBlamed == Spec => BlamesOnlyNewFailures
<1>1. Init => Blamable
  BY DEF Init, Blamable
<1>2. Next /\ verdict' = "blamed" /\ verdict # "blamed" => PowerBroken
  BY DEF Next, User, Configure, StartRun, Crash, Untaint, Import, Server, Settle, Converge,
     OutOfBand, ServerOnly, Provider, Read, ReadFails, PlanNothing, PlanCreate, PlanUpdate,
     PlanDelete, Create, CreateUnanswered, CreateRefused, CreateReady, CreateBroken,
     CreateWaitAborts, Power, PowerFails, SkipPower, PowerSeesOther, PowerSettled,
     PowerWaitAborts, PowerRead, PowerReadFails, Delete, DeleteFails, DeleteDone,
     DeleteWaitAborts, Goto, Return
<1>3. Blamable /\ [Next]_vars
        => [verdict' = "blamed" /\ verdict # "blamed" => rows[tf.id].fresh]_vars
  BY <1>2 DEF PowerBroken, Blamable
<1> QED BY <1>1, <1>3, IInvInit, IInvNext, BlamableNext, PTL DEF Spec, BlamesOnlyNewFailures
=============================================================================
