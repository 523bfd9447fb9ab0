--------------------------- MODULE VmCustody_proofs ---------------------------
(***************************************************************************)
(* VmLifecycle implements Custody: every step of the VM resource is a step *)
(* of the abstract custodian of the rows, or changes nothing it can see.   *)
(***************************************************************************)
EXTENDS VmLifecycle_proofs

Held == {tf.id, draft.id} \ {NoId}
Dead == {i \in Ids : rows[i].st \in Torn}

\* A row is adrift, and is torn down, only once it was created.
AdriftBorn == \A i \in adrift : rows[i].st # "unborn"
LeavingBorn == \A i \in Ids : rows[i].leaving => rows[i].st # "unborn"

CInv == IInv /\ AdriftBorn /\ LeavingBorn

\* What the custodian sees unchanged.
SameLives == LiveRows' = LiveRows /\ Dead' = Dead
Unseen == SameLives /\ Held' = Held /\ adrift' = adrift

LEMMA UnseenIsStutter == Unseen => UNCHANGED Custodian!vars
BY DEF Unseen, SameLives, Custodian!vars, Dead, Held

LEMMA SameRows == UNCHANGED rows => SameLives /\ RowsMoveOn
BY DEF SameLives, LiveRows, Dead, RowsMoveOn

\* A power call and an accepted deletion are not seen by the custodian, a
\* deletion that is done at once is.
LEMMA PowerRowUnseen ==
  ASSUME NEW i \in Ids, NEW running \in BOOLEAN, TypeOK, PowerRow(i, running)
  PROVE  SameLives
<1>1. /\ Existing(i) /\ rows \in [Ids -> Rows]
      /\ \A j \in Ids : j # i => rows'[j] = rows[j]
  BY DEF PowerRow, TypeOK
<1>2. rows'[i].st \in {"active", "stopped"}
  <2> DEFINE r == [rows[i] EXCEPT !.st = PowerStatus(running), !.running = running,
                                  !.fresh = FALSE]
  <2>1. r.st = PowerStatus(running)
    BY <1>1 DEF Rows
  <2>2. rows'[i] = r
    BY <1>1 DEF PowerRow
  <2> QED BY <2>1, <2>2 DEF PowerStatus
<1> QED BY <1>1, <1>2 DEF SameLives, LiveRows, Dead, Torn, Existing

\* The row i dies, or nothing of it is seen.
RowDies(i) ==
  i \in LiveRows /\ LiveRows' = LiveRows \ {i} /\ Dead' = Dead \cup {i}

\* A step of the server on one row that was created.
LEMMA OneRow ==
  ASSUME IInv, NEW i \in Ids, rows[i].st # "unborn", RowsOnlyAge,
         \A j \in Ids : j # i => rows'[j] = rows[j]
  PROVE  SameLives \/ RowDies(i)
<1>1. /\ rows'[i].st # "unborn"
      /\ rows[i].st \in Torn => rows'[i].st \in Torn
  BY DEF RowsOnlyAge, RowsMoveOn
<1>2. CASE i \in LiveRows /\ rows'[i].st \in Torn
  BY <1>2 DEF RowDies, LiveRows, Dead
<1>3. CASE ~(i \in LiveRows /\ rows'[i].st \in Torn)
  BY <1>1, <1>3 DEF SameLives, LiveRows, Dead
<1> QED BY <1>2, <1>3

LEMMA DeleteRowSeen ==
  ASSUME IInv, NEW i \in Ids, DeleteRow(i)
  PROVE  SameLives \/ RowDies(i)
<1>1. CASE UNCHANGED rows
  BY <1>1, SameRows
<1>2. CASE Existing(i)
  <2>1. /\ \A j \in Ids : j # i => rows'[j] = rows[j]
        /\ rows[i].st # "unborn"
    BY <1>2 DEF DeleteRow, IInv, TypeOK, Existing
  <2> QED BY <2>1, DeleteRowMoves, OneRow DEF IInv
<1> QED BY <1>1, <1>2 DEF DeleteRow

LEMMA RowDiesIsDie ==
  ASSUME NEW i \in Ids, RowDies(i), Held' = Held, adrift' = adrift
  PROVE  Custodian!Next
<1>1. Custodian!Die
  BY DEF RowDies, Custodian!Die, Held, Dead
<1> QED BY <1>1 DEF Custodian!Next

-----------------------------------------------------------------------------
LEMMA InitRefines == Init => Custodian!Init
BY NoEntryType DEF Init, Custodian!Init, LiveRows, Torn, Unborn

\* The server finishes a teardown, or does something the custodian ignores.
LEMMA ServerRefines ==
  ASSUME CInv, Server
  PROVE  Custodian!Next \/ Unseen
<1>1. PICK i \in Ids : Settle(i) \/ Converge(i) \/ OutOfBand(i)
  BY DEF Server
<1>2. Held' = Held /\ adrift' = adrift
  BY <1>1 DEF Settle, Converge, OutOfBand, ServerOnly, Held
<1>3. \A j \in Ids : j # i => rows'[j] = rows[j]
  BY <1>1 DEF Settle, Converge, OutOfBand, CInv, IInv, TypeOK
<1>4. RowsOnlyAge
  BY ServerMoves DEF CInv, IInv
<1>5. rows[i].st # "unborn"
  BY <1>1 DEF Settle, Converge, OutOfBand, Existing, CInv, LeavingBorn
<1>6. SameLives \/ RowDies(i)
  BY <1>3, <1>4, <1>5, OneRow DEF CInv
<1> QED BY <1>2, <1>6, RowDiesIsDie DEF Unseen

LEMMA UserRefines ==
  ASSUME CInv, User
  PROVE  Custodian!Next \/ Unseen
<1> USE NoEntryType
<1>0. rows' = rows /\ SameLives
  BY SameRows DEF User, Configure, StartRun, Crash, Untaint, Import
<1>1. CASE (\E c \in {"absent", "running", "stopped"} : Configure(c)) \/ StartRun
  BY <1>0, <1>1 DEF Configure, StartRun, Unseen, Held
<1>2. CASE Untaint
  <2>1. tf'.id = tf.id
    BY <1>2 DEF Untaint, CInv, IInv, TypeOK, Entries
  <2> QED BY <1>0, <1>2, <2>1 DEF Untaint, Unseen, Held
<1>3. CASE Crash
  <2>1. Held' = {tf.id} \ {NoId} /\ adrift' = adrift \cup ({draft.id} \ {tf.id, NoId})
    BY <1>3 DEF Crash, Return, Held
  <2>2. CASE draft.id \in {tf.id, NoId}
    BY <1>0, <2>1, <2>2 DEF Unseen, Held
  <2>3. CASE draft.id \notin {tf.id, NoId}
    <3>1. draft.id \in Ids
      BY <2>3 DEF CInv, IInv, TypeOK, Entries, OptIds
    <3>2. draft.id \in Held /\ Held' = Held \ {draft.id} /\ adrift' = adrift \cup {draft.id}
      BY <2>1, <2>3 DEF Held
    <3>3. Custodian!Lose
      BY <1>0, <3>2 DEF Custodian!Lose, Held, Dead, SameLives
    <3> QED BY <3>1, <3>3 DEF Custodian!Next
  <2> QED BY <2>2, <2>3
<1>4. ASSUME NEW i \in Ids, Import(i)
      PROVE  Custodian!Next
  <2>1. tf'.id = i /\ draft' = draft /\ adrift' = adrift \ {i}
    BY <1>4, SetStateType DEF Import, CInv, IInv, TypeOK
  <2>2. tf.id = NoId /\ draft.id = NoId /\ i # NoId
    BY <1>4 DEF Import, CInv, IInv, Carried
  <2>3. i \in LiveRows \ Held /\ Held' = Held \cup {i}
    BY <1>4, <2>1, <2>2 DEF Import, Found, LiveRows, Torn, Held
  <2>4. Custodian!Adopt(i)
    BY <1>0, <2>1, <2>3 DEF Custodian!Adopt, Held, Dead, SameLives
  <2> QED BY <2>4 DEF Custodian!Next
<1> QED BY <1>1, <1>2, <1>3, <1>4 DEF User

\* Returning an entry for the same row, or for none when the row is torn down.
LEMMA ReturnRefines ==
  ASSUME CInv, NEW v, NEW e \in Entries, Return(v, e), SameLives, adrift' = adrift,
         \/ e.id = draft.id /\ tf.id \in {draft.id, NoId}
         \/ e.id = tf.id /\ draft.id \in {tf.id, NoId}
         \/ e.id = NoId /\ draft.id = NoId /\ tf.id \in Ids \ LiveRows
  PROVE  Custodian!Next \/ Unseen
<1> USE NoEntryType
<1>1. Held' = {e.id} \ {NoId}
  BY DEF Return, Held
<1>2. CASE e.id = NoId /\ draft.id = NoId /\ tf.id \in Ids \ LiveRows
  <2>1. Custodian!Die
    BY <1>1, <1>2 DEF Custodian!Die, Held, Dead, SameLives
  <2> QED BY <1>2, <2>1 DEF Custodian!Next
<1>3. CASE e.id = draft.id /\ tf.id \in {draft.id, NoId}
  BY <1>1, <1>3 DEF Unseen, Held
<1>4. CASE e.id = tf.id /\ draft.id \in {tf.id, NoId}
  BY <1>1, <1>4 DEF Unseen, Held
<1> QED BY <1>2, <1>3, <1>4

LEMMA RefreshRefines ==
  ASSUME CInv, Read \/ ReadFails
  PROVE  Custodian!Next \/ Unseen
<1> USE NoEntryType
<1>0. /\ SameLives /\ adrift' = adrift
      /\ tf.id \in Ids /\ tf \in Entries /\ draft.id = NoId
  BY SameRows DEF Read, ReadFails, CInv, IInv, TypeOK, Carried
<1>1. CASE ReadFails
  BY <1>0, <1>1, ReturnRefines DEF ReadFails
<1>2. CASE Read /\ tf' = SetVmReadState(tf, tf.id) /\ Found(tf.id)
  <2>1. tf'.id = tf.id /\ draft' = draft
    BY <1>0, <1>2, SetStateType DEF Read, CInv, IInv, TypeOK
  <2> QED BY <1>0, <2>1 DEF Unseen, Held
<1>3. CASE Read /\ tf' = NoEntry /\ (~Found(tf.id) \/ rows[tf.id].st = "destroyed")
  <2>1. Held' = Held \ {tf.id} /\ tf.id \in Held \ LiveRows
    BY <1>0, <1>3 DEF Read, Held, LiveRows, Found, Torn
  <2>2. Custodian!Die
    BY <1>0, <2>1 DEF Custodian!Die, Held, Dead, SameLives
  <2> QED BY <1>0, <2>2 DEF Custodian!Next
<1> QED BY <1>1, <1>2, <1>3 DEF Read

LEMMA PlanRefines ==
  ASSUME CInv, PlanNothing \/ PlanCreate \/ PlanUpdate \/ PlanDelete
  PROVE  Custodian!Next \/ Unseen
<1>0. /\ SameLives /\ adrift' = adrift
      /\ tf \in Entries /\ draft.id = NoId
  BY SameRows DEF PlanNothing, PlanCreate, PlanUpdate, PlanDelete, CInv, IInv, TypeOK, Carried
<1>1. CASE PlanNothing
  BY <1>0, <1>1, ReturnRefines DEF PlanNothing
<1>2. CASE PlanCreate \/ PlanUpdate \/ PlanDelete
  BY <1>0, <1>2 DEF PlanCreate, PlanUpdate, PlanDelete, Goto, Unseen, Held
<1> QED BY <1>1, <1>2

\* A create makes a row, or adopts the one that has the name.
LEMMA CreateRefines ==
  ASSUME CInv,
         \/ \E i \in Ids : Create(i) \/ CreateUnanswered(i)
         \/ CreateRefused
  PROVE  Custodian!Next \/ Unseen
<1> USE NoEntryType
<1>0. /\ tf.id = NoId /\ draft.id = NoId /\ Held = {}
      /\ TypeOK /\ LiveRows \subseteq adrift /\ Wanted \in BOOLEAN
  BY DEF CInv, IInv, Carried, Create, CreateUnanswered, CreateRefused, Held, NoOrphan,
     LiveRows, Wanted
<1>1. ASSUME NEW i \in Ids, Post(i, Wanted)
      PROVE  \/ i \in LiveRows /\ SameLives
             \/ /\ i \notin LiveRows \cup Dead \cup adrift
                /\ LiveRows' = LiveRows \cup {i}
                /\ Dead' = Dead
  <2>1. CASE Existing(i) /\ UNCHANGED rows
    BY <2>1 DEF Existing, LiveRows, Torn, Dead, SameLives
  <2>2. CASE rows[i].st = "unborn"
    <3>1. /\ rows'[i].st \in ShownStatuses \ Torn
          /\ \A j \in Ids : j # i => rows'[j] = rows[j]
      BY <1>0, <1>1, PostMoves
    <3> QED BY <2>2, <3>1 DEF LiveRows, Dead, Torn, ShownStatuses, CInv, AdriftBorn
  <2> QED BY <1>1, <2>1, <2>2 DEF Post
<1>2. ASSUME NEW i \in Ids, Create(i)
      PROVE  Custodian!Next
  <2>1. draft'.id = i /\ tf' = tf /\ adrift' = adrift \ {i}
    BY <1>2 DEF Create, Goto
  <2>2. Held' = {i}
    BY <1>0, <2>1 DEF Held
  <2>3. Custodian!Create(i) \/ Custodian!Adopt(i)
    BY <1>0, <1>1, <1>2, <2>1, <2>2
       DEF Create, Custodian!Create, Custodian!Adopt, Held, Dead, SameLives
  <2> QED BY <2>3 DEF Custodian!Next
<1>3. ASSUME NEW i \in Ids, CreateUnanswered(i)
      PROVE  Custodian!Next \/ Unseen
  <2>1. Held' = Held /\ adrift' = adrift \cup {i}
    BY <1>0, <1>3 DEF CreateUnanswered, Return, Held
  <2>2. CASE i \in LiveRows /\ SameLives
    BY <1>0, <2>1, <2>2 DEF Unseen
  <2>3. CASE /\ i \notin LiveRows \cup Dead \cup adrift
             /\ LiveRows' = LiveRows \cup {i}
             /\ Dead' = Dead
    <3>1. Custodian!Create(i)
      BY <2>1, <2>3 DEF Custodian!Create, Held, Dead
    <3> QED BY <3>1 DEF Custodian!Next
  <2> QED BY <1>1, <1>3, <2>2, <2>3 DEF CreateUnanswered
<1>4. CASE CreateRefused
  BY <1>0, <1>4, SameRows, ReturnRefines DEF CreateRefused
<1> QED BY <1>2, <1>3, <1>4

LEMMA CreateWaitRefines ==
  ASSUME CInv, CreateReady \/ CreateBroken \/ CreateWaitAborts
  PROVE  Custodian!Next \/ Unseen
<1>0. /\ SameLives /\ adrift' = adrift
      /\ tf.id = NoId /\ draft.id \in Ids /\ draft \in Entries
  BY SameRows DEF CreateReady, CreateBroken, CreateWaitAborts, CInv, IInv, TypeOK, Carried
<1>1. ASSUME NEW v, NEW e \in Entries, Return(v, e), e.id = draft.id
      PROVE  Custodian!Next \/ Unseen
  BY <1>0, <1>1, ReturnRefines
<1>2. Found(draft.id) => /\ SetVmState(draft, draft.id) \in Entries
                         /\ SetVmState(draft, draft.id).id = draft.id
  BY <1>0, SetStateType DEF CInv, IInv, TypeOK
<1>3. CASE CreateReady
  BY <1>1, <1>2, <1>3 DEF CreateReady
<1>4. CASE CreateBroken
  BY <1>1, <1>2, <1>4, TaintType DEF CreateBroken
<1>5. CASE CreateWaitAborts
  BY <1>0, <1>1, <1>5, TaintType DEF CreateWaitAborts
<1> QED BY <1>3, <1>4, <1>5

LEMMA PowerRefines ==
  ASSUME CInv,
         \/ Power \/ PowerFails \/ SkipPower
         \/ PowerSeesOther \/ PowerSettled \/ PowerBroken \/ PowerWaitAborts
         \/ PowerRead \/ PowerReadFails
  PROVE  Custodian!Next \/ Unseen
<1>0. /\ adrift' = adrift /\ TypeOK
      /\ tf.id \in Ids /\ draft.id = NoId /\ tf \in Entries
  BY DEF Power, PowerFails, SkipPower, PowerSeesOther, PowerSettled, PowerBroken,
     PowerWaitAborts, PowerRead, PowerReadFails, CInv, IInv, TypeOK, Carried, Powering
<1>1. SameLives
  <2>1. UNCHANGED rows \/ PowerRow(tf.id, Wanted)
    BY DEF Power, PowerFails, SkipPower, PowerSeesOther, PowerSettled, PowerBroken,
       PowerWaitAborts, PowerRead, PowerReadFails
  <2> QED BY <1>0, <2>1, SameRows, PowerRowUnseen DEF Wanted
<1>2. CASE Power \/ SkipPower \/ PowerSettled \/ PowerSeesOther
  BY <1>0, <1>1, <1>2
     DEF Power, SkipPower, PowerSettled, PowerSeesOther, Goto, Unseen, Held
<1>3. CASE PowerFails \/ PowerBroken \/ PowerWaitAborts \/ PowerReadFails
  BY <1>0, <1>1, <1>3, ReturnRefines
     DEF PowerFails, PowerBroken, PowerWaitAborts, PowerReadFails
<1>4. CASE PowerRead
  <2> DEFINE e == [tf EXCEPT !.running = Wanted]
  <2>1. e \in Entries
    BY <1>0 DEF Entries, Wanted
  <2>2. SetVmState(e, tf.id) \in Entries /\ SetVmState(e, tf.id).id = tf.id
    BY <1>0, <1>4, <2>1, SetStateType DEF PowerRead, TypeOK
  <2> QED BY <1>0, <1>1, <1>4, <2>2, ReturnRefines DEF PowerRead
<1> QED BY <1>2, <1>3, <1>4

LEMMA DeleteRefines ==
  ASSUME CInv, Delete \/ DeleteFails \/ DeleteDone \/ DeleteWaitAborts
  PROVE  Custodian!Next \/ Unseen
<1> USE NoEntryType
<1>0. /\ adrift' = adrift /\ IInv
      /\ tf.id \in Ids /\ draft.id = NoId /\ tf \in Entries
  BY DEF Delete, DeleteFails, DeleteDone, DeleteWaitAborts, CInv, IInv, TypeOK, Carried
<1>1. CASE Delete \/ DeleteFails
  <2>1. SameLives \/ RowDies(tf.id)
    BY <1>0, <1>1, SameRows, DeleteRowSeen DEF Delete, DeleteFails
  <2>2. Held' = Held
    BY <1>0, <1>1 DEF Delete, DeleteFails, Goto, Return, Held, NoEntry
  <2> QED BY <1>0, <2>1, <2>2, RowDiesIsDie DEF Unseen
<1>2. CASE DeleteWaitAborts
  BY <1>0, <1>2, SameRows, ReturnRefines DEF DeleteWaitAborts
<1>3. CASE DeleteDone
  <2>1. SameLives /\ tf.id \notin LiveRows
    BY <1>0, <1>3, SameRows DEF DeleteDone, Found, LiveRows, Torn
  <2>2. CASE replacing
    <3>1. Custodian!Die
      BY <1>0, <1>3, <2>1, <2>2 DEF DeleteDone, Custodian!Die, Held, Dead, SameLives
    <3> QED BY <1>0, <3>1 DEF Custodian!Next
  <2>3. CASE ~replacing
    BY <1>0, <1>3, <2>1, <2>3, ReturnRefines DEF DeleteDone
  <2> QED BY <2>2, <2>3
<1> QED BY <1>1, <1>2, <1>3

LEMMA NextRefines == CInv /\ [Next]_vars => [Custodian!Next]_(Custodian!vars)
<1>1. CInv /\ Next => Custodian!Next \/ Unseen
  BY UserRefines, ServerRefines, RefreshRefines, PlanRefines, CreateRefines,
     CreateWaitRefines, PowerRefines, DeleteRefines DEF Next, Provider
<1>2. UNCHANGED vars => Unseen
  BY SameRows DEF vars, Unseen, Held
<1> QED BY <1>1, <1>2, UnseenIsStutter

-----------------------------------------------------------------------------
\* No step takes a row back to before its creation, and a row that a step
\* writes was created before it or by it.
WritesBorn == \A j \in Ids : rows'[j] = rows[j] \/ rows'[j].st # "unborn"

LEMMA NextMoves ==
  ASSUME CInv, Next
  PROVE  RowsMoveOn /\ WritesBorn
<1>0. TypeOK
  BY DEF CInv, IInv
<1>1. CASE UNCHANGED rows
  BY <1>1, SameRows DEF WritesBorn
<1>2. ASSUME NEW i \in Ids, rows[i].st # "unborn", RowsOnlyAge,
             \A j \in Ids : j # i => rows'[j] = rows[j]
      PROVE  RowsMoveOn /\ WritesBorn
  BY <1>2 DEF RowsOnlyAge, RowsMoveOn, WritesBorn
<1>3. CASE Server
  <2>1. PICK i \in Ids : Settle(i) \/ Converge(i) \/ OutOfBand(i)
    BY <1>3 DEF Server
  <2>2. rows[i].st # "unborn" /\ \A j \in Ids : j # i => rows'[j] = rows[j]
    BY <1>0, <2>1 DEF Settle, Converge, OutOfBand, Existing, CInv, LeavingBorn, TypeOK
  <2> QED BY <1>0, <1>2, <1>3, <2>2, ServerMoves
<1>4. ASSUME NEW i \in Ids, Create(i) \/ CreateUnanswered(i)
      PROVE  RowsMoveOn /\ WritesBorn
  <2>1. Wanted \in BOOLEAN /\ Post(i, Wanted)
    BY <1>4 DEF Create, CreateUnanswered, Wanted
  <2> QED BY <1>0, <2>1, PostMoves DEF WritesBorn, ShownStatuses
<1>5. CASE Power \/ PowerFails \/ Delete \/ DeleteFails
  <2>1. tf.id \in Ids /\ Wanted \in BOOLEAN
    BY <1>5 DEF Power, PowerFails, Delete, DeleteFails, CInv, IInv, Carried, Powering, Wanted
  <2>2. CASE Existing(tf.id) /\ (PowerRow(tf.id, Wanted) \/ DeleteRow(tf.id))
    <3>1. /\ rows[tf.id].st # "unborn"
          /\ \A j \in Ids : j # tf.id => rows'[j] = rows[j]
      BY <1>0, <2>1, <2>2 DEF PowerRow, DeleteRow, Existing, TypeOK
    <3> QED BY <1>0, <1>2, <2>1, <2>2, <3>1, PowerRowMoves, DeleteRowMoves
  <2>3. UNCHANGED rows \/ (Existing(tf.id) /\ (PowerRow(tf.id, Wanted) \/ DeleteRow(tf.id)))
    BY <1>5 DEF Power, PowerFails, Delete, DeleteFails, PowerRow, DeleteRow
  <2> QED BY <1>1, <2>2, <2>3
<1>6. CASE User
  BY <1>1, <1>6 DEF User, Configure, StartRun, Crash, Untaint, Import
<1>7. CASE \/ Read \/ ReadFails \/ PlanNothing \/ PlanCreate \/ PlanUpdate \/ PlanDelete
           \/ CreateRefused \/ CreateReady \/ CreateBroken \/ CreateWaitAborts
           \/ SkipPower \/ PowerSeesOther \/ PowerSettled \/ PowerBroken
           \/ PowerWaitAborts \/ PowerRead \/ PowerReadFails
           \/ DeleteDone \/ DeleteWaitAborts
  <2>1. UNCHANGED rows
    BY <1>7 DEF Read, ReadFails, PlanNothing, PlanCreate, PlanUpdate, PlanDelete,
       CreateRefused, CreateReady, CreateBroken, CreateWaitAborts, SkipPower,
       PowerSeesOther, PowerSettled, PowerBroken, PowerWaitAborts, PowerRead,
       PowerReadFails, DeleteDone, DeleteWaitAborts
  <2> QED BY <1>1, <2>1
<1> QED BY <1>3, <1>4, <1>5, <1>6, <1>7 DEF Next, Provider

\* The rows a step sets adrift were created before, or by that step.
LEMMA BornNext == CInv /\ [Next]_vars => AdriftBorn' /\ LeavingBorn'
<1>1. CASE CInv /\ UNCHANGED vars
  BY <1>1 DEF CInv, AdriftBorn, LeavingBorn, vars
<1>2. CASE CInv /\ Next
  <2> USE <1>2 DEF CInv
  <2>1. RowsMoveOn /\ WritesBorn /\ adrift \subseteq Ids
    BY NextMoves DEF IInv, TypeOK
  <2>2. LeavingBorn'
    BY <2>1 DEF WritesBorn, LeavingBorn
  <2>3. CASE adrift' \subseteq adrift
    BY <2>1, <2>2, <2>3 DEF AdriftBorn, RowsMoveOn
  <2>4. CASE Crash
    <3>1. draft.id \in OptIds
      BY DEF IInv, TypeOK, Entries
    <3> QED BY <2>1, <2>2, <2>4, <3>1 DEF Crash, AdriftBorn, IInv, Born, OptIds
  <2>5. ASSUME NEW i \in Ids, CreateUnanswered(i)
        PROVE  AdriftBorn'
    <3>1. Wanted \in BOOLEAN /\ Post(i, Wanted)
      BY <2>5 DEF CreateUnanswered, Wanted
    <3>2. rows'[i].st # "unborn"
      BY <3>1, PostMoves DEF IInv, ShownStatuses
    <3> QED BY <2>1, <2>5, <3>2 DEF CreateUnanswered, AdriftBorn, RowsMoveOn
  <2>6. adrift' \subseteq adrift \/ Crash \/ (\E i \in Ids : CreateUnanswered(i))
    BY DEF Next, User, Configure, StartRun, Untaint, Import, Server, Settle, Converge,
       OutOfBand, ServerOnly, Provider, Read, ReadFails, PlanNothing, PlanCreate,
       PlanUpdate, PlanDelete, Create, CreateRefused, CreateReady, CreateBroken,
       CreateWaitAborts, Power, PowerFails, SkipPower, PowerSeesOther, PowerSettled,
       PowerBroken, PowerWaitAborts, PowerRead, PowerReadFails, Delete, DeleteFails,
       DeleteDone, DeleteWaitAborts
  <2> QED BY <2>2, <2>3, <2>4, <2>5, <2>6
<1> QED BY <1>1, <1>2

\* The VM resource keeps the custody of its rows: it implements Custody.
THEOREM VmKeepsCustody == Spec => KeepsCustody
<1>1. Init => CInv
  BY IInvInit DEF CInv, AdriftBorn, LeavingBorn, Init, Unborn
<1>2. CInv /\ [Next]_vars => CInv'
  BY IInvNext, BornNext DEF CInv
<1> QED BY <1>1, <1>2, InitRefines, NextRefines, PTL DEF Spec, KeepsCustody, Custodian!Spec
=============================================================================
