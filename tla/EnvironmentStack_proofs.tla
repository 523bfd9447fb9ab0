------------------------ MODULE EnvironmentStack_proofs ------------------------
(***************************************************************************)
(* Proofs about EnvironmentStack, for any tree of nodes, any kinds and any *)
(* number of rows: its type invariant, that no row is orphaned and none    *)
(* outlives what takes it along, that parents are deleted last, that a     *)
(* clean run leaves a whole tree, that a clean destroy sweeps what faults  *)
(* left behind, that a run waits for nothing but what has failed, and that *)
(* it implements Custody below the environment.                            *)
(***************************************************************************)
EXTENDS EnvironmentStack, TLAPS

\* A configuration contains what its nodes refer to.
Wants == \A n \in want \ {Root} : Parent[n] \in want

Entered == \A n \in Nodes : tf[n] # NoEntry => tf[n].g \in Gens

\* A create starts with nothing in the state; only what nobody wants, or what
\* is to be replaced, is deleted.
Chored ==
  \A n \in Nodes :
    /\ todo[n] \in {"create", "createWait"} => phase = "walk" /\ n \in want /\ tf[n] = NoEntry
    /\ todo[n] \in {"delete", "deleteWait"} => phase = "walk" /\ (n \in want => n \in again)
    /\ todo[n] = "refresh" => phase = "refresh"

\* In a walk a node is done when it is in the state as it should be, and it is
\* created, let alone done, only below a parent that is done.
Walking ==
  phase = "walk" =>
    /\ again \subseteq want
    /\ \A n \in Nodes : todo[n] = "done" => (n \in want <=> tf[n] # NoEntry)
    /\ \A n \in want : todo[n] = "done" => ~tf[n].tainted
    /\ \A n \in want \ {Root} :
         /\ todo[n] \in {"done", "createWait"} => todo[Parent[n]] = "done"
         /\ todo[n] = "done" => tf[n].up = tf[Parent[n]].g

\* What a clean run leaves stays until the next one.
Clean ==
  verdict = "clean" =>
    /\ phase = "idle"
    /\ \A n \in want \ {Root} : tf[n].up = tf[Parent[n]].g
    /\ \A n \in Nodes : n \in want <=> tf[n] # NoEntry
    /\ \A n \in want : ~tf[n].tainted

Control == Wants /\ Entered /\ Chored /\ Walking /\ Clean

\* The row of an entry, or of a Create in flight, refers to the row it was
\* posted under.
EntryRow(n) ==
  \A g \in Gens : g = tf[n].g =>
    /\ rows[n][g].st # "unborn"
    /\ n # Root /\ rows[n][g].st # "gone" => rows[n][g].up = tf[n].up
DraftRow(n) ==
  \A g \in Gens : g = draft[n] =>
    /\ rows[n][g].st # "unborn"
    /\ n # Root /\ rows[n][g].st # "gone" => rows[n][g].up = tf[Parent[n]].g
Rowed == \A n \in Nodes : EntryRow(n) /\ DraftRow(n)

InHand(n, g) == g \in {tf[n].g, draft[n]} \/ <<n, g>> \in adrift

\* Below the environment even a row on its way out is still in hand, for the
\* gone-waits see it out.  No teardown of a vDC is polled.
Held ==
  \A n \in Nodes \ {Root}, g \in Gens :
    rows[n][g].st \in Present =>
      InHand(n, g) \/ (Kind[n] = "vdc" /\ rows[n][g].st = "leaving")

AppsGoAtOnce == \A n \in Nodes, g \in Gens : Kind[n] = "app" => rows[n][g].st # "leaving"

\* What is live is below a live environment.
Housed ==
  \A n \in Nodes, g \in Gens :
    Live(n, g) => /\ rows[n][g].env \in Gens
                  /\ Live(Root, rows[n][g].env)
                  /\ n = Root => rows[n][g].env = g

\* What a row takes along belongs to its environment, and an environment to
\* itself.
Sheltered ==
  /\ NothingOutlives
  /\ \A g \in Gens : rows[Root][g].st \in Present => rows[Root][g].env = g
  /\ \A n, c \in Nodes, g, h \in Gens :
       n # Root /\ Cascades(n, g, c, h) /\ rows[c][h].st \in Present =>
         rows[c][h].env = rows[n][g].env

Custodial == Rowed /\ Held /\ AppsGoAtOnce /\ Housed /\ Sheltered /\ NoOrphan

IInv == TypeOK /\ Control /\ Custodial

-----------------------------------------------------------------------------
(* What a step does to a row.                                              *)

\* A row that was made is never unborn again; it keeps what it refers to until
\* it is gone, and does not come back.
RowMovesOn(n, g) ==
  rows[n][g].st # "unborn" =>
    /\ rows'[n][g].st # "unborn"
    /\ rows'[n][g].st # "gone" => /\ rows[n][g].st # "gone"
                                  /\ rows'[n][g].up = rows[n][g].up
                                  /\ rows'[n][g].env = rows[n][g].env
    /\ Live(n, g)' => Live(n, g)

RowsMove ==
  /\ rows' \in [Nodes -> [Gens -> Rows]]
  /\ \A n \in Nodes, g \in Gens : RowMovesOn(n, g)
  /\ AppsGoAtOnce'
  /\ Housed'
  /\ Sheltered'

\* A step of the server other than a POST.
RowsOnlyAge ==
  RowsMove /\ \A n \in Nodes, g \in Gens : rows[n][g].st = "unborn" => rows'[n][g].st = "unborn"

LEMMA StillRows == IInv /\ UNCHANGED rows => RowsOnlyAge
BY DEF IInv, Custodial, TypeOK, RowsOnlyAge, RowsMove, RowMovesOn, AppsGoAtOnce, Housed,
   Sheltered, NothingOutlives, Cascades, Live

\* Where no new row appears, what a row takes along still belongs to it.
LEMMA AgingShelters ==
  ASSUME IInv, rows' \in [Nodes -> [Gens -> Rows]],
         \A n \in Nodes, g \in Gens :
           RowMovesOn(n, g) /\ (rows[n][g].st = "unborn" => rows'[n][g].st = "unborn"),
         \A n, c \in Nodes, g, h \in Gens :
           Cascades(n, g, c, h) /\ rows[n][g].st \in Present /\ rows'[c][h].st \in Present =>
             rows'[n][g].st # "gone" /\ (Live(c, h)' /\ Live(n, g) => Live(n, g)')
  PROVE  Sheltered'
<1>0. Sheltered /\ rows \in [Nodes -> [Gens -> Rows]]
  BY DEF IInv, Custodial, TypeOK
<1>1. ASSUME NEW c \in Nodes, NEW h \in Gens, rows'[c][h].st \in Present
      PROVE  /\ rows[c][h].st \in Present
             /\ Live(c, h)' => Live(c, h)
             /\ rows'[c][h].up = rows[c][h].up /\ rows'[c][h].env = rows[c][h].env
  <2>1. rows[c][h] \in Rows /\ RowMovesOn(c, h)
    BY <1>0
  <2> QED BY <1>1, <2>1 DEF RowMovesOn, Present, Rows
<1>2. ASSUME NEW n \in Nodes, NEW c \in Nodes, NEW g \in Gens, NEW h \in Gens,
             rows'[c][h].st \in Present, Cascades(n, g, c, h)'
      PROVE  /\ rows'[n][g].st \in Present
             /\ Live(c, h)' => Live(n, g)'
             /\ n # Root => rows'[c][h].env = rows'[n][g].env
  <2>1. Cascades(n, g, c, h)
    BY <1>1, <1>2 DEF Cascades
  <2>2. /\ rows[n][g].st \in Present /\ (Live(c, h) => Live(n, g))
        /\ n # Root => rows[c][h].env = rows[n][g].env
    BY <1>0, <1>1, <1>2, <2>1 DEF Sheltered, NothingOutlives
  <2>3. /\ rows'[n][g].st # "gone" /\ (Live(c, h)' /\ Live(n, g) => Live(n, g)')
        /\ RowMovesOn(n, g) /\ rows'[n][g] \in Rows
    BY <1>2, <2>1, <2>2
  <2>4. rows'[n][g].st \in Present
    BY <2>2, <2>3 DEF RowMovesOn, Present, Rows
  <2>5. rows'[n][g].env = rows[n][g].env
    BY <1>1, <2>4
  <2> QED BY <1>1, <1>2, <2>2, <2>3, <2>4, <2>5
<1>3. NothingOutlives'
  BY <1>2 DEF NothingOutlives
<1>4. \A g \in Gens : rows'[Root][g].st \in Present => rows'[Root][g].env = g
  BY <1>0, <1>1, ConstantsAssumption DEF Sheltered
<1> QED BY <1>2, <1>3, <1>4 DEF Sheltered

\* An environment takes all that is live below it along.
LEMMA TeardownAges ==
  ASSUME IInv, NEW n \in Nodes, NEW g \in Gens, Teardown(n, g)
  PROVE  /\ RowsOnlyAge
         /\ rows'[n][g].st \in {"unborn", "leaving", "gone"}
<1>0. rows \in [Nodes -> [Gens -> Rows]] /\ AppsGoAtOnce /\ Housed
  BY DEF IInv, TypeOK, Custodial
<1>1. ASSUME NEW c \in Nodes, NEW h \in Gens
      PROVE  /\ Struck(n, g, c, h) => /\ Live(c, h)
                                  /\ rows'[c][h] = IF Kind[c] = "app" THEN Gone
                                                   ELSE [rows[c][h] EXCEPT !.st = "leaving"]
             /\ ~Struck(n, g, c, h) => rows'[c][h] = rows[c][h]
             /\ rows'[c][h] \in Rows
  <2>1. rows[c][h] \in Rows
    BY <1>0
  <2>2. [rows[c][h] EXCEPT !.st = "leaving"] \in Rows /\ Gone \in Rows
    BY <2>1, ConstantsAssumption DEF Rows, Gone, Unborn
  <2>3. Struck(n, g, c, h) => Live(c, h)
    BY DEF Struck
  <2> QED BY <2>1, <2>2, <2>3 DEF Teardown
<1>2. rows' \in [Nodes -> [Gens -> Rows]]
  BY <1>1 DEF Teardown
<1>3. ASSUME NEW c \in Nodes, NEW h \in Gens
      PROVE  /\ RowMovesOn(c, h)
             /\ rows[c][h].st = "unborn" => rows'[c][h].st = "unborn"
             /\ Kind[c] = "app" => rows'[c][h].st # "leaving"
             /\ Live(c, h)' => Live(c, h) /\ rows'[c][h] = rows[c][h] /\ ~Struck(n, g, c, h)
  <2>1. rows[c][h] \in Rows
    BY <1>0
  <2>2. CASE Struck(n, g, c, h) /\ Kind[c] = "app"
    <3>1. rows'[c][h].st = "gone" /\ Live(c, h)
      BY <1>1, <2>2 DEF Gone, Unborn
    <3> QED BY <2>2, <3>1 DEF RowMovesOn, Live
  <2>3. CASE Struck(n, g, c, h) /\ Kind[c] # "app"
    <3>1. rows'[c][h] = [rows[c][h] EXCEPT !.st = "leaving"] /\ Live(c, h)
      BY <1>1, <2>3
    <3> QED BY <2>1, <2>3, <3>1 DEF RowMovesOn, Live, Rows
  <2>4. CASE ~Struck(n, g, c, h)
    <3>1. rows'[c][h] = rows[c][h]
      BY <1>1, <2>4
    <3>2. Live(c, h)' <=> Live(c, h)
      BY <3>1 DEF Live
    <3> QED BY <1>0, <2>4, <3>1, <3>2 DEF RowMovesOn, AppsGoAtOnce
  <2> QED BY <2>2, <2>3, <2>4
<1>4. Housed'
  <2> SUFFICES ASSUME NEW c \in Nodes, NEW h \in Gens, Live(c, h)'
               PROVE  /\ rows'[c][h].env \in Gens
                      /\ Live(Root, rows[c][h].env)'
                      /\ c = Root => rows'[c][h].env = h
    BY DEF Housed
  <2> DEFINE e == rows[c][h].env
  <2>1. /\ Live(c, h) /\ rows'[c][h] = rows[c][h] /\ ~Struck(n, g, c, h)
        /\ e \in Gens /\ Live(Root, e) /\ (c = Root => e = h)
    BY <1>0, <1>3 DEF Housed
  <2>2. Root \in Nodes /\ Root \notin Children(n) /\ Kind[Root] = "environment"
    BY ConstantsAssumption DEF Children
  <2>3. rows[Root][e].env = e
    BY <1>0, <2>1, <2>2 DEF Housed
  <2>4. ~Struck(n, g, Root, e)
    <3> SUFFICES ASSUME Struck(n, g, Root, e)
                 PROVE  FALSE
      OBVIOUS
    <3>1. n = Root /\ g = e
      BY <2>2, <2>3, ConstantsAssumption DEF Struck, Cascades
    <3>2. Cascades(n, g, c, h)
      BY <2>2, <3>1 DEF Cascades
    <3> QED BY <2>1, <3>2 DEF Struck
  <2>5. rows'[Root][e] = rows[Root][e]
    BY <1>1, <2>1, <2>2, <2>4
  <2> QED BY <2>1, <2>5 DEF Live
<1>5. rows'[n][g].st \in {"unborn", "leaving", "gone"}
  <2>1. rows[n][g].st \in {"unborn", "pending", "active", "leaving", "gone"}
    BY <1>0 DEF Rows
  <2>2. Live(n, g) => Struck(n, g, n, g)
    BY DEF Struck
  <2>3. ~Live(n, g) => ~Struck(n, g, n, g)
    BY DEF Struck
  <2>4. ~Live(n, g)'
    BY <1>3, <2>2
  <2>5. rows'[n][g] \in Rows
    BY <1>2
  <2> QED BY <2>4, <2>5 DEF Live, Rows
<1>6. Sheltered'
  <2> SUFFICES ASSUME NEW m \in Nodes, NEW c \in Nodes, NEW f \in Gens, NEW h \in Gens,
                      Cascades(m, f, c, h), rows[m][f].st \in Present, rows'[c][h].st \in Present
               PROVE  rows'[m][f].st # "gone" /\ (Live(c, h)' /\ Live(m, f) => Live(m, f)')
    BY <1>2, <1>3, AgingShelters
  <2>1. Kind[m] \in {"environment", "cluster", "vdc"} /\ rows[m][f] \in Rows
    BY <1>0 DEF Cascades
  <2>2. CASE ~Struck(n, g, m, f)
    BY <1>1, <2>2 DEF Live, Present
  <2>3. CASE Struck(n, g, m, f)
    <3>1. rows'[m][f].st = "leaving"
      BY <1>1, <2>1, <2>3 DEF Rows
    <3>2. ASSUME Live(c, h)'
          PROVE  FALSE
      <4>1. Live(c, h) /\ ~Struck(n, g, c, h) /\ Live(m, f)
        BY <1>3, <2>3, <3>2 DEF Struck
      <4>2. ~(m = n /\ f = g)
        BY <4>1 DEF Struck
      <4>3. Kind[n] = "environment" /\ rows[m][f].env = g
        BY <2>1, <2>3, <4>2 DEF Struck, Cascades
      <4>4. rows[c][h].env = rows[m][f].env
        <5>1. CASE m = Root
          <6>1. rows[c][h].env = f
            BY <5>1, ConstantsAssumption DEF Cascades
          <6>2. rows[Root][f].env = f
            BY <4>1, <5>1 DEF IInv, Custodial, Sheltered, Present, Live
          <6> QED BY <5>1, <6>1, <6>2
        <5>2. CASE m # Root
          BY <4>1, <5>2 DEF IInv, Custodial, Sheltered, Present, Live
        <5> QED BY <5>1, <5>2
      <4> QED BY <4>1, <4>3, <4>4 DEF Struck, Cascades
    <3> QED BY <3>1, <3>2
  <2> QED BY <2>2, <2>3
<1> QED BY <1>2, <1>3, <1>4, <1>5, <1>6 DEF RowsOnlyAge, RowsMove, AppsGoAtOnce

LEMMA DeleteRowAges ==
  ASSUME IInv, NEW n \in Nodes, DeleteRow(n)
  PROVE  RowsOnlyAge /\ \A g \in Gens : g = tf[n].g => ~Live(n, g)'
<1>1. CASE Found(n, tf[n].g)
  <2>1. tf[n].g \in Gens /\ Teardown(n, tf[n].g)
    BY <1>1 DEF DeleteRow, Found
  <2> QED BY <2>1, TeardownAges DEF Live
<1>2. CASE ~Found(n, tf[n].g)
  <2>1. UNCHANGED rows
    BY <1>2 DEF DeleteRow
  <2> QED BY <1>2, <2>1, StillRows DEF Found, Live
<1> QED BY <1>1, <1>2

LEMMA SettleAges ==
  ASSUME IInv, NEW n \in Nodes, NEW g \in Gens, Settle(n, g)
  PROVE  RowsOnlyAge
<1>0. /\ rows \in [Nodes -> [Gens -> Rows]] /\ AppsGoAtOnce /\ Housed
      /\ rows[n][g] \in Rows
  BY DEF IInv, TypeOK, Custodial
<1>1. CASE rows[n][g].st = "pending" /\ rows' = [rows EXCEPT ![n][g].st = "active"]
  <2> DEFINE r == [rows[n][g] EXCEPT !.st = "active"]
  <2>1. r \in Rows /\ r.st = "active" /\ r.up = rows[n][g].up /\ r.env = rows[n][g].env
    BY <1>0 DEF Rows
  <2>2. rows' = [rows EXCEPT ![n][g] = r]
    BY <1>0, <1>1
  <2> HIDE DEF r
  <2>3. rows' \in [Nodes -> [Gens -> Rows]]
    BY <1>0, <2>1, <2>2
  <2>4. \A c \in Nodes, h \in Gens : /\ <<c, h>> # <<n, g>> => rows'[c][h] = rows[c][h]
                                     /\ <<c, h>> = <<n, g>> => rows'[c][h] = r
    BY <1>0, <2>2
  <2>5. \A c \in Nodes, h \in Gens : /\ Live(c, h)' <=> Live(c, h)
                                     /\ rows'[c][h].env = rows[c][h].env
    BY <1>1, <2>1, <2>4 DEF Live
  <2>6. Housed'
    BY <1>0, <2>5, ConstantsAssumption DEF Housed
  <2>7. \A c \in Nodes, h \in Gens :
          RowMovesOn(c, h) /\ (rows[c][h].st = "unborn" => rows'[c][h].st = "unborn")
    BY <1>1, <2>1, <2>4, <2>5 DEF RowMovesOn
  <2>8. Sheltered'
    BY <2>1, <2>3, <2>4, <2>5, <2>7, AgingShelters DEF Present
  <2>9. AppsGoAtOnce'
    BY <1>0, <2>1, <2>4 DEF AppsGoAtOnce
  <2> QED BY <2>3, <2>6, <2>7, <2>8, <2>9 DEF RowsOnlyAge, RowsMove
<1>2. CASE rows[n][g].st = "leaving" /\ rows' = [rows EXCEPT ![n][g] = Gone]
  <2>1. Gone \in Rows /\ Gone.st = "gone"
    BY ConstantsAssumption DEF Rows, Gone, Unborn
  <2>2. rows' \in [Nodes -> [Gens -> Rows]]
    BY <1>0, <1>2, <2>1
  <2>3. \A c \in Nodes, h \in Gens : /\ <<c, h>> # <<n, g>> => rows'[c][h] = rows[c][h]
                                     /\ <<c, h>> = <<n, g>> => rows'[c][h] = Gone
    BY <1>0, <1>2
  <2>4. \A c \in Nodes, h \in Gens : /\ Live(c, h)' <=> Live(c, h)
                                     /\ Live(c, h)' => rows'[c][h] = rows[c][h]
    BY <1>2, <2>1, <2>3 DEF Live
  <2>5. Housed'
    BY <1>0, <2>4, ConstantsAssumption DEF Housed
  <2>6. \A c \in Nodes, h \in Gens :
          RowMovesOn(c, h) /\ (rows[c][h].st = "unborn" => rows'[c][h].st = "unborn")
    BY <1>2, <2>1, <2>3, <2>4 DEF RowMovesOn
  <2>7. ASSUME NEW m \in Nodes, NEW c \in Nodes, NEW f \in Gens, NEW h \in Gens,
               Cascades(m, f, c, h), rows[m][f].st \in Present, rows'[c][h].st \in Present
        PROVE  rows'[m][f].st # "gone" /\ (Live(c, h)' /\ Live(m, f) => Live(m, f)')
    <3>1. ~(c = n /\ h = g) /\ rows[c][h].st \in Present
      BY <2>1, <2>3, <2>7 DEF Present
    <3>2. ~(m = n /\ f = g)
      <4> SUFFICES ASSUME m = n, f = g
                   PROVE  FALSE
        OBVIOUS
      <4>1. c = n
        BY <1>2, <2>7, <3>1 DEF Settle, Present
      <4>2. n = Root
        BY <2>7, <4>1, ConstantsAssumption DEF Cascades
      <4>3. rows[Root][h].env = g /\ rows[Root][h].env = h
        BY <2>7, <3>1, <4>1, <4>2, ConstantsAssumption
           DEF Cascades, Children, IInv, Custodial, Sheltered
      <4> QED BY <3>1, <4>1, <4>3
    <3> QED BY <2>3, <2>4, <2>7, <3>2 DEF Present
  <2>8. Sheltered'
    BY <2>2, <2>6, <2>7, AgingShelters
  <2>9. AppsGoAtOnce'
    BY <1>0, <2>1, <2>3 DEF AppsGoAtOnce
  <2> QED BY <2>2, <2>5, <2>6, <2>8, <2>9 DEF RowsOnlyAge, RowsMove
<1> QED BY <1>1, <1>2 DEF Settle

\* A POST answers with a row below the parent's, which it makes or finds.
LEMMA PostMoves ==
  ASSUME IInv, NEW n \in Nodes, NEW g \in Gens, CanCreate(n), Post(n, UpOf(n), g)
  PROVE  /\ RowsMove
         /\ \A c \in Nodes, h \in Gens : <<c, h>> # <<n, g>> => rows'[c][h] = rows[c][h]
         /\ rows'[n][g].st # "unborn"
         /\ n # Root => rows'[n][g].up = UpOf(n)
<1>0. /\ rows \in [Nodes -> [Gens -> Rows]] /\ AppsGoAtOnce /\ Housed
      /\ rows[n][g] \in Rows /\ UpOf(n) \in 0..MaxGen
  BY ConstantsAssumption DEF IInv, TypeOK, Custodial, UpOf, Entries
<1>1. CASE UNCHANGED rows /\ (Same(n, UpOf(n), g) \/ (n = Root /\ rows[n][g].st = "leaving"))
  BY <1>1, StillRows DEF RowsOnlyAge, Same, Live
<1>2. CASE ~UNCHANGED rows \/ ~(Same(n, UpOf(n), g) \/ (n = Root /\ rows[n][g].st = "leaving"))
  <2> DEFINE p == UpOf(n)
             r == [st |-> IF Kind[n] \in {"cluster", "network"} THEN "pending" ELSE "active",
                   up |-> p,
                   env |-> IF n = Root THEN g
                           ELSE IF Parent[n] = Root THEN p ELSE rows[Parent[n]][p].env]
  <2>1. /\ rows[n][g].st = "unborn"
        /\ n # Root => /\ rows[Parent[n]][p].st = "active"
                       /\ Parent[n] # Root => rows[Root][rows[Parent[n]][p].env].st = "active"
        /\ rows' = [rows EXCEPT ![n][g] = r]
    BY <1>2 DEF Post
  <2>2. n # Root => Parent[n] \in Nodes /\ p \in Gens
    <3> SUFFICES ASSUME n # Root
                 PROVE  Parent[n] \in Nodes /\ p \in Gens
      OBVIOUS
    <3>1. n \in want /\ Parent[n] \in want /\ todo[Parent[n]] = "done" /\ phase = "walk"
      BY DEF CanCreate, IInv, Control, Chored, Wants
    <3>2. Parent[n] \in Nodes /\ tf[Parent[n]] # NoEntry
      BY <3>1 DEF IInv, TypeOK, Control, Walking
    <3> QED BY <3>2 DEF IInv, Control, Entered, UpOf
  <2>3. n # Root => /\ Live(Parent[n], p)
                    /\ r.env \in Gens
                    /\ Live(Root, r.env)
    <3> SUFFICES ASSUME n # Root
                 PROVE  Live(Parent[n], p) /\ r.env \in Gens /\ Live(Root, r.env)
      OBVIOUS
    <3> HIDE DEF p
    <3>1. Live(Parent[n], p)
      BY <2>1, <2>2 DEF Live
    <3> QED BY <1>0, <2>1, <2>2, <3>1 DEF Housed, Live
  <2>4. r \in Rows /\ r.st \in {"pending", "active"} /\ r.up = p /\ (n = Root => r.env = g)
    <3>1. r.env \in Gens
      BY <2>3
    <3> HIDE DEF p
    <3> QED BY <1>0, <3>1 DEF Rows, Gens, p
  <2>5. ASSUME NEW c \in Nodes, NEW h \in Gens
        PROVE  /\ <<c, h>> # <<n, g>> => rows'[c][h] = rows[c][h]
               /\ <<c, h>> = <<n, g>> => rows'[c][h] = r
    <3> HIDE DEF r
    <3> QED BY <1>0, <2>1
  <2> HIDE DEF r, p
  <2>6. rows' \in [Nodes -> [Gens -> Rows]]
    BY <1>0, <2>1, <2>4
  <2>7. \A c \in Nodes, h \in Gens : Live(c, h) => Live(c, h)' /\ rows'[c][h] = rows[c][h]
    BY <2>1, <2>5 DEF Live
  <2>8. Housed'
    <3> SUFFICES ASSUME NEW c \in Nodes, NEW h \in Gens, Live(c, h)'
                 PROVE  /\ rows'[c][h].env \in Gens
                        /\ Live(Root, rows[c][h].env)'
                        /\ c = Root => rows'[c][h].env = h
      BY DEF Housed
    <3>1. CASE <<c, h>> # <<n, g>>
      <4>1. Live(c, h) /\ rows'[c][h].env = rows[c][h].env
        BY <2>5, <3>1 DEF Live
      <4> QED BY <1>0, <2>7, <4>1, ConstantsAssumption DEF Housed
    <3>2. CASE <<c, h>> = <<n, g>> /\ n = Root
      BY <2>4, <2>5, <3>2
    <3>3. CASE <<c, h>> = <<n, g>> /\ n # Root
      BY <2>3, <2>5, <2>7, <3>3, ConstantsAssumption
    <3> QED BY <3>1, <3>2, <3>3
  <2>9. AppsGoAtOnce'
    BY <1>0, <2>4, <2>5 DEF AppsGoAtOnce
  <2>10. \A c \in Nodes, h \in Gens : RowMovesOn(c, h)
    BY <2>1, <2>5 DEF RowMovesOn, Live
  <2>11. Sheltered'
    <3>1. ASSUME NEW m \in Nodes, NEW c \in Nodes, NEW f \in Gens, NEW h \in Gens,
                 rows'[c][h].st \in Present, Cascades(m, f, c, h)'
          PROVE  /\ rows'[m][f].st \in Present
                 /\ Live(c, h)' => Live(m, f)'
                 /\ m # Root => rows'[c][h].env = rows'[m][f].env
      <4>1. CASE ~(c = n /\ h = g)
        <5>1. rows'[c][h] = rows[c][h] /\ Cascades(m, f, c, h)
          BY <2>5, <3>1, <4>1 DEF Cascades
        <5>2. /\ rows[m][f].st \in Present /\ (Live(c, h) => Live(m, f))
              /\ m # Root => rows[c][h].env = rows[m][f].env
          BY <3>1, <5>1 DEF IInv, Custodial, Sheltered, NothingOutlives
        <5>3. rows'[m][f] = rows[m][f]
          BY <2>1, <2>5, <5>2 DEF Present
        <5> QED BY <5>1, <5>2, <5>3 DEF Live
      <4>2. CASE c = n /\ h = g /\ m = Root
        <5>1. f = r.env
          BY <2>5, <3>1, <4>2, ConstantsAssumption DEF Cascades
        <5>2. Live(Root, f)'
          <6>1. CASE n = Root
            BY <2>4, <2>5, <4>2, <5>1, <6>1 DEF Live
          <6>2. CASE n # Root
            BY <2>3, <2>7, <5>1, <6>2, ConstantsAssumption
          <6> QED BY <6>1, <6>2
        <5> QED BY <4>2, <5>2 DEF Live, Present
      <4>3. CASE c = n /\ h = g /\ m # Root
        <5>1. n # Root /\ Parent[n] = m /\ f = p
          BY <2>4, <2>5, <3>1, <4>3, ConstantsAssumption DEF Cascades, Children
        <5>2. Live(m, f) /\ rows'[m][f] = rows[m][f] /\ Live(m, f)'
          BY <2>3, <2>7, <5>1
        <5>3. rows'[c][h].env = rows[m][f].env
          BY <2>5, <4>3, <5>1 DEF r
        <5> QED BY <5>2, <5>3 DEF Live, Present
      <4> QED BY <4>1, <4>2, <4>3
    <3>2. NothingOutlives'
      BY <3>1 DEF NothingOutlives
    <3>3. ASSUME NEW f \in Gens, rows'[Root][f].st \in Present
          PROVE  rows'[Root][f].env = f
      BY <2>4, <2>5, <3>3, ConstantsAssumption DEF IInv, Custodial, Sheltered
    <3> QED BY <3>1, <3>2, <3>3 DEF Sheltered
  <2> QED BY <2>4, <2>5, <2>6, <2>8, <2>9, <2>10, <2>11 DEF RowsMove, p
<1> QED BY <1>1, <1>2
-----------------------------------------------------------------------------
(* The rows stay in hand.                                                  *)

\* The steps that neither make a row nor let one out of hand unless it is gone
\* or, for an environment or a vDC, on its way out.
Retained ==
  \A n \in Nodes, g \in Gens :
    /\ rows[n][g].st = "unborn" /\ rows'[n][g].st # "unborn" => InHand(n, g)'
    /\ InHand(n, g) => \/ InHand(n, g)'
                       \/ rows'[n][g].st \in {"unborn", "gone"}
                       \/ rows'[n][g].st = "leaving" /\ (n = Root \/ Kind[n] = "vdc")

LEMMA StayHeld ==
  ASSUME IInv, RowsMove, Retained
  PROVE  Held' /\ NoOrphan'
<1>0. /\ rows \in [Nodes -> [Gens -> Rows]] /\ rows' \in [Nodes -> [Gens -> Rows]]
      /\ Held /\ NoOrphan
  BY DEF IInv, TypeOK, Custodial, RowsMove
<1>1. ASSUME NEW n \in Nodes, NEW g \in Gens
      PROVE  /\ n # Root /\ rows'[n][g].st \in Present =>
                  InHand(n, g)' \/ (Kind[n] = "vdc" /\ rows'[n][g].st = "leaving")
             /\ Live(n, g)' => InHand(n, g)'
  <2>1. rows[n][g] \in Rows /\ rows'[n][g] \in Rows
    BY <1>0
  <2>2. RowMovesOn(n, g)
    BY DEF RowsMove
  <2>3. Live(n, g) => InHand(n, g)
    BY <1>0 DEF NoOrphan, InHand
  <2>4. n # Root /\ rows[n][g].st \in Present =>
          InHand(n, g) \/ (Kind[n] = "vdc" /\ rows[n][g].st = "leaving")
    BY <1>0 DEF Held
  <2> QED BY <2>1, <2>2, <2>3, <2>4 DEF Retained, RowMovesOn, Live, Present, Rows
<1> QED BY <1>1 DEF Held, NoOrphan, InHand

\* A node that waits is below one that is done.
LEMMA WaitsBelowDone ==
  ASSUME IInv, NEW n \in Nodes \ {Root}, draft[n] # 0
  PROVE  Parent[n] \in Nodes /\ todo[Parent[n]] = "done"
BY DEF IInv, TypeOK, Control, Wants, Chored, Walking

\* Only nodes with something to do change their entries; what they save, or
\* what a Create is answered with, was posted under the parent's row.
Accountable ==
  /\ tf' \in [Nodes -> Entries] /\ draft' \in [Nodes -> 0..MaxGen]
  /\ \A n \in Nodes : todo[n] = "done" => tf'[n] = tf[n]
  /\ \A n \in Nodes : tf'[n] = tf[n] \/ tf'[n] = NoEntry \/ EntryRow(n)'
  /\ \A n \in Nodes : draft'[n] \in {draft[n], 0} \/ DraftRow(n)'

LEMMA StayRowed ==
  ASSUME IInv, RowsMove, Accountable
  PROVE  Rowed'
<1>0. 0 \notin Gens /\ NoEntry.g = 0
  BY DEF Gens, NoEntry
<1>1. ASSUME NEW n \in Nodes
      PROVE  EntryRow(n)'
  <2>1. CASE tf'[n] = tf[n]
    <3>1. EntryRow(n) /\ \A g \in Gens : RowMovesOn(n, g)
      BY DEF IInv, Custodial, Rowed, RowsMove
    <3> QED BY <2>1, <3>1 DEF EntryRow, RowMovesOn
  <2>2. CASE tf'[n] = NoEntry
    BY <1>0, <2>2 DEF EntryRow
  <2> QED BY <2>1, <2>2 DEF Accountable
<1>2. ASSUME NEW n \in Nodes
      PROVE  DraftRow(n)'
  <2>1. CASE draft'[n] = draft[n] /\ draft[n] # 0
    <3>1. DraftRow(n) /\ \A g \in Gens : RowMovesOn(n, g)
      BY DEF IInv, Custodial, Rowed, RowsMove
    <3>2. n # Root => tf'[Parent[n]] = tf[Parent[n]]
      BY <2>1, WaitsBelowDone DEF Accountable
    <3> QED BY <2>1, <3>1, <3>2 DEF DraftRow, RowMovesOn
  <2>2. CASE draft'[n] = 0
    BY <1>0, <2>2 DEF DraftRow
  <2> QED BY <2>1, <2>2 DEF Accountable
<1> QED BY <1>1, <1>2 DEF Rowed

LEMMA StayCustodial ==
  ASSUME IInv, RowsMove, Retained, Accountable
  PROVE  Custodial'
BY StayHeld, StayRowed DEF Custodial, RowsMove

-----------------------------------------------------------------------------
(* The walk.                                                               *)

\* A step of the walk that takes one node from its chore to x and leaves the
\* entry e behind.
Moves(n, x, e) ==
  /\ phase = "walk"
  /\ todo[n] # "done"
  /\ UNCHANGED <<want, phase, again, verdict>>
  /\ todo' = [todo EXCEPT ![n] = x]
  /\ tf' = [tf EXCEPT ![n] = e]
  /\ e # NoEntry => e.g \in Gens
  /\ x \in {"create", "createWait"} => n \in want /\ e = NoEntry
  /\ x \in {"delete", "deleteWait"} => (n \in want => n \in again)
  /\ x # "refresh"
  /\ x = "done" => (n \in want <=> e # NoEntry) /\ ~e.tainted
  /\ n \in want \ {Root} =>
       /\ x \in {"done", "createWait"} => todo[Parent[n]] = "done"
       /\ x = "done" => e.up = tf[Parent[n]].g

LEMMA WalkMoves ==
  ASSUME IInv, NEW n \in Nodes, NEW x \in Chores, NEW e \in Entries, Moves(n, x, e)
  PROVE  /\ Control'
         /\ tf' \in [Nodes -> Entries] /\ todo' \in [Nodes -> Chores]
         /\ \A m \in Nodes : todo[m] = "done" => tf'[m] = tf[m]
<1>0. /\ tf \in [Nodes -> Entries] /\ todo \in [Nodes -> Chores]
      /\ want \subseteq Nodes /\ phase = "walk" /\ todo[n] # "done"
      /\ UNCHANGED <<want, phase, again, verdict>>
      /\ \A m \in want \ {Root} : Parent[m] \in want
  BY DEF IInv, TypeOK, Control, Wants, Moves
<1>1. \A m \in Nodes : /\ m # n => todo'[m] = todo[m] /\ tf'[m] = tf[m]
                       /\ m = n => todo'[m] = x /\ tf'[m] = e
  BY <1>0 DEF Moves
<1>2. Wants' /\ Clean'
  BY <1>0 DEF Wants, Clean, IInv, Control
<1>3. Entered'
  BY <1>1 DEF Entered, IInv, Control, Moves
<1>4. Chored'
  BY <1>0, <1>1 DEF Chored, IInv, Control, Moves
<1>5. Walking'
  <2>1. /\ again \subseteq want
        /\ \A m \in Nodes : todo[m] = "done" => (m \in want <=> tf[m] # NoEntry)
        /\ \A m \in want : todo[m] = "done" => ~tf[m].tainted
        /\ \A m \in want \ {Root} :
             /\ todo[m] \in {"done", "createWait"} => todo[Parent[m]] = "done"
             /\ todo[m] = "done" => tf[m].up = tf[Parent[m]].g
    BY <1>0 DEF IInv, Control, Walking
  <2>2. ASSUME NEW m \in Nodes, todo'[m] = "done"
        PROVE  (m \in want' <=> tf'[m] # NoEntry) /\ (m \in want => ~tf'[m].tainted)
    BY <1>0, <1>1, <2>1, <2>2 DEF Moves
  <2>3. ASSUME NEW m \in want \ {Root}
        PROVE  /\ todo'[m] \in {"done", "createWait"} => todo'[Parent[m]] = "done"
               /\ todo'[m] = "done" => tf'[m].up = tf'[Parent[m]].g
    <3>1. m \in Nodes /\ Parent[m] \in Nodes
      BY <1>0
    <3>2. todo[Parent[m]] = "done" => /\ todo'[Parent[m]] = "done"
                                      /\ tf'[Parent[m]] = tf[Parent[m]]
      BY <1>0, <1>1, <3>1
    <3>3. CASE m = n
      BY <1>1, <3>1, <3>2, <3>3 DEF Moves
    <3>4. CASE m # n
      BY <1>1, <2>1, <3>1, <3>2, <3>4
    <3> QED BY <3>3, <3>4
  <2> QED BY <1>0, <2>1, <2>2, <2>3 DEF Walking
<1> QED BY <1>0, <1>1, <1>2, <1>3, <1>4, <1>5 DEF Control, Moves

LEMMA WalkKeeps ==
  ASSUME IInv, NEW n \in Nodes, NEW x \in Chores, NEW e \in Entries, NEW d \in 0..MaxGen,
         Moves(n, x, e),
         e \in {tf[n], NoEntry} \/ EntryRow(n)',
         draft' = [draft EXCEPT ![n] = d],
         d # 0 <=> x = "createWait",
         d = 0 \/ DraftRow(n)',
         RowsMove, Retained, adrift' \subseteq Nodes \X Gens
  PROVE  IInv'
<1>0. /\ tf \in [Nodes -> Entries] /\ todo \in [Nodes -> Chores] /\ again \subseteq Nodes
      /\ draft \in [Nodes -> 0..MaxGen] /\ want \subseteq Nodes
      /\ verdict \in {"none", "clean", "failed"} /\ phase = "walk"
      /\ \A m \in Nodes : draft[m] # 0 <=> todo[m] = "createWait"
      /\ UNCHANGED <<want, phase, again, verdict>>
      /\ todo' = [todo EXCEPT ![n] = x] /\ tf' = [tf EXCEPT ![n] = e]
  BY DEF IInv, TypeOK, Moves
<1>1. /\ Control'
      /\ tf' \in [Nodes -> Entries] /\ todo' \in [Nodes -> Chores]
      /\ \A m \in Nodes : todo[m] = "done" => tf'[m] = tf[m]
  BY WalkMoves
<1>2. draft' \in [Nodes -> 0..MaxGen]
  BY <1>0
<1>3. TypeOK'
  <2>1. \A m \in Nodes : draft'[m] # 0 <=> todo'[m] = "createWait"
    BY <1>0
  <2> QED BY <1>0, <1>1, <1>2, <2>1 DEF TypeOK, RowsMove
<1>4. Accountable
  BY <1>0, <1>1, <1>2 DEF Accountable
<1> QED BY <1>1, <1>3, <1>4, StayCustodial DEF IInv

\* A row that is neither made nor let go of.
LEMMA AgedRetained ==
  ASSUME RowsOnlyAge, \A n \in Nodes, g \in Gens : InHand(n, g) => InHand(n, g)'
  PROVE  Retained
BY DEF RowsOnlyAge, Retained

-----------------------------------------------------------------------------
(* The actions.                                                            *)

LEMMA CreateFacts ==
  ASSUME IInv, NEW n \in Nodes, CanCreate(n)
  PROVE  /\ phase = "walk" /\ todo[n] = "create" /\ n \in want
         /\ tf[n] = NoEntry /\ draft[n] = 0
         /\ UpOf(n) \in 0..MaxGen
         /\ n # Root => todo[Parent[n]] = "done"
         /\ tf[n].g \notin Gens
BY ConstantsAssumption
   DEF IInv, TypeOK, Control, Chored, CanCreate, UpOf, Entries, NoEntry, Gens

LEMMA CreateAtOnceKeeps ==
  ASSUME IInv, NEW n \in Nodes, NEW g \in Gens, CreateAtOnce(n, g)
  PROVE  IInv'
<1> DEFINE e == Entry(n, g)
<1>0. /\ CanCreate(n) /\ Post(n, UpOf(n), g)
      /\ adrift' = adrift \ {<<n, g>>}
      /\ tf' = [tf EXCEPT ![n] = e] /\ todo' = [todo EXCEPT ![n] = "done"]
      /\ UNCHANGED <<want, phase, again, draft, verdict>>
  BY DEF CreateAtOnce
<1>1. e \in Entries /\ e.g = g /\ e.up = UpOf(n) /\ ~e.tainted /\ e # NoEntry
  BY <1>0, CreateFacts DEF Entry, Entries, NoEntry, Gens
<1>2. Moves(n, "done", e)
  BY <1>0, <1>1, CreateFacts DEF Moves, UpOf
<1>3. draft' = [draft EXCEPT ![n] = 0]
  BY <1>0, CreateFacts DEF IInv, TypeOK
<1>4. tf'[n] = e /\ \A c \in Nodes : c # n => tf'[c] = tf[c]
  BY <1>0 DEF IInv, TypeOK
<1> HIDE DEF e
<1>5. EntryRow(n)'
  BY <1>0, <1>1, <1>4, PostMoves DEF EntryRow
<1>6. Retained
  <2>1. InHand(n, g)'
    BY <1>1, <1>4 DEF InHand
  <2>2. ASSUME NEW c \in Nodes, NEW h \in Gens, <<c, h>> # <<n, g>>
        PROVE  rows'[c][h] = rows[c][h] /\ (InHand(c, h) => InHand(c, h)')
    <3>1. h = tf[c].g => h = tf'[c].g
      BY <1>0, <1>4, CreateFacts
    <3> QED BY <1>0, <2>2, <3>1, PostMoves DEF InHand
  <2> QED BY <2>1, <2>2 DEF Retained
<1>7. adrift' \subseteq Nodes \X Gens /\ "done" \in Chores /\ 0 \in 0..MaxGen
  BY <1>0, ConstantsAssumption DEF IInv, TypeOK, Chores
<1> QED BY <1>0, <1>1, <1>2, <1>3, <1>5, <1>6, <1>7, PostMoves, WalkKeeps

LEMMA CreateAwaitedKeeps ==
  ASSUME IInv, NEW n \in Nodes, NEW g \in Gens, CreateAwaited(n, g)
  PROVE  IInv'
<1>0. /\ CanCreate(n) /\ Post(n, UpOf(n), g)
      /\ adrift' = adrift \ {<<n, g>>}
      /\ draft' = [draft EXCEPT ![n] = g] /\ todo' = [todo EXCEPT ![n] = "createWait"]
      /\ UNCHANGED <<want, tf, phase, again, verdict>>
  BY DEF CreateAwaited
<1>1. tf' = [tf EXCEPT ![n] = NoEntry] /\ NoEntry \in Entries
  BY <1>0, CreateFacts DEF IInv, TypeOK
<1>2. Moves(n, "createWait", NoEntry)
  BY <1>0, <1>1, CreateFacts DEF Moves
<1>3. draft'[n] = g /\ \A c \in Nodes : c # n => draft'[c] = draft[c]
  BY <1>0 DEF IInv, TypeOK
<1>4. DraftRow(n)'
  BY <1>0, <1>3, PostMoves DEF DraftRow, UpOf
<1>5. Retained
  <2>1. InHand(n, g)'
    BY <1>3 DEF InHand
  <2>2. ASSUME NEW c \in Nodes, NEW h \in Gens, <<c, h>> # <<n, g>>
        PROVE  rows'[c][h] = rows[c][h] /\ (InHand(c, h) => InHand(c, h)')
    <3>1. h = draft[c] => h = draft'[c]
      BY <1>0, <1>3, CreateFacts DEF Gens
    <3> QED BY <1>0, <2>2, <3>1, PostMoves DEF InHand
  <2> QED BY <2>1, <2>2 DEF Retained
<1>6. /\ adrift' \subseteq Nodes \X Gens /\ "createWait" \in Chores
      /\ g \in 0..MaxGen /\ g # 0
  BY <1>0, ConstantsAssumption DEF IInv, TypeOK, Chores, Gens
<1> QED BY <1>0, <1>1, <1>2, <1>4, <1>5, <1>6, PostMoves, WalkKeeps

\* The answer is lost, for good or until the POST is repeated.
LEMMA CreateLostKeeps ==
  ASSUME IInv, NEW n \in Nodes, NEW g \in Gens, CreateRetried(n, g) \/ CreateUnanswered(n, g)
  PROVE  IInv'
<1>0. /\ CanCreate(n) /\ Post(n, UpOf(n), g)
      /\ adrift' = adrift \cup {<<n, g>>}
      /\ UNCHANGED <<want, tf, phase, again, draft, verdict>>
  BY DEF CreateRetried, CreateUnanswered
<1>1. PICK x \in {"create", "failed"} : todo' = [todo EXCEPT ![n] = x]
  BY <1>0, CreateFacts DEF CreateRetried, CreateUnanswered, IInv, TypeOK
<1>2. tf' = [tf EXCEPT ![n] = NoEntry] /\ NoEntry \in Entries
  BY <1>0, CreateFacts DEF IInv, TypeOK
<1>3. Moves(n, x, NoEntry)
  BY <1>0, <1>1, <1>2, CreateFacts DEF Moves
<1>4. draft' = [draft EXCEPT ![n] = 0]
  BY <1>0, CreateFacts DEF IInv, TypeOK
<1>5. Retained
  BY <1>0, PostMoves DEF Retained, InHand
<1>6. /\ adrift' \subseteq Nodes \X Gens /\ x \in Chores /\ 0 \in 0..MaxGen
      /\ x # "createWait"
  BY <1>0, ConstantsAssumption DEF IInv, TypeOK, Chores
<1> QED BY <1>0, <1>2, <1>3, <1>4, <1>5, <1>6, PostMoves, WalkKeeps

\* A node that fails without a trace.
LEMMA FailsKeeps ==
  ASSUME IInv, NEW n \in Nodes, phase = "walk", todo[n] \in {"create", "delete", "deleteWait"},
         RowsOnlyAge, todo' = [todo EXCEPT ![n] = "failed"],
         UNCHANGED <<want, tf, phase, again, draft, verdict, adrift>>
  PROVE  IInv'
<1>1. tf' = [tf EXCEPT ![n] = tf[n]] /\ tf[n] \in Entries
      /\ draft' = [draft EXCEPT ![n] = 0] /\ 0 \in 0..MaxGen
  BY ConstantsAssumption DEF IInv, TypeOK
<1>2. Moves(n, "failed", tf[n])
  BY <1>1 DEF Moves, IInv, Control, Entered
<1>3. Retained
  BY AgedRetained DEF InHand
<1> QED BY <1>1, <1>2, <1>3, WalkKeeps DEF Chores, RowsOnlyAge, IInv, TypeOK

LEMMA WaitFacts ==
  ASSUME IInv, NEW n \in Nodes, todo[n] = "createWait"
  PROVE  /\ phase = "walk" /\ n \in want /\ tf[n] = NoEntry
         /\ draft[n] \in Gens /\ tf[n].g \notin Gens
         /\ UpOf(n) \in 0..MaxGen
         /\ n # Root => todo[Parent[n]] = "done" /\ Parent[n] # n
         /\ rows[n][draft[n]].st # "unborn"
         /\ n # Root /\ rows[n][draft[n]].st # "gone" => rows[n][draft[n]].up = UpOf(n)
<1>1. /\ phase = "walk" /\ n \in want /\ tf[n] = NoEntry
      /\ draft[n] \in Gens /\ tf[n].g \notin Gens
      /\ n # Root => todo[Parent[n]] = "done" /\ Parent[n] # n
  BY ConstantsAssumption DEF IInv, TypeOK, Control, Chored, Walking, NoEntry, Gens
<1>2. UpOf(n) \in 0..MaxGen
  BY ConstantsAssumption DEF IInv, TypeOK, UpOf, Entries
<1>3. DraftRow(n)
  BY DEF IInv, Custodial, Rowed
<1> QED BY <1>1, <1>2, <1>3 DEF DraftRow, UpOf

\* A Create returns with the row it was answered with.
LEMMA SavesKeeps ==
  ASSUME IInv, NEW n \in Nodes, todo[n] = "createWait",
         NEW x \in {"done", "failed"}, NEW e, e.g = draft[n], e.up = UpOf(n), e \in Entries,
         x = "done" => ~e.tainted,
         Returned(n, x), tf' = [tf EXCEPT ![n] = e], UNCHANGED adrift
  PROVE  IInv'
<1>0. /\ draft' = [draft EXCEPT ![n] = 0] /\ todo' = [todo EXCEPT ![n] = x]
      /\ UNCHANGED <<rows, want, phase, again, verdict>>
  BY DEF Returned
<1>1. e # NoEntry /\ e.g \in Gens
  BY WaitFacts DEF NoEntry, Gens
<1>2. Moves(n, x, e)
  BY <1>0, <1>1, WaitFacts DEF Moves, UpOf
<1>3. /\ tf'[n] = e /\ \A c \in Nodes : c # n => tf'[c] = tf[c]
      /\ \A c \in Nodes : c # n => draft'[c] = draft[c]
  BY <1>0 DEF IInv, TypeOK
<1>4. EntryRow(n)'
  BY <1>0, <1>3, WaitFacts DEF EntryRow
<1>5. RowsOnlyAge
  BY <1>0, StillRows
<1>6. Retained
  <2>1. ASSUME NEW c \in Nodes, NEW h \in Gens, InHand(c, h)
        PROVE  InHand(c, h)'
    BY <1>3, <2>1, WaitFacts DEF InHand
  <2> QED BY <1>5, <2>1, AgedRetained
<1>7. adrift' \subseteq Nodes \X Gens /\ x \in Chores /\ 0 \in 0..MaxGen /\ x # "createWait"
  BY ConstantsAssumption DEF IInv, TypeOK, Chores
<1> QED BY <1>0, <1>2, <1>4, <1>5, <1>6, <1>7, WalkKeeps DEF RowsOnlyAge

LEMMA CreateReturns ==
  ASSUME IInv, \/ EnvironmentRead
               \/ \E n \in Nodes : BecomesActive(n) \/ NeverActive(n)
  PROVE  IInv'
<1>1. ASSUME NEW n \in Nodes, todo[n] = "createWait"
      PROVE  /\ Entry(n, draft[n]) \in Entries
             /\ [Entry(n, draft[n]) EXCEPT !.tainted = TRUE] \in Entries
  <2>1. draft[n] \in 0..MaxGen /\ UpOf(n) \in 0..MaxGen
    BY <1>1, WaitFacts DEF IInv, TypeOK
  <2>2. Entry(n, draft[n]) \in Entries
    BY <2>1 DEF Entry, Entries
  <2> QED BY <2>2 DEF Entries
<1>2. CASE EnvironmentRead
  BY <1>1, <1>2, SavesKeeps, ConstantsAssumption DEF EnvironmentRead, Entry
<1>3. ASSUME NEW n \in Nodes, BecomesActive(n)
      PROVE  IInv'
  BY <1>1, <1>3, SavesKeeps DEF BecomesActive, Entry
<1>4. ASSUME NEW n \in Nodes, NeverActive(n)
      PROVE  IInv'
  BY <1>1, <1>4, SavesKeeps DEF NeverActive, Entry
<1> QED BY <1>2, <1>3, <1>4

LEMMA EnvironmentUnreadKeeps == IInv /\ EnvironmentUnread => IInv'
<1> SUFFICES ASSUME IInv, EnvironmentUnread
             PROVE  IInv'
  OBVIOUS
<1>0. /\ Root \in Nodes /\ todo[Root] = "createWait"
      /\ adrift' = adrift \cup {<<Root, draft[Root]>>}
      /\ draft' = [draft EXCEPT ![Root] = 0] /\ todo' = [todo EXCEPT ![Root] = "failed"]
      /\ UNCHANGED <<rows, want, phase, again, verdict, tf>>
  BY ConstantsAssumption DEF EnvironmentUnread, Returned
<1>1. tf' = [tf EXCEPT ![Root] = NoEntry] /\ NoEntry \in Entries
  BY <1>0, WaitFacts DEF IInv, TypeOK
<1>2. Moves(Root, "failed", NoEntry)
  BY <1>0, <1>1, WaitFacts DEF Moves
<1>3. Retained
  <2>1. ASSUME NEW c \in Nodes, NEW h \in Gens, InHand(c, h)
        PROVE  InHand(c, h)'
    BY <1>0, <2>1 DEF InHand, IInv, TypeOK
  <2> QED BY <1>0, <2>1, AgedRetained, StillRows
<1>4. adrift' \subseteq Nodes \X Gens /\ 0 \in 0..MaxGen
  BY <1>0, WaitFacts, ConstantsAssumption DEF IInv, TypeOK
<1> QED BY <1>0, <1>1, <1>2, <1>3, <1>4, WalkKeeps, StillRows DEF RowsOnlyAge, Chores

\* What Deleted leaves of a node, whose row is in nobody's hand any more, or on
\* its way out with nobody to poll it.
LEMMA DeletedKeeps ==
  ASSUME IInv, NEW n \in Nodes, todo[n] \in {"delete", "deleteWait"}, RowsOnlyAge, Deleted(n),
         \A g \in Gens : g = tf[n].g =>
           \/ rows'[n][g].st \in {"unborn", "gone"}
           \/ rows'[n][g].st = "leaving" /\ (n = Root \/ Kind[n] = "vdc"),
         UNCHANGED <<want, phase, again, draft, verdict, adrift>>
  PROVE  IInv'
<1> DEFINE x == IF n \in again THEN "create" ELSE "done"
<1>0. /\ tf' = [tf EXCEPT ![n] = NoEntry] /\ todo' = [todo EXCEPT ![n] = x]
      /\ phase = "walk" /\ todo[n] # "done" /\ (n \in want <=> n \in again)
  BY DEF Deleted, IInv, Control, Chored, Walking
<1>1. Moves(n, x, NoEntry)
  BY <1>0 DEF Moves, NoEntry
<1>2. draft' = [draft EXCEPT ![n] = 0]
  BY DEF IInv, TypeOK
<1>3. Retained
  <2>1. \A c \in Nodes : c # n => tf'[c] = tf[c]
    BY <1>0 DEF IInv, TypeOK
  <2>2. ASSUME NEW c \in Nodes, NEW h \in Gens, InHand(c, h)
        PROVE  \/ InHand(c, h)'
               \/ rows'[c][h].st \in {"unborn", "gone"}
               \/ rows'[c][h].st = "leaving" /\ (c = Root \/ Kind[c] = "vdc")
    <3>1. CASE c = n /\ h = tf[n].g
      BY <3>1
    <3>2. CASE c # n
      BY <2>1, <2>2, <3>2 DEF InHand
    <3>3. CASE h # tf[c].g
      BY <2>2, <3>3 DEF InHand
    <3> QED BY <3>1, <3>2, <3>3
  <2> QED BY <2>2 DEF Retained, RowsOnlyAge
<1>4. /\ x \in Chores /\ x # "createWait" /\ NoEntry \in Entries /\ 0 \in 0..MaxGen
      /\ adrift' \subseteq Nodes \X Gens
  BY ConstantsAssumption DEF Chores, NoEntry, Entries, IInv, TypeOK
<1> HIDE DEF x
<1> QED BY <1>0, <1>1, <1>2, <1>3, <1>4, WalkKeeps DEF RowsOnlyAge

LEMMA DeleteAtOnceKeeps ==
  ASSUME IInv, NEW n \in Nodes, DeleteAtOnce(n)
  PROVE  IInv'
<1>0. /\ CanDelete(n) /\ ~Polled(n) /\ DeleteRow(n) /\ Deleted(n)
      /\ UNCHANGED <<want, phase, again, draft, verdict, adrift>>
  BY DEF DeleteAtOnce
<1>1. RowsOnlyAge /\ todo[n] = "delete"
  BY <1>0, DeleteRowAges DEF CanDelete
<1>2. n = Root \/ Kind[n] \in {"vdc", "app"}
  BY <1>0, ConstantsAssumption DEF Polled, Kinds
<1>3. ASSUME NEW g \in Gens, g = tf[n].g
      PROVE  \/ rows'[n][g].st \in {"unborn", "gone"}
             \/ rows'[n][g].st = "leaving" /\ (n = Root \/ Kind[n] = "vdc")
  <2>1. ~Live(n, g)' /\ rows'[n][g] \in Rows /\ (Kind[n] = "app" => rows'[n][g].st # "leaving")
    BY <1>0, <1>1, <1>3, DeleteRowAges DEF RowsOnlyAge, RowsMove, AppsGoAtOnce
  <2> QED BY <1>2, <2>1 DEF Live, Rows
<1> QED BY <1>0, <1>1, <1>3, DeletedKeeps

LEMMA DeletePolledKeeps ==
  ASSUME IInv, NEW n \in Nodes, DeletePolled(n)
  PROVE  IInv'
<1>0. /\ CanDelete(n) /\ DeleteRow(n) /\ todo' = [todo EXCEPT ![n] = "deleteWait"]
      /\ UNCHANGED <<want, tf, phase, again, draft, verdict, adrift>>
  BY DEF DeletePolled
<1>1. /\ RowsOnlyAge /\ todo[n] = "delete" /\ phase = "walk" /\ (n \in want => n \in again)
      /\ tf' = [tf EXCEPT ![n] = tf[n]] /\ tf[n] \in Entries
      /\ draft' = [draft EXCEPT ![n] = 0] /\ 0 \in 0..MaxGen
  BY <1>0, DeleteRowAges, ConstantsAssumption DEF CanDelete, IInv, TypeOK, Control, Chored
<1>2. Moves(n, "deleteWait", tf[n])
  BY <1>0, <1>1 DEF Moves, IInv, Control, Entered
<1>3. Retained
  BY <1>0, <1>1, AgedRetained DEF InHand
<1> QED BY <1>0, <1>1, <1>2, <1>3, WalkKeeps DEF Chores, RowsOnlyAge, IInv, TypeOK

LEMMA DeleteKeeps ==
  ASSUME IInv, NEW n \in Nodes,
         \/ DeleteAtOnce(n) \/ DeletePolled(n) \/ DeleteFails(n)
         \/ DeleteGone(n) \/ DeleteWaitFails(n)
  PROVE  IInv'
<1>1. CASE DeleteFails(n)
  BY <1>1, StillRows, DeleteRowAges, FailsKeeps DEF DeleteFails, CanDelete
<1>2. CASE DeleteGone(n)
  <2>1. RowsOnlyAge
    BY <1>2, StillRows DEF DeleteGone
  <2>2. \A g \in Gens : g = tf[n].g => rows'[n][g].st \in {"unborn", "gone"}
    BY <1>2 DEF DeleteGone, Found
  <2> QED BY <1>2, <2>1, <2>2, DeletedKeeps DEF DeleteGone
<1>3. CASE DeleteWaitFails(n)
  BY <1>3, StillRows, FailsKeeps DEF DeleteWaitFails, IInv, Control, Chored
<1> QED BY <1>1, <1>2, <1>3, DeleteAtOnceKeeps, DeletePolledKeeps

\* A step outside the walk's nodes: what every row, entry and Create in flight
\* is stays in hand.
LEMMA ElsewhereKeeps ==
  ASSUME IInv, RowsOnlyAge, Retained, TypeOK', Control',
         \A n \in Nodes : todo[n] = "done" => tf'[n] = tf[n],
         \A n \in Nodes : tf'[n] \in {tf[n], NoEntry} /\ draft'[n] \in {draft[n], 0}
  PROVE  IInv'
BY StayCustodial DEF IInv, Accountable, TypeOK, RowsOnlyAge

LEMMA ServerKeeps == IInv /\ Server => IInv'
<1> SUFFICES ASSUME IInv, NEW n \in Nodes, NEW g \in Gens, Settle(n, g) \/ Reap(n, g)
             PROVE  IInv'
  BY DEF Server
<1>1. RowsOnlyAge /\ UNCHANGED <<want, tf, phase, todo, again, draft, verdict>>
  BY SettleAges, TeardownAges DEF Settle, Reap, ServerOnly
<1>2. /\ adrift' \subseteq Nodes \X Gens
      /\ \A c \in Nodes, h \in Gens :
           <<c, h>> \in adrift => <<c, h>> \in adrift' \/ rows'[c][h].st = "gone"
  <2>1. CASE Settle(n, g)
    <3>1. adrift' = {row \in adrift : rows'[row[1]][row[2]].st # "gone"}
      BY <2>1 DEF Settle
    <3> QED BY <3>1 DEF IInv, TypeOK
  <2>2. CASE Reap(n, g)
    BY <2>2 DEF Reap, IInv, TypeOK
  <2> QED BY <2>1, <2>2
<1>3. Retained
  BY <1>1, <1>2 DEF Retained, InHand, RowsOnlyAge
<1>4. TypeOK'
  BY <1>1, <1>2 DEF IInv, TypeOK, RowsOnlyAge, RowsMove
<1>5. Control'
  BY <1>1 DEF IInv, Control, Wants, Entered, Chored, Walking, Clean
<1> QED BY <1>1, <1>3, <1>4, <1>5, ElsewhereKeeps

LEMMA ConfigureKeeps == IInv /\ (\E w \in Configurations : Configure(w)) => IInv'
<1> SUFFICES ASSUME IInv, NEW w \in Configurations, Configure(w)
             PROVE  IInv'
  OBVIOUS
<1>1. /\ phase = "idle" /\ want' = w /\ verdict' = "none"
      /\ UNCHANGED <<rows, tf, phase, todo, again, draft, adrift>>
      /\ w \subseteq Nodes /\ \A n \in w \ {Root} : Parent[n] \in w
  BY ConstantsAssumption DEF Configure
<1>2. TypeOK'
  BY <1>1 DEF IInv, TypeOK
<1>3. Control'
  BY <1>1 DEF IInv, Control, Wants, Entered, Chored, Walking, Clean
<1> QED BY <1>1, <1>2, <1>3, StillRows, AgedRetained, ElsewhereKeeps DEF InHand

LEMMA StartKeeps == IInv /\ Start => IInv'
<1> SUFFICES ASSUME IInv, Start
             PROVE  IInv'
  OBVIOUS
<1>1. /\ phase = "idle" /\ phase' = "refresh" /\ verdict' = "none"
      /\ UNCHANGED <<rows, want, tf, again, draft, adrift>>
      /\ \A n \in Nodes : todo'[n] \in {"done", "refresh"}
      /\ todo' \in [Nodes -> Chores]
  BY DEF Start, Chores
<1>2. TypeOK'
  BY <1>1 DEF IInv, TypeOK
<1>3. Control'
  BY <1>1 DEF IInv, TypeOK, Control, Wants, Entered, Chored, Walking, Clean
<1> QED BY <1>1, <1>2, <1>3, StillRows, AgedRetained, ElsewhereKeeps DEF InHand

\* The run is over: nothing is to do, and what was in flight is adrift.
LEMMA CrashKeeps == IInv /\ Crash => IInv'
<1> SUFFICES ASSUME IInv, Crash
             PROVE  IInv'
  OBVIOUS
<1>1. /\ phase' = "idle" /\ verdict' = "none" /\ again' = {}
      /\ todo' = [n \in Nodes |-> "done"] /\ draft' = [n \in Nodes |-> 0]
      /\ adrift' = adrift \cup {<<n, draft[n]>> : n \in {m \in Nodes : draft[m] # 0}}
      /\ UNCHANGED <<rows, want, tf>>
  BY DEF Crash
<1>2. TypeOK'
  <2>1. adrift' \subseteq Nodes \X Gens
    BY <1>1 DEF IInv, TypeOK, Gens
  <2> QED BY <1>1, <2>1, ConstantsAssumption DEF IInv, TypeOK, Chores
<1>3. Control'
  BY <1>1 DEF IInv, TypeOK, Control, Wants, Entered, Chored, Walking, Clean
<1>4. \A n \in Nodes, g \in Gens : InHand(n, g) => InHand(n, g)'
  BY <1>1 DEF InHand, Gens
<1> QED BY <1>1, <1>2, <1>3, <1>4, StillRows, AgedRetained, ElsewhereKeeps

LEMMA ReadFailsKeeps == IInv /\ ReadFails => IInv'
<1> SUFFICES ASSUME IInv, ReadFails
             PROVE  IInv'
  OBVIOUS
<1>1. /\ phase = "refresh" /\ phase' = "idle" /\ verdict' = "failed"
      /\ todo' = [n \in Nodes |-> "done"]
      /\ UNCHANGED <<rows, want, tf, again, draft, adrift>>
  BY DEF ReadFails
<1>2. TypeOK'
  BY <1>1 DEF IInv, TypeOK, Chores
<1>3. Control'
  BY <1>1 DEF IInv, TypeOK, Control, Wants, Entered, Chored, Walking, Clean
<1> QED BY <1>1, <1>2, <1>3, StillRows, AgedRetained, ElsewhereKeeps DEF InHand

LEMMA EndRunKeeps == IInv /\ EndRun => IInv'
<1> SUFFICES ASSUME IInv, EndRun
             PROVE  IInv'
  OBVIOUS
<1>1. /\ phase = "walk" /\ phase' = "idle" /\ again' = {}
      /\ todo' = [n \in Nodes |-> "done"]
      /\ verdict' \in {"clean", "failed"}
      /\ verdict' = "clean" => \A n \in Nodes : todo[n] = "done"
      /\ UNCHANGED <<rows, want, tf, draft, adrift>>
      /\ \A n \in Nodes : todo[n] \notin {"createWait", "deleteWait"}
  BY DEF EndRun
<1>2. TypeOK'
  BY <1>1 DEF IInv, TypeOK, Chores
<1>3. Control'
  <2>1. Clean'
    BY <1>1 DEF IInv, TypeOK, Control, Walking, Clean
  <2> QED BY <1>1, <2>1 DEF IInv, TypeOK, Control, Wants, Entered, Chored, Walking
<1> QED BY <1>1, <1>2, <1>3, StillRows, AgedRetained, ElsewhereKeeps DEF InHand

LEMMA ReadKeeps ==
  ASSUME IInv, NEW n \in Nodes, Read(n)
  PROVE  IInv'
<1>1. /\ phase = "refresh" /\ todo[n] = "refresh"
      /\ tf' = IF Found(n, tf[n].g) THEN tf ELSE [tf EXCEPT ![n] = NoEntry]
      /\ todo' = [todo EXCEPT ![n] = "done"]
      /\ UNCHANGED <<rows, want, phase, again, draft, verdict, adrift>>
  BY DEF Read
<1>2. /\ tf' \in [Nodes -> Entries] /\ todo' \in [Nodes -> Chores]
      /\ \A c \in Nodes : tf'[c] \in {tf[c], NoEntry} /\ (c # n => tf'[c] = tf[c])
      /\ \A c \in Nodes : todo'[c] \in {todo[c], "done"}
  BY <1>1, ConstantsAssumption DEF IInv, TypeOK, Chores, Entries, NoEntry
<1>3. TypeOK'
  BY <1>1, <1>2 DEF IInv, TypeOK
<1>4. Control'
  BY <1>1, <1>2 DEF IInv, TypeOK, Control, Wants, Entered, Chored, Walking, Clean
<1>5. RowsOnlyAge
  BY <1>1, StillRows
<1>6. Retained
  <2>1. \A c \in Nodes, g \in Gens : InHand(c, g) =>
          InHand(c, g)' \/ (c = n /\ g = tf[n].g /\ ~Found(n, tf[n].g))
    BY <1>1, <1>2 DEF InHand
  <2> QED BY <1>1, <1>5, <2>1 DEF Retained, RowsOnlyAge, Found
<1> QED BY <1>1, <1>2, <1>3, <1>4, <1>5, <1>6, ElsewhereKeeps DEF IInv, TypeOK

\* What a node refers to, its parent refers to or is.
LEMMA UpwardsOfParent ==
  ASSUME NEW n \in Nodes \ {Root}
  PROVE  n \in Upwards(n) /\ Upwards(Parent[n]) \subseteq Upwards(n)
BY DEF Upwards, Closed

LEMMA PlanKeeps ==
  ASSUME IInv, NEW changed, Plan(changed)
  PROVE  IInv'
<1>0. /\ phase = "refresh" /\ phase' = "walk"
      /\ again' = {n \in want : tf[n] # NoEntry /\ Renewed(n, changed)}
      /\ UNCHANGED <<rows, want, tf, draft, verdict, adrift>>
      /\ want \subseteq Nodes
  BY DEF Plan, IInv, TypeOK
<1>1. todo' \in [Nodes -> Chores]
  BY DEF Plan, Chores
<1>u. ASSUME NEW n \in want, ~Renewed(n, changed)
      PROVE  ~tf[n].tainted
  BY <1>0, <1>u DEF Renewed, Upwards
<1>2. ASSUME NEW n \in Nodes
      PROVE  /\ todo'[n] \in {"done", "create", "delete"}
             /\ todo'[n] = "create" => n \in want /\ tf[n] = NoEntry
             /\ todo'[n] = "delete" => (n \in want => n \in again')
             /\ todo'[n] = "done" => (n \in want <=> tf[n] # NoEntry) /\ n \notin again'
             /\ todo'[n] = "done" /\ n \in want => ~tf[n].tainted
  BY <1>0, <1>u DEF Plan
<1>3. TypeOK'
  BY <1>0, <1>1, <1>2 DEF IInv, TypeOK
<1>4. Walking'
  <2> SUFFICES ASSUME NEW n \in want \ {Root}, todo'[n] = "done"
               PROVE  todo'[Parent[n]] = "done" /\ tf[n].up = tf[Parent[n]].g
    BY <1>0, <1>2 DEF Walking
  <2>1. n \in Nodes /\ Parent[n] \in want /\ Parent[n] \in Nodes
    BY <1>0 DEF IInv, Control, Wants
  <2>2. ~Renewed(n, changed)
    BY <1>0, <1>2, <2>1
  <2>3. tf[n].up = tf[Parent[n]].g
    BY <2>1, <2>2, UpwardsOfParent DEF Renewed
  <2>4. ~Renewed(Parent[n], changed) /\ tf[Parent[n]] # NoEntry
    <3>1. Upwards(Parent[n]) \subseteq Upwards(n) /\ Parent[n] \in Upwards(n)
      BY <2>1, UpwardsOfParent DEF Upwards
    <3> QED BY <2>2, <3>1 DEF Renewed
  <2>5. todo'[Parent[n]] = "done"
    BY <1>0, <2>1, <2>4 DEF Plan
  <2> QED BY <2>3, <2>5
<1>5. Control'
  BY <1>0, <1>2, <1>4 DEF IInv, Control, Wants, Entered, Chored, Clean
<1> QED BY <1>0, <1>3, <1>5, StillRows, AgedRetained, ElsewhereKeeps DEF InHand, IInv, TypeOK

-----------------------------------------------------------------------------
LEMMA IInvInit == Init => IInv
<1> SUFFICES ASSUME Init
             PROVE  IInv
  OBVIOUS
<1>1. 0 \in 0..MaxGen /\ NoEntry \in Entries /\ Unborn \in Rows /\ NoEntry.g = 0
      /\ Unborn.st = "unborn" /\ 0 \notin Gens
  BY ConstantsAssumption DEF NoEntry, Entries, Unborn, Rows, Gens
<1>2. TypeOK
  BY <1>1 DEF Init, TypeOK, Chores
<1>3. Control
  BY <1>1 DEF Init, Control, Wants, Entered, Chored, Walking, Clean
<1>4. Custodial
  BY <1>1, ConstantsAssumption
     DEF Init, Custodial, Rowed, EntryRow, DraftRow, Held, AppsGoAtOnce, Housed, NoOrphan,
         Sheltered, NothingOutlives, Live, Present
<1> QED BY <1>2, <1>3, <1>4 DEF IInv

LEMMA IInvNext == IInv /\ [Next]_vars => IInv'
<1>1. IInv /\ UNCHANGED vars => IInv'
  BY DEF vars, IInv, TypeOK, Control, Wants, Entered, Chored, Walking, Clean, Custodial, Rowed,
         EntryRow, DraftRow, Held, InHand, AppsGoAtOnce, Housed, Sheltered, NothingOutlives,
         Cascades, NoOrphan, Live
<1> SUFFICES ASSUME IInv, Next
             PROVE  IInv'
  BY <1>1
<1>2. CASE User
  BY <1>2, ConfigureKeeps, StartKeeps, CrashKeeps DEF User
<1>3. CASE Server
  BY <1>3, ServerKeeps
<1>4. ASSUME NEW n \in Nodes, CreateRefused(n)
      PROVE  IInv'
  BY <1>4, StillRows, FailsKeeps DEF CreateRefused, CanCreate
<1>5. CASE Run
  BY <1>4, <1>5, ReadFailsKeeps, EndRunKeeps, PlanKeeps, EnvironmentUnreadKeeps, CreateReturns,
     ReadKeeps, DeleteKeeps, CreateAtOnceKeeps, CreateAwaitedKeeps, CreateLostKeeps
     DEF Run
<1> QED BY <1>2, <1>3, <1>5 DEF Next

LEMMA IInvAlways == Spec => []IInv
BY IInvInit, IInvNext, PTL DEF Spec

\* Every reachable state of a run over any configuration is well-typed.
THEOREM TypeCorrect == Spec => []TypeOK
<1>1. IInv => TypeOK
  BY DEF IInv
<1> QED BY <1>1, IInvAlways, PTL

\* No live row of any node is out of hand, unless a fault lost it.
THEOREM NothingOrphaned == Spec => []NoOrphan
<1>1. IInv => NoOrphan
  BY DEF IInv, Custodial
<1> QED BY <1>1, IInvAlways, PTL

\* Nothing outlives the row that takes it along, in any tree, however many
\* teardowns run at once.
THEOREM NoneOutlives == Spec => []NothingOutlives
<1>1. IInv => NothingOutlives
  BY DEF IInv, Custodial, Sheltered
<1> QED BY <1>1, IInvAlways, PTL

\* After a clean run what is configured is in the state, the next plan would
\* replace nothing, and every node stands for a row below its parent's.
THEOREM CleanRunsAreWhole == Spec => []CleanRunIsWhole
<1>1. ASSUME IInv, verdict = "clean", NEW n \in want \ {Root}
      PROVE  /\ tf[n].up = tf[Parent[n]].g
             /\ Found(n, tf[n].g) => rows[n][tf[n].g].up = tf[Parent[n]].g
  <2>1. n \in Nodes /\ EntryRow(n) /\ tf[n].up = tf[Parent[n]].g
    BY <1>1 DEF IInv, TypeOK, Control, Clean, Custodial, Rowed
  <2> QED BY <2>1 DEF EntryRow, Found
<1>2. ASSUME IInv, verdict = "clean", NEW n \in want
      PROVE  ~Renewed(n, {})
  <2>1. want \subseteq Nodes /\ Closed(want)
    BY <1>2 DEF IInv, TypeOK, Control, Wants, Closed
  <2>2. Upwards(n) \subseteq want
    BY <1>2, <2>1 DEF Upwards
  <2>3. ASSUME NEW a \in want
        PROVE  tf[a] # NoEntry /\ ~tf[a].tainted /\ (a # Root => tf[a].up = tf[Parent[a]].g)
    BY <1>2, <2>1 DEF IInv, Control, Clean
  <2> QED BY <2>2, <2>3 DEF Renewed
<1>3. IInv /\ verdict = "clean" => \A n \in Nodes : n \in want <=> tf[n] # NoEntry
  BY DEF IInv, Control, Clean
<1>4. IInv => CleanRunIsWhole
  BY <1>1, <1>2, <1>3 DEF CleanRunIsWhole
<1> QED BY <1>4, IInvAlways, PTL

\* After a clean destroy only environments lost to a fault still hold anything.
THEOREM DestroysSweep == Spec => []DestroySweeps
<1>1. ASSUME IInv, verdict = "clean", want = {}, NEW n \in Nodes, NEW g \in Gens, Live(n, g)
      PROVE  <<Root, rows[n][g].env>> \in adrift
  <2> DEFINE e == rows[n][g].env
  <2>1. e \in Gens /\ Live(Root, e) /\ Root \in Nodes
    BY <1>1, ConstantsAssumption DEF IInv, Custodial, Housed
  <2>2. tf[Root] = NoEntry /\ draft[Root] = 0
    BY <1>1, <2>1 DEF IInv, TypeOK, Control, Clean
  <2>3. tf[Root].g \notin Gens /\ draft[Root] \notin Gens
    BY <2>2 DEF NoEntry, Gens
  <2>4. NoOrphan
    BY <1>1 DEF IInv, Custodial
  <2> HIDE DEF e
  <2>5. <<Root, e>> \in adrift
    BY <2>1, <2>3, <2>4 DEF NoOrphan
  <2> QED BY <2>5 DEF e
<1>2. IInv => DestroySweeps
  BY <1>1 DEF DestroySweeps
<1> QED BY <1>2, IInvAlways, PTL
\* When a node's DELETE is sent, what is left below its row was lost to a fault
\* or is a vDC, whose teardown nobody polls.
LEMMA NothingLeftBelow ==
  ASSUME IInv, NEW n \in Nodes, CanDelete(n), NEW c \in Children(n), NEW g \in Gens,
         rows[c][g].st \in Present
  PROVE  <<c, g>> \in adrift \/ (Kind[c] = "vdc" /\ rows[c][g].st = "leaving")
<1>1. c \in Nodes \ {Root} /\ Parent[c] = n /\ tf[c].g \notin Gens
  BY DEF Children, CanDelete, NoEntry, Gens
<1>2. draft[c] = 0
  BY <1>1, WaitsBelowDone DEF CanDelete
<1> QED BY <1>1, <1>2 DEF IInv, Custodial, Held, InHand, Gens

\* Only a delete that may be sent leaves a node's delete chore behind.
LEMMA DeletesWait ==
  ASSUME IInv, [Next]_vars, NEW n \in Nodes, todo[n] = "delete", todo'[n] # "delete",
         phase' = "walk"
  PROVE  CanDelete(n)
<1>0. phase = "walk" /\ todo \in [Nodes -> Chores]
  BY DEF IInv, TypeOK, Control, Chored
<1>1. ASSUME NEW m \in Nodes, m # n
      PROVE  \A x : todo' # [todo EXCEPT ![m] = x]
  BY <1>0, <1>1
<1>2. CASE UNCHANGED vars
  BY <1>2 DEF vars
<1>3. CASE User \/ Server
  BY <1>0, <1>3 DEF User, Start, Crash, Configure, Server, Settle, Reap, ServerOnly
<1>4. CASE Run
  <2>1. ASSUME NEW m \in Nodes, todo[m] # "delete", NEW x, todo' = [todo EXCEPT ![m] = x]
        PROVE  FALSE
    BY <1>1, <2>1
  <2>2. ~ReadFails /\ ~EndRun /\ \A changed : ~Plan(changed)
    BY <1>0 DEF ReadFails, EndRun, Plan
  <2>3. ~EnvironmentRead /\ ~EnvironmentUnread
    BY <2>1, ConstantsAssumption DEF EnvironmentRead, EnvironmentUnread, Returned
  <2>4. ASSUME NEW m \in Nodes
        PROVE  /\ ~Read(m) /\ ~CreateRefused(m) /\ ~BecomesActive(m) /\ ~NeverActive(m)
               /\ ~DeleteGone(m) /\ ~DeleteWaitFails(m)
               /\ \A g \in Gens : /\ ~CreateAtOnce(m, g) /\ ~CreateAwaited(m, g)
                                 /\ ~CreateRetried(m, g) /\ ~CreateUnanswered(m, g)
    BY <2>1 DEF Read, CreateRefused, BecomesActive, NeverActive, DeleteGone, Deleted,
                DeleteWaitFails, Returned, CreateAtOnce, CreateAwaited, CreateRetried,
                CreateUnanswered, CanCreate
  <2>5. PICK m \in Nodes : DeleteAtOnce(m) \/ DeletePolled(m) \/ DeleteFails(m)
    BY <1>4, <2>2, <2>3, <2>4 DEF Run
  <2>6. CanDelete(m) /\ \E x : todo' = [todo EXCEPT ![m] = x]
    BY <2>5 DEF DeleteAtOnce, DeletePolled, DeleteFails, Deleted
  <2> QED BY <1>1, <2>6
<1> QED BY <1>2, <1>3, <1>4 DEF Next

\* A DELETE never meets a row that still refers to its own, faults and vDCs apart.
THEOREM ParentsDeletedLast == Spec => ParentsGoLast
<1>1. ASSUME IInv, [Next]_vars, NEW n \in Nodes, todo[n] = "delete", todo'[n] # "delete",
             phase' = "walk", NEW c \in Children(n), NEW g \in Gens,
             rows[c][g].st \in Present, rows[c][g].up = tf[n].g
      PROVE  <<c, g>> \in adrift \/ (Kind[c] = "vdc" /\ rows[c][g].st = "leaving")
  BY <1>1, DeletesWait, NothingLeftBelow
<1>2. IInv /\ [Next]_vars =>
        [\A n \in Nodes : todo[n] = "delete" /\ todo'[n] # "delete" /\ phase' = "walk" =>
           \A c \in Children(n), g \in Gens :
             rows[c][g].st \in {"pending", "active", "leaving"} /\ rows[c][g].up = tf[n].g
               => <<c, g>> \in adrift \/ (Kind[c] = "vdc" /\ rows[c][g].st = "leaving")]_vars
  BY <1>1 DEF Present
<1> QED BY <1>2, IInvInit, IInvNext, PTL DEF Spec, ParentsGoLast

-----------------------------------------------------------------------------
(* No two nodes of a run wait for each other.                              *)

\* Going up from a create that was not sent, the first node that is not another
\* one has failed or was not deleted: below a node that is done it could be sent.
LEMMA CreatesWaitUpwards ==
  ASSUME IInv, EndRun, NEW n \in Nodes, todo[n] = "create"
  PROVE  \E a \in Upwards(n) : todo[a] \in {"failed", "delete"}
<1> SUFFICES ASSUME \A a \in Upwards(n) : todo[a] \notin {"failed", "delete"}
             PROVE  FALSE
  OBVIOUS
<1> DEFINE S == {a \in Upwards(n) : todo[a] = "create"}
<1>1. S \in SUBSET Nodes /\ n \in S
  BY DEF Upwards
<1>2. PICK x \in S : x = Root \/ Parent[x] \notin S
  BY <1>1, ReferencesAssumption
<1>3. x \in Nodes /\ todo[x] = "create" /\ phase = "walk" /\ ~CanCreate(x)
  BY <1>2 DEF EndRun, Upwards
<1>4. x # Root /\ todo[Parent[x]] # "done"
  BY <1>3 DEF CanCreate
<1>5. Parent[x] \in Upwards(n)
  BY <1>2, <1>4, ConstantsAssumption DEF Upwards, Closed
<1>6. Parent[x] \in Nodes /\ todo[Parent[x]] \in Chores
  BY <1>5 DEF Upwards, IInv, TypeOK
<1>7. todo[Parent[x]] \notin {"createWait", "deleteWait", "refresh", "failed", "delete"}
  BY <1>3, <1>5, <1>6 DEF EndRun, IInv, Control, Chored
<1>8. todo[Parent[x]] = "create"
  BY <1>4, <1>6, <1>7 DEF Chores
<1> QED BY <1>2, <1>4, <1>5, <1>8

\* Going down from a delete that was not sent, the last one of its kind has a child
\* in the state which is not done, as its own parent is not, and so has failed.
LEMMA DeletesWaitDownwards ==
  ASSUME IInv, EndRun, NEW n \in Nodes, todo[n] = "delete"
  PROVE  \E m \in Nodes : todo[m] = "failed" /\ n \in Upwards(m)
<1> SUFFICES ASSUME \A m \in Nodes : n \in Upwards(m) => todo[m] # "failed"
             PROVE  FALSE
  OBVIOUS
<1> DEFINE S == {m \in Nodes : n \in Upwards(m) /\ todo[m] = "delete"}
<1>1. S \in SUBSET Nodes /\ n \in S
  BY DEF Upwards
<1>2. PICK x \in S : \A c \in S \ {Root} : Parent[c] # x
  BY <1>1, ReferencesAssumption
<1>3. x \in Nodes /\ n \in Upwards(x) /\ todo[x] = "delete" /\ phase = "walk" /\ ~CanDelete(x)
  BY <1>2 DEF EndRun
<1>4. PICK c \in Children(x) : tf[c] # NoEntry
  BY <1>3 DEF CanDelete
<1>5. c \in Nodes \ {Root} /\ Parent[c] = x /\ todo[c] \in Chores
  BY <1>4 DEF Children, IInv, TypeOK
<1>6. n \in Upwards(c)
  BY <1>3, <1>5, UpwardsOfParent
<1>7. todo[c] \notin {"createWait", "deleteWait", "refresh", "create", "failed", "delete"}
  BY <1>2, <1>3, <1>4, <1>5, <1>6 DEF EndRun, IInv, Control, Chored
<1>8. todo[c] = "done"
  BY <1>5, <1>7 DEF Chores
<1>9. c \in want
  BY <1>3, <1>4, <1>5, <1>8 DEF IInv, Control, Walking
<1>10. todo[x] = "done"
  BY <1>3, <1>5, <1>8, <1>9 DEF IInv, Control, Walking
<1> QED BY <1>3, <1>10

LEMMA FreeOfWaits ==
  ASSUME IInv, EndRun, \A n \in Nodes : todo[n] # "failed"
  PROVE  verdict' = "clean"
<1>1. \A n \in Nodes : todo[n] # "delete"
  BY DeletesWaitDownwards
<1>2. \A n \in Nodes : todo[n] # "create"
  BY <1>1, CreatesWaitUpwards DEF Upwards
<1>3. \A n \in Nodes : todo[n] \in Chores \ {"createWait", "deleteWait", "refresh"}
  BY DEF EndRun, IInv, TypeOK, Control, Chored
<1> QED BY <1>1, <1>2, <1>3 DEF EndRun, Chores

\* In any tree of nodes, however the creates, replacements and deletes of a run are
\* mixed, whatever is not done at its end waits for a node that has failed.
THEOREM OnlyFailuresWait == Spec => OnlyFailuresHoldBack
<1>1. IInv /\ [Next]_vars =>
        [EndRun =>
           /\ \A n \in Nodes :
                /\ todo[n] = "delete" =>
                     \E m \in Nodes : todo[m] = "failed" /\ n \in Upwards(m)
                /\ todo[n] = "create" =>
                     \E a \in Upwards(n) : todo[a] \in {"failed", "delete"}
           /\ (\A n \in Nodes : todo[n] # "failed") => verdict' = "clean"]_vars
  BY CreatesWaitUpwards, DeletesWaitDownwards, FreeOfWaits
<1> QED BY <1>1, IInvInit, IInvNext, PTL DEF Spec, OnlyFailuresHoldBack

-----------------------------------------------------------------------------
(* EnvironmentStack implements Custody below its environment.              *)

LiveRows == {row \in Below : Live(row[1], row[2])}
DeadRows == {row \in Below : rows[row[1]][row[2]].st \in {"leaving", "gone"}}
HeldRows == {row \in Below : row[2] \in {tf[row[1]].g, draft[row[1]]}}
LostRows == adrift \cap Below

\* A row is adrift only once it was made.
AdriftBorn == \A n \in Nodes, g \in Gens : <<n, g>> \in adrift => rows[n][g].st # "unborn"

Holds(n, g) == g \in {tf[n].g, draft[n]}

\* The four sets, row by row.
LEMMA RowByRow ==
  ASSUME NEW n \in Nodes \ {Root}, NEW g \in Gens
  PROVE  /\ <<n, g>> \in Below
         /\ <<n, g>> \in LiveRows <=> Live(n, g)
         /\ <<n, g>> \in DeadRows <=> rows[n][g].st \in {"leaving", "gone"}
         /\ <<n, g>> \in HeldRows <=> Holds(n, g)
         /\ <<n, g>> \in LostRows <=> <<n, g>> \in adrift
BY DEF Below, LiveRows, DeadRows, HeldRows, LostRows, Holds

LEMMA AreRows ==
  /\ LiveRows \subseteq Below /\ DeadRows \subseteq Below
  /\ HeldRows \subseteq Below /\ LostRows \subseteq Below
  /\ \A row \in Below : \E n \in Nodes \ {Root}, g \in Gens : row = <<n, g>>
BY DEF LiveRows, DeadRows, HeldRows, LostRows, Below

LEMMA InitRefines == Init => Custodian!Init
BY DEF Init, Custodian!Init, Unborn, Live, NoEntry, Gens, Below

\* A step that neither makes nor takes over a row, and lets go only of rows
\* that are not live.
LEMMA LettingGo ==
  ASSUME IInv, rows' \in [Nodes -> [Gens -> Rows]],
         \A n \in Nodes \ {Root}, g \in Gens :
           /\ RowMovesOn(n, g) /\ (rows[n][g].st = "unborn" => rows'[n][g].st = "unborn")
           /\ Holds(n, g)' => Holds(n, g)
           /\ Holds(n, g) => Holds(n, g)' \/ ~Live(n, g)'
           /\ <<n, g>> \in adrift' => <<n, g>> \in adrift
           /\ <<n, g>> \in adrift => <<n, g>> \in adrift' \/ ~Live(n, g)'
  PROVE  Custodian!Next
<1>0. rows \in [Nodes -> [Gens -> Rows]]
  BY DEF IInv, TypeOK
<1>1. ASSUME NEW n \in Nodes \ {Root}, NEW g \in Gens
      PROVE  /\ <<n, g>> \in LiveRows' => <<n, g>> \in LiveRows
             /\ <<n, g>> \in DeadRows' <=>
                  <<n, g>> \in DeadRows \/ (<<n, g>> \in LiveRows /\ <<n, g>> \notin LiveRows')
             /\ <<n, g>> \in HeldRows' => <<n, g>> \in HeldRows
             /\ <<n, g>> \in HeldRows => <<n, g>> \in HeldRows' \/ <<n, g>> \notin LiveRows'
             /\ <<n, g>> \in LostRows' => <<n, g>> \in LostRows
             /\ <<n, g>> \in LostRows => <<n, g>> \in LostRows' \/ <<n, g>> \notin LiveRows'
  <2>1. rows[n][g] \in Rows /\ rows'[n][g] \in Rows /\ RowMovesOn(n, g)
    BY <1>0
  <2>2. /\ Live(n, g)' => Live(n, g)
        /\ rows'[n][g].st \in {"leaving", "gone"} <=>
             rows[n][g].st \in {"leaving", "gone"} \/ (Live(n, g) /\ ~Live(n, g)')
    BY <2>1 DEF RowMovesOn, Live, Rows
  <2>3. /\ <<n, g>> \in LiveRows' <=> Live(n, g)'
        /\ <<n, g>> \in DeadRows' <=> rows'[n][g].st \in {"leaving", "gone"}
        /\ <<n, g>> \in HeldRows' <=> Holds(n, g)'
        /\ <<n, g>> \in LostRows' <=> <<n, g>> \in adrift'
    BY DEF Below, LiveRows, DeadRows, HeldRows, LostRows, Holds
  <2> QED BY <2>2, <2>3, RowByRow
<1>2. /\ LiveRows' \subseteq Below /\ DeadRows' \subseteq Below
      /\ HeldRows' \subseteq Below /\ LostRows' \subseteq Below
  BY DEF LiveRows, DeadRows, HeldRows, LostRows, Below
<1>3. /\ LiveRows' \subseteq LiveRows
      /\ DeadRows' = DeadRows \cup (LiveRows \ LiveRows')
      /\ HeldRows' \subseteq HeldRows /\ (HeldRows \ HeldRows') \cap LiveRows' = {}
      /\ LostRows' \subseteq LostRows /\ (LostRows \ LostRows') \cap LiveRows' = {}
  BY <1>1, <1>2, AreRows
<1>4. Custodian!Die
  BY <1>3 DEF Custodian!Die, LiveRows, DeadRows, HeldRows, LostRows
<1> QED BY <1>4 DEF Custodian!Next

\* Where rows only age and entries and Creates in flight stay where they are.
LEMMA NothingMoves ==
  ASSUME IInv, RowsOnlyAge, adrift' = adrift,
         \A n \in Nodes \ {Root} : tf'[n] = tf[n] /\ draft'[n] = draft[n]
  PROVE  Custodian!Next
BY LettingGo DEF Holds, RowsOnlyAge, RowsMove

LEMMA ServerRefines == IInv /\ Server => Custodian!Next
<1> SUFFICES ASSUME IInv, NEW n \in Nodes, NEW g \in Gens, Settle(n, g) \/ Reap(n, g)
             PROVE  Custodian!Next
  BY DEF Server
<1>1. RowsOnlyAge /\ tf' = tf /\ draft' = draft
  BY SettleAges, TeardownAges DEF Settle, Reap, ServerOnly
<1>2. CASE Settle(n, g)
  <2>1. adrift' = {row \in adrift : rows'[row[1]][row[2]].st # "gone"}
    BY <1>2 DEF Settle
  <2>2. \A m \in Nodes \ {Root}, f \in Gens :
          /\ <<m, f>> \in adrift' => <<m, f>> \in adrift
          /\ <<m, f>> \in adrift => <<m, f>> \in adrift' \/ ~Live(m, f)'
    BY <2>1 DEF Live
  <2> QED BY <1>1, <2>2, LettingGo DEF Holds, RowsOnlyAge, RowsMove
<1>3. CASE Reap(n, g)
  BY <1>1, <1>3, NothingMoves DEF Reap
<1> QED BY <1>2, <1>3

\* A killed process loses the rows of its running Creates.
LEMMA CrashRefines == IInv /\ Crash => Custodian!Next
<1> SUFFICES ASSUME IInv, Crash
             PROVE  Custodian!Next
  OBVIOUS
<1>1. /\ draft' = [n \in Nodes |-> 0]
      /\ adrift' = adrift \cup {<<n, draft[n]>> : n \in {m \in Nodes : draft[m] # 0}}
      /\ rows' = rows /\ tf' = tf
  BY DEF Crash
<1>2. ASSUME NEW n \in Nodes \ {Root}, NEW g \in Gens
      PROVE  /\ <<n, g>> \in HeldRows' <=> g = tf[n].g
             /\ <<n, g>> \in HeldRows <=> g = tf[n].g \/ g = draft[n]
             /\ <<n, g>> \in LostRows' <=> <<n, g>> \in LostRows \/ g = draft[n]
             /\ g = draft[n] => g # tf[n].g
  <2>1. g # 0
    BY DEF Gens
  <2>2. g = draft[n] => g # tf[n].g
    BY <2>1, WaitFacts DEF IInv, TypeOK
  <2>3. <<n, g>> \in adrift' <=> <<n, g>> \in adrift \/ g = draft[n]
    BY <1>1, <2>1
  <2> QED BY <1>1, <2>1, <2>2, <2>3 DEF HeldRows, LostRows, Below
<1>3. LiveRows' = LiveRows /\ DeadRows' = DeadRows
  BY <1>1 DEF LiveRows, DeadRows, Live
<1>4. HeldRows' \subseteq Below /\ LostRows' \subseteq Below
  BY DEF HeldRows, LostRows
<1>5. HeldRows' \subseteq HeldRows /\ LostRows' = LostRows \cup (HeldRows \ HeldRows')
  BY <1>2, <1>4, AreRows
<1>6. Custodian!Lose
  BY <1>3, <1>5 DEF Custodian!Lose, LiveRows, DeadRows, HeldRows, LostRows
<1> QED BY <1>6 DEF Custodian!Next

\* A POST makes a row, or takes over one that is live and in nobody's hand.
LEMMA PostSeen ==
  ASSUME IInv, AdriftBorn, NEW n \in Nodes \ {Root}, NEW g \in Gens,
         CanCreate(n), Post(n, UpOf(n), g)
  PROVE  /\ <<n, g>> \in Below /\ <<n, g>> \notin HeldRows
         /\ DeadRows' = DeadRows
         /\ \/ <<n, g>> \in LiveRows \cap LostRows /\ LiveRows' = LiveRows
            \/ /\ <<n, g>> \notin LiveRows \cup DeadRows \cup LostRows
               /\ LiveRows' = LiveRows \cup {<<n, g>>}
<1>1. ~Holds(n, g) /\ <<n, g>> \in Below /\ <<n, g>> \notin HeldRows
  BY CreateFacts, RowByRow DEF Holds, Gens
<1>2. CASE UNCHANGED rows /\ Live(n, g)
  <2>1. <<n, g>> \in adrift
    BY <1>1, <1>2 DEF IInv, Custodial, NoOrphan, Holds
  <2>2. LiveRows' = LiveRows /\ DeadRows' = DeadRows
    BY <1>2 DEF LiveRows, DeadRows, Live
  <2> QED BY <1>1, <1>2, <2>1, <2>2, RowByRow
<1>3. CASE ~(UNCHANGED rows /\ Live(n, g))
  <2>1. rows[n][g].st = "unborn" /\ rows'[n][g].st \in {"pending", "active"}
    BY <1>3 DEF Post, Same, IInv, TypeOK
  <2>2. \A c \in Nodes, h \in Gens : <<c, h>> # <<n, g>> => rows'[c][h] = rows[c][h]
    BY PostMoves
  <2>3. <<n, g>> \notin LiveRows \cup DeadRows \cup LostRows
    BY <2>1, RowByRow DEF AdriftBorn, Live
  <2>4. LiveRows' = LiveRows \cup {<<n, g>>} /\ DeadRows' = DeadRows
    BY <1>1, <2>1, <2>2 DEF LiveRows, DeadRows, Live, Below
  <2> QED BY <1>1, <2>3, <2>4
<1> QED BY <1>2, <1>3

LEMMA CreateRefines ==
  ASSUME IInv, AdriftBorn, NEW n \in Nodes, NEW g \in Gens,
         CreateAtOnce(n, g) \/ CreateAwaited(n, g)
  PROVE  Custodian!Next
<1>0. /\ CanCreate(n) /\ Post(n, UpOf(n), g) /\ adrift' = adrift \ {<<n, g>>}
      /\ \A c \in Nodes : c # n => tf'[c] = tf[c] /\ draft'[c] = draft[c]
      /\ \/ tf'[n].g = g /\ draft'[n] = draft[n]
         \/ tf'[n] = tf[n] /\ draft'[n] = g
  BY DEF CreateAtOnce, CreateAwaited, Entry, IInv, TypeOK
<1>1. CASE n = Root
  <2>1. \A c \in Nodes \ {Root}, h \in Gens : rows'[c][h] = rows[c][h]
    BY <1>0, <1>1, PostMoves
  <2>2. \A c \in Nodes \ {Root}, h \in Gens : RowMovesOn(c, h)
    BY <1>0, PostMoves DEF RowsMove
  <2>3. rows' \in [Nodes -> [Gens -> Rows]]
    BY <1>0, PostMoves DEF RowsMove
  <2> QED BY <1>0, <1>1, <2>1, <2>2, <2>3, LettingGo DEF Holds
<1>2. CASE n # Root
  <2>1. ASSUME NEW c \in Nodes \ {Root}, NEW h \in Gens
        PROVE  /\ <<c, h>> \in HeldRows' <=> <<c, h>> \in HeldRows \/ <<c, h>> = <<n, g>>
               /\ <<c, h>> \in LostRows' <=> <<c, h>> \in LostRows /\ <<c, h>> # <<n, g>>
    <3>1. tf[n].g \notin Gens /\ draft[n] \notin Gens
      BY <1>0, CreateFacts DEF Gens
    <3> QED BY <1>0, <3>1 DEF HeldRows, LostRows, Below
  <2>2. HeldRows' \subseteq Below /\ LostRows' \subseteq Below
    BY DEF HeldRows, LostRows
  <2>3. /\ <<n, g>> \in Below /\ <<n, g>> \notin HeldRows /\ DeadRows' = DeadRows
        /\ \/ <<n, g>> \in LiveRows \cap LostRows /\ LiveRows' = LiveRows
           \/ /\ <<n, g>> \notin LiveRows \cup DeadRows \cup LostRows
              /\ LiveRows' = LiveRows \cup {<<n, g>>}
    BY <1>0, <1>2, PostSeen
  <2>4. HeldRows' = HeldRows \cup {<<n, g>>} /\ LostRows' = LostRows \ {<<n, g>>}
    BY <2>1, <2>2, <2>3, AreRows
  <2>5. CASE <<n, g>> \in LiveRows \cap LostRows /\ LiveRows' = LiveRows
    <3>1. Custodian!Adopt(<<n, g>>)
      BY <2>3, <2>4, <2>5 DEF Custodian!Adopt, LiveRows, DeadRows, HeldRows, LostRows
    <3> QED BY <2>3, <3>1 DEF Custodian!Next
  <2>6. CASE /\ <<n, g>> \notin LiveRows \cup DeadRows \cup LostRows
             /\ LiveRows' = LiveRows \cup {<<n, g>>}
    <3>1. LostRows' = LostRows
      BY <2>4, <2>6
    <3>2. Custodian!Create(<<n, g>>)
      BY <2>3, <2>4, <2>6, <3>1
         DEF Custodian!Create, LiveRows, DeadRows, HeldRows, LostRows
    <3> QED BY <2>3, <3>2 DEF Custodian!Next
  <2> QED BY <2>3, <2>5, <2>6
<1> QED BY <1>1, <1>2

LEMMA CreateLostRefines ==
  ASSUME IInv, AdriftBorn, NEW n \in Nodes, NEW g \in Gens,
         CreateRetried(n, g) \/ CreateUnanswered(n, g)
  PROVE  Custodian!Next
<1>0. /\ CanCreate(n) /\ Post(n, UpOf(n), g) /\ adrift' = adrift \cup {<<n, g>>}
      /\ tf' = tf /\ draft' = draft
  BY DEF CreateRetried, CreateUnanswered
<1>1. CASE n = Root
  <2>1. \A c \in Nodes \ {Root}, h \in Gens : rows'[c][h] = rows[c][h] /\ RowMovesOn(c, h)
    BY <1>0, <1>1, PostMoves DEF RowsMove
  <2>2. rows' \in [Nodes -> [Gens -> Rows]]
    BY <1>0, PostMoves DEF RowsMove
  <2> QED BY <1>0, <1>1, <2>1, <2>2, LettingGo DEF Holds
<1>2. CASE n # Root
  <2>1. HeldRows' = HeldRows
    BY <1>0 DEF HeldRows
  <2>2. /\ <<n, g>> \in Below /\ <<n, g>> \notin HeldRows /\ DeadRows' = DeadRows
        /\ \/ <<n, g>> \in LiveRows \cap LostRows /\ LiveRows' = LiveRows
           \/ /\ <<n, g>> \notin LiveRows \cup DeadRows \cup LostRows
              /\ LiveRows' = LiveRows \cup {<<n, g>>}
    BY <1>0, <1>2, PostSeen
  <2>3. LostRows' = LostRows \cup {<<n, g>>}
    BY <1>0, <2>2 DEF LostRows
  <2>4. CASE <<n, g>> \in LiveRows \cap LostRows /\ LiveRows' = LiveRows
    <3>1. LostRows' = LostRows
      BY <2>3, <2>4
    <3>2. Custodian!Die
      BY <2>1, <2>2, <2>4, <3>1 DEF Custodian!Die, LiveRows, DeadRows, HeldRows, LostRows
    <3> QED BY <3>2 DEF Custodian!Next
  <2>5. CASE /\ <<n, g>> \notin LiveRows \cup DeadRows \cup LostRows
             /\ LiveRows' = LiveRows \cup {<<n, g>>}
    <3>1. Custodian!Create(<<n, g>>)
      BY <2>1, <2>2, <2>3, <2>5
         DEF Custodian!Create, LiveRows, DeadRows, HeldRows, LostRows
    <3> QED BY <2>2, <3>1 DEF Custodian!Next
  <2> QED BY <2>2, <2>4, <2>5
<1> QED BY <1>1, <1>2

\* The row of a Create in flight goes over into the state, or an environment's
\* is lost.
LEMMA ReturnRefines ==
  ASSUME IInv, \/ EnvironmentRead \/ EnvironmentUnread
               \/ \E n \in Nodes : BecomesActive(n) \/ NeverActive(n)
  PROVE  Custodian!Next
<1>1. CASE EnvironmentRead \/ EnvironmentUnread
  <2>1. /\ rows' = rows
        /\ \A c \in Nodes \ {Root} : tf'[c] = tf[c] /\ draft'[c] = draft[c]
        /\ \A c \in Nodes \ {Root}, h \in Gens : <<c, h>> \in adrift' <=> <<c, h>> \in adrift
    BY <1>1 DEF EnvironmentRead, EnvironmentUnread, Returned, IInv, TypeOK
  <2> QED BY <2>1, StillRows, LettingGo DEF Holds, RowsOnlyAge, RowsMove
<1>2. ASSUME NEW n \in Nodes, BecomesActive(n) \/ NeverActive(n)
      PROVE  Custodian!Next
  <2>1. PICK e : /\ todo[n] = "createWait" /\ rows' = rows /\ adrift' = adrift
                 /\ tf' = [tf EXCEPT ![n] = e] /\ e.g = draft[n]
                 /\ draft' = [draft EXCEPT ![n] = 0]
    BY <1>2 DEF BecomesActive, NeverActive, Returned, Entry
  <2>2. /\ tf[n].g \notin Gens /\ 0 \notin Gens
        /\ tf'[n].g = draft[n] /\ draft'[n] = 0
        /\ \A c \in Nodes : c # n => tf'[c] = tf[c] /\ draft'[c] = draft[c]
    BY <2>1, WaitFacts DEF IInv, TypeOK, Gens
  <2>3. \A c \in Nodes, h \in Gens : Holds(c, h)' <=> Holds(c, h)
    BY <2>2 DEF Holds
  <2> QED BY <2>1, <2>3, StillRows, LettingGo DEF RowsOnlyAge, RowsMove
<1> QED BY <1>1, <1>2

\* A Delete or a Read drops the entry of a row that is not live.
LEMMA DropRefines ==
  ASSUME IInv, NEW n \in Nodes, RowsOnlyAge, tf' = [tf EXCEPT ![n] = NoEntry],
         \A g \in Gens : g = tf[n].g => ~Live(n, g)',
         draft' = draft, adrift' = adrift
  PROVE  Custodian!Next
<1>1. /\ tf'[n].g \notin Gens /\ \A c \in Nodes : c # n => tf'[c] = tf[c]
  BY DEF IInv, TypeOK, NoEntry, Gens
<1>2. \A c \in Nodes, h \in Gens :
        /\ Holds(c, h)' => Holds(c, h)
        /\ Holds(c, h) => Holds(c, h)' \/ ~Live(c, h)'
  BY <1>1 DEF Holds
<1> QED BY <1>2, LettingGo DEF RowsOnlyAge, RowsMove

LEMMA DeleteRefines ==
  ASSUME IInv, NEW n \in Nodes,
         \/ DeleteAtOnce(n) \/ DeletePolled(n) \/ DeleteFails(n)
         \/ DeleteGone(n) \/ DeleteWaitFails(n)
  PROVE  Custodian!Next
<1>1. CASE DeleteAtOnce(n)
  BY <1>1, DeleteRowAges, DropRefines DEF DeleteAtOnce, Deleted
<1>2. CASE DeleteGone(n)
  <2>1. RowsOnlyAge /\ \A g \in Gens : g = tf[n].g => ~Live(n, g)'
    BY <1>2, StillRows DEF DeleteGone, Found, Live
  <2> QED BY <1>2, <2>1, DropRefines DEF DeleteGone, Deleted
<1>3. CASE DeletePolled(n) \/ DeleteFails(n) \/ DeleteWaitFails(n)
  <2>1. RowsOnlyAge
    BY <1>3, DeleteRowAges, StillRows DEF DeletePolled, DeleteFails, DeleteWaitFails
  <2> QED BY <1>3, <2>1, NothingMoves DEF DeletePolled, DeleteFails, DeleteWaitFails
<1> QED BY <1>1, <1>2, <1>3

LEMMA ReadRefines ==
  ASSUME IInv, NEW n \in Nodes, Read(n)
  PROVE  Custodian!Next
<1>1. CASE Found(n, tf[n].g)
  BY <1>1, StillRows, NothingMoves DEF Read
<1>2. CASE ~Found(n, tf[n].g)
  <2>1. RowsOnlyAge /\ \A g \in Gens : g = tf[n].g => ~Live(n, g)'
    BY <1>2, StillRows DEF Read, Found, Live
  <2> QED BY <1>2, <2>1, DropRefines DEF Read
<1> QED BY <1>1, <1>2

LEMMA NextRefines == IInv /\ AdriftBorn /\ [Next]_vars => [Custodian!Next]_(Custodian!vars)
<1> SUFFICES ASSUME IInv, AdriftBorn, [Next]_vars
             PROVE  Custodian!Next
  OBVIOUS
<1>1. CASE \/ UNCHANGED vars \/ Start \/ ReadFails \/ EndRun
           \/ \E w \in Configurations : Configure(w)
           \/ \E changed \in {{}} \cup {{n} : n \in Nodes} : Plan(changed)
           \/ \E n \in Nodes : CreateRefused(n)
  BY <1>1, StillRows, NothingMoves
     DEF vars, Start, ReadFails, EndRun, Configure, Plan, CreateRefused
<1>2. CASE Server \/ Crash
  BY <1>2, ServerRefines, CrashRefines
<1>3. CASE Run
  BY <1>1, <1>3, ReturnRefines, ReadRefines, DeleteRefines, CreateRefines, CreateLostRefines
     DEF Run
<1> QED BY <1>1, <1>2, <1>3 DEF Next, User

\* A step that sets a row adrift has made it, or a Create had; none is unmade.
LEMMA AdriftBornNext == IInv /\ AdriftBorn /\ [Next]_vars => AdriftBorn'
<1> SUFFICES ASSUME IInv, AdriftBorn, [Next]_vars
             PROVE  AdriftBorn'
  OBVIOUS
<1>1. ASSUME RowsMove,
             \A n \in Nodes, g \in Gens :
               <<n, g>> \in adrift' => \/ <<n, g>> \in adrift
                                       \/ g = draft[n]
                                       \/ rows'[n][g].st # "unborn"
      PROVE  AdriftBorn'
  <2> SUFFICES ASSUME NEW n \in Nodes, NEW g \in Gens, <<n, g>> \in adrift'
               PROVE  rows'[n][g].st # "unborn"
    BY DEF AdriftBorn
  <2>1. RowMovesOn(n, g) /\ DraftRow(n)
    BY <1>1 DEF RowsMove, IInv, Custodial, Rowed
  <2> QED BY <1>1, <2>1 DEF AdriftBorn, RowMovesOn, DraftRow
<1>2. CASE Server
  <2>1. PICK n \in Nodes, g \in Gens : Settle(n, g) \/ Reap(n, g)
    BY <1>2 DEF Server
  <2>2. RowsMove /\ adrift' \subseteq adrift
    BY <2>1, SettleAges, TeardownAges DEF Settle, Reap, RowsOnlyAge
  <2> QED BY <1>1, <2>2
<1>3. ASSUME NEW n \in Nodes, NEW g \in Gens,
             \/ CreateAtOnce(n, g) \/ CreateAwaited(n, g)
             \/ CreateRetried(n, g) \/ CreateUnanswered(n, g)
      PROVE  AdriftBorn'
  <2>1. RowsMove /\ rows'[n][g].st # "unborn" /\ adrift' \subseteq adrift \cup {<<n, g>>}
    BY <1>3, PostMoves DEF CreateAtOnce, CreateAwaited, CreateRetried, CreateUnanswered
  <2> QED BY <1>1, <2>1
<1>4. CASE \E n \in Nodes : \/ DeleteAtOnce(n) \/ DeletePolled(n) \/ DeleteFails(n)
                            \/ DeleteGone(n) \/ DeleteWaitFails(n)
  <2>1. RowsMove /\ adrift' = adrift
    BY <1>4, DeleteRowAges, StillRows
       DEF DeleteAtOnce, DeletePolled, DeleteFails, DeleteGone, DeleteWaitFails, RowsOnlyAge
  <2> QED BY <1>1, <2>1
<1>5. CASE Crash \/ EnvironmentUnread
  <2>1. /\ RowsMove
        /\ \A n \in Nodes, g \in Gens :
             <<n, g>> \in adrift' => <<n, g>> \in adrift \/ g = draft[n]
    BY <1>5, StillRows DEF Crash, EnvironmentUnread, Returned, RowsOnlyAge
  <2> QED BY <1>1, <2>1
<1>6. CASE \/ UNCHANGED vars \/ Start \/ ReadFails \/ EndRun \/ EnvironmentRead
           \/ \E w \in Configurations : Configure(w)
           \/ \E changed \in {{}} \cup {{n} : n \in Nodes} : Plan(changed)
           \/ \E n \in Nodes : \/ CreateRefused(n) \/ Read(n)
                               \/ BecomesActive(n) \/ NeverActive(n)
  <2>1. RowsMove /\ adrift' = adrift
    BY <1>6, StillRows
       DEF vars, Start, ReadFails, EndRun, Configure, Plan, CreateRefused, Read,
           EnvironmentRead, BecomesActive, NeverActive, Returned, RowsOnlyAge
  <2> QED BY <1>1, <2>1
<1> QED BY <1>2, <1>3, <1>4, <1>5, <1>6 DEF Next, User, Run

\* The rows below the environment, any number of them in any tree, are kept in
\* custody: EnvironmentStack implements Custody.
THEOREM StackKeepsCustody == Spec => KeepsCustody
<1>1. Init => AdriftBorn
  BY DEF Init, AdriftBorn
<1> QED
  BY <1>1, AdriftBornNext, IInvAlways, InitRefines, NextRefines, PTL
  DEF Spec, KeepsCustody, Custodian!Spec
=============================================================================
