-------------------------- MODULE NaturalKeys_proofs --------------------------
(***************************************************************************)
(* Proofs about NaturalKeys, for any resources, keys, values, ids and      *)
(* configurations: its type invariant, that no row is orphaned, that a     *)
(* clean run leaves what was configured, and that a run which nothing      *)
(* stands in the way of does not get in its own.                           *)
(***************************************************************************)
EXTENDS NaturalKeys, TLAPS

\* What a chore says of the entry and the configuration it was planned from.
Chore ==
  \A a \in Addresses :
    /\ todo[a] \in {"create", "update", "replace"} => cfg[a] # Absent
    /\ todo[a] = "create" => tf[a] = NoEntry
    /\ todo[a] \in {"update", "delete", "replace"} => tf[a] # NoEntry
    /\ todo[a] = "update" => tf[a].spec.key = cfg[a].key /\ ~tf[a].tainted
    /\ todo[a] = "delete" => cfg[a] = Absent

Phases ==
  /\ phase = "idle" => \A a \in Addresses : todo[a] = "done"
  /\ phase = "walk" => ~clean

\* The state has the key of the row right: no request changes the key of a row.
Keyed ==
  \A a \in Addresses : Live(tf[a].id) => rows[tf[a].id].key = tf[a].spec.key

\* A network is never updated, and the state has its CIDR right.
Ranged ==
  UniqueRest =>
    \A a \in Addresses :
      /\ todo[a] # "update"
      /\ Live(tf[a].id) => rows[tf[a].id].rest = tf[a].spec.rest

\* Two resources answered with one row.
Shared(a) == \E b \in Addresses \ {a} : tf[b].id = tf[a].id

\* The rest that is not reported is what the state has of it, unless the row has
\* strayed or another resource may have changed it.
Told ==
  Unreported =>
    \A a \in Addresses :
      Live(tf[a].id) /\ tf[a].id \notin strayed /\ ~Shared(a) =>
        rows[tf[a].id].rest = tf[a].spec.rest

\* During a run a key belongs to one resource alone, unless it is disputed.
Disputes ==
  phase = "walk" =>
    \A a, b \in Addresses : a # b =>
      \A k \in Keys : Claims(tf[a], cfg[a], k) /\ Claims(tf[b], cfg[b], k) => k \in disputed

\* A resource that is hit has no row until it makes another.
Hits == \A a \in hit : ~Live(tf[a].id)

\* CleanRunServes, of what the run is done with.
Settled ==
  phase = "walk" \/ clean =>
    \A a \in Addresses :
      todo[a] = "done" /\ cfg[a] # Absent /\ cfg[a].key \notin disputed =>
        a \notin hit /\ (Live(tf[a].id) => Agrees(a))

\* The state of what the run is done with is the configured one.
Stated ==
  phase = "walk" \/ clean =>
    \A a \in Addresses : todo[a] = "done" =>
      /\ cfg[a] = Absent <=> tf[a] = NoEntry
      /\ cfg[a] # Absent => tf[a].spec = cfg[a] /\ ~tf[a].tainted

IInv ==
  /\ TypeOK /\ NoOrphan /\ Chore /\ Phases /\ Keyed /\ Ranged /\ Told
  /\ Disputes /\ Hits /\ Settled /\ Stated

USE ConstantsAssumption

LEMMA EntryFacts ==
  ASSUME TypeOK, NEW a \in Addresses
  PROVE  /\ tf[a] # NoEntry => /\ tf[a].id \in Ids
                               /\ tf[a].spec \in Specs
                               /\ tf[a].tainted \in BOOLEAN
                               /\ tf[a] = [id |-> tf[a].id, spec |-> tf[a].spec,
                                           tainted |-> tf[a].tainted]
         /\ tf[a] = NoEntry => tf[a].id = NoId /\ tf[a].id \notin Ids
         /\ cfg[a] # Absent => cfg[a] \in Specs
BY DEF TypeOK, Entries, NoEntry, OptSpecs

\* Two resources of which one is configured dispute its key, and two that have
\* entries the key of these.
LEMMA ClaimFacts ==
  ASSUME TypeOK, Disputes, phase = "walk",
         NEW a \in Addresses, NEW b \in Addresses, a # b
  PROVE  /\ cfg[a] # Absent /\ cfg[b] # Absent /\ cfg[b].key = cfg[a].key =>
              cfg[a].key \in disputed
         /\ cfg[a] # Absent /\ tf[b] # NoEntry /\ tf[b].spec.key = cfg[a].key =>
              cfg[a].key \in disputed
         /\ tf[a] # NoEntry /\ tf[b] # NoEntry /\ tf[b].spec.key = tf[a].spec.key =>
              tf[a].spec.key \in disputed
<1>1. /\ cfg[a] # Absent => cfg[a].key \in Keys /\ Claims(tf[a], cfg[a], cfg[a].key)
      /\ cfg[b] # Absent => Claims(tf[b], cfg[b], cfg[b].key)
  BY EntryFacts DEF Claims, Specs
<1>2. /\ tf[a] # NoEntry => tf[a].spec.key \in Keys /\ Claims(tf[a], cfg[a], tf[a].spec.key)
      /\ tf[b] # NoEntry => Claims(tf[b], cfg[b], tf[b].spec.key)
  BY EntryFacts, ConstantsAssumption DEF Claims, Specs
<1> QED
  BY <1>1, <1>2 DEF Disputes

\* A handler leaves its resource no claim that it had not before.
LEMMA ClaimsShrink ==
  ASSUME Disputes, UNCHANGED <<cfg, phase, disputed>>,
         NEW a \in Addresses,
         \A b \in Addresses \ {a} : tf'[b] = tf[b],
         tf'[a].spec = Absent \/ (cfg[a] # Absent /\ tf'[a].spec.key = cfg[a].key)
  PROVE  Disputes'
<1>1. \A k \in Keys : Claims(tf'[a], cfg[a], k) => Claims(tf[a], cfg[a], k)
  BY DEF Claims
<1> QED
  BY <1>1 DEF Disputes

LEMMA Start == Init => IInv
<1> SUFFICES ASSUME Init PROVE IInv
  OBVIOUS
<1>1. TypeOK
  BY DEF Init, TypeOK, OptSpecs, Entries, Chores
<1>2. \A i \in Ids : ~Live(i)
  BY DEF Init, Live
<1>3. NoOrphan /\ Keyed /\ Hits
  BY <1>2 DEF NoOrphan, Keyed, Hits, Live, Init
<1>4. Chore /\ Phases /\ Disputes /\ Settled /\ Stated
  BY DEF Init, Chore, Phases, Disputes, Settled, Stated
<1>5. Ranged
  BY <1>2 DEF Init, Ranged, Live
<1>6. Told
  BY <1>2 DEF Told, Live
<1> QED
  BY <1>1, <1>3, <1>4, <1>5, <1>6 DEF IInv

-----------------------------------------------------------------------------
(* The requests.                                                           *)

\* A new row takes an id that is nobody's.
LEMMA NewRow ==
  ASSUME TypeOK, NEW w \in Specs, NEW i \in Ids, PostNew(w, i)
  PROVE  /\ Fresh(i)
         /\ rows' \in [Ids -> OptSpecs]
         /\ rows'[i] = w
         /\ \A j \in Ids \ {i} : rows'[j] = rows[j]
<1>1. Fresh(i)
  <2>1. \E j \in Ids : Fresh(j)
    BY DEF PostNew
  <2>2. Fresh(CHOOSE j \in Ids : Fresh(j))
    BY <2>1
  <2> QED
    BY <2>2 DEF PostNew, NewId
<1> QED
  BY <1>1 DEF PostNew, TypeOK, OptSpecs

\* The row a POST is answered with has the key, and the rest where the API
\* compares it; the other rows are as they were, and so is every row that some
\* state refers to.
LEMMA Answered ==
  ASSUME TypeOK, NEW w \in Specs, NEW i \in Ids, Post(w, i)
  PROVE  /\ rows' \in [Ids -> OptSpecs]
         /\ rows'[i] \in Specs
         /\ rows'[i].key = w.key
         /\ Compares => rows'[i].rest = w.rest
         /\ \A j \in Ids \ {i} : rows'[j] = rows[j]
         /\ \A a \in Addresses : tf[a].id = i => rows'[i] = rows[i]
<1>1. CASE PostNew(w, i)
  BY <1>1, NewRow DEF Fresh
<1>2. CASE Answers(w, i) /\ UNCHANGED rows
  BY <1>2 DEF Answers, Live, TypeOK, OptSpecs
<1> QED
  BY <1>1, <1>2 DEF Post

-----------------------------------------------------------------------------
(* What the steps of the handlers have in common.                          *)

\* Nothing is done but that a resource has failed, rows may be gone, and a row
\* that no state refers to may be lost.
Failing(a) ==
  /\ Walking(a, todo[a]) /\ todo[a] # "done"
  /\ Ends(a, "failed")
  /\ rows' \in [Ids -> OptSpecs]
  /\ \A i \in Ids : rows'[i] \in {rows[i], Absent} \/ Fresh(i)
  /\ \A i \in Ids : rows'[i] # Absent => rows[i] # Absent \/ i \in adrift'
  /\ adrift \subseteq adrift' /\ adrift' \subseteq Ids
  /\ strayed' \subseteq strayed
  /\ \A i \in strayed \ strayed' : rows'[i] = Absent
  /\ UNCHANGED <<tf, hit>>
  /\ Step

LEMMA FailingKeeps ==
  ASSUME IInv, NEW a \in Addresses, Failing(a)
  PROVE  IInv'
<1> USE DEF IInv, Failing, Step
<1>1. \A b \in Addresses : Live(tf[b].id)' =>
        /\ Live(tf[b].id) /\ rows'[tf[b].id] = rows[tf[b].id]
        /\ tf[b].id \in strayed <=> tf[b].id \in strayed'
  BY DEF Live, Fresh
<1>2. \A b \in Addresses : todo'[b] = IF b = a THEN "failed" ELSE todo[b]
  BY DEF Ends, TypeOK
<1>3. TypeOK'
  BY DEF TypeOK, Ends, Chores
<1>4. NoOrphan'
  BY DEF NoOrphan, Live
<1>5. Chore' /\ Phases'
  BY <1>2 DEF Chore, Phases, Walking
<1>6. Keyed' /\ Hits'
  BY <1>1 DEF Keyed, Hits, TypeOK
<1>7. Disputes'
  BY DEF Disputes
<1>8. Settled'
  <2> SUFFICES ASSUME NEW b \in Addresses, todo'[b] = "done", cfg[b] # Absent,
                      cfg[b].key \notin disputed
               PROVE  b \notin hit' /\ (Live(tf[b].id)' => Agrees(b)')
    BY DEF Settled
  <2>1. b \notin hit /\ (Live(tf[b].id) => Agrees(b))
    BY <1>2 DEF Settled, Walking
  <2> QED
    BY <2>1, <1>1 DEF Agrees, Unreported
<1>9. Stated'
  BY <1>2 DEF Stated, Walking
<1>10. Ranged'
  BY <1>1, <1>2 DEF Ranged, UniqueRest
<1>11. Told'
  BY <1>1 DEF Told, Unreported, Shared
<1> QED
  BY <1>3, <1>4, <1>5, <1>6, <1>7, <1>8, <1>9, <1>10, <1>11

LEMMA CreatingKeeps ==
  ASSUME IInv, NEW a \in Addresses, NEW i \in Ids,
         NEW t \in BOOLEAN, NEW result \in {"done", "failed"},
         Walking(a, "create"),
         Post(cfg[a], i),
         tf' = [tf EXCEPT ![a] = [id |-> i, spec |-> Recorded(a, i), tainted |-> t]],
         result = "done" => Recorded(a, i) = cfg[a] /\ ~t,
         Ends(a, result),
         adrift' = adrift \ {i},
         hit' = hit \ {a},
         strayed' = Strays(i, Recorded(a, i)),
         Step
  PROVE  IInv'
<1> USE DEF IInv, Step
<1>0. cfg[a] \in Specs /\ tf[a] = NoEntry
  BY EntryFacts DEF Chore, Walking
<1>1. /\ rows' \in [Ids -> OptSpecs]
      /\ rows'[i] \in Specs
      /\ rows'[i].key = cfg[a].key
      /\ Compares => rows'[i].rest = cfg[a].rest
      /\ \A j \in Ids \ {i} : rows'[j] = rows[j]
      /\ \A b \in Addresses : tf[b].id = i => rows'[i] = rows[i]
  BY <1>0, Answered
<1>2. Recorded(a, i) \in Specs /\ Recorded(a, i).key = cfg[a].key
  BY <1>0, <1>1 DEF Recorded
<1>3. /\ tf'[a].id = i /\ tf'[a].spec = Recorded(a, i)
      /\ \A b \in Addresses \ {a} : tf'[b] = tf[b]
  BY DEF TypeOK
<1>4. \A b \in Addresses \ {a} : tf[b].id \in Ids => rows'[tf[b].id] = rows[tf[b].id]
  BY <1>1
<1>5. \A b \in Addresses : todo'[b] = IF b = a THEN result ELSE todo[b]
  BY DEF Ends, TypeOK
<1>15. /\ strayed' \subseteq Ids
       /\ \A j \in Ids \ {i} : j \in strayed' <=> j \in strayed
       /\ Unreported /\ i \notin strayed' => rows'[i] = Recorded(a, i)
  BY DEF Strays, TypeOK
<1>6. TypeOK'
  <2>1. tf' \in [Addresses -> Entries]
    BY <1>2 DEF TypeOK, Entries
  <2>2. todo' \in [Addresses -> Chores]
    BY DEF TypeOK, Ends, Chores
  <2> QED
    BY <2>1, <2>2, <1>1, <1>15 DEF TypeOK
<1>7. NoOrphan'
  <2> SUFFICES ASSUME NEW j \in Ids, Live(j)'
               PROVE  (j \in adrift \/ \E b \in Addresses : tf[b].id = j)'
    BY DEF NoOrphan
  <2>1. CASE j = i
    BY <2>1, <1>3
  <2>2. CASE j # i
    <3>1. Live(j)
      BY <2>2, <1>1 DEF Live
    <3>2. CASE j \in adrift
      BY <3>2, <2>2
    <3>3. ASSUME NEW b \in Addresses, tf[b].id = j
          PROVE  (\E d \in Addresses : tf[d].id = j)'
      <4>1. b # a
        BY <3>3, <1>0 DEF NoEntry
      <4> QED
        BY <4>1, <3>3, <1>3
    <3> QED
      BY <3>1, <3>2, <3>3 DEF NoOrphan
  <2> QED
    BY <2>1, <2>2
<1>8. Chore' /\ Phases'
  BY <1>5, <1>3 DEF Chore, Phases, Walking
<1>9. Keyed'
  BY <1>1, <1>2, <1>3, <1>4 DEF Keyed, Live
<1>10. Hits'
  BY <1>3, <1>4 DEF Hits, Live, TypeOK
<1>11. Disputes'
  BY <1>0, <1>2, <1>3, ClaimsShrink
<1>12. Settled'
  <2> SUFFICES ASSUME NEW b \in Addresses, todo'[b] = "done", cfg[b] # Absent,
                      cfg[b].key \notin disputed
               PROVE  b \notin hit' /\ (Live(tf[b].id)' => Agrees(b)')
    BY DEF Settled
  <2>1. CASE b = a
    <3>1. b \notin hit'
      BY <2>1
    <3>2. Recorded(a, i) = cfg[a]
      BY <2>1, <1>5
    <3>3. i \in strayed' \/ rows'[i].rest = cfg[a].rest
      BY <3>2, <1>15 DEF Recorded
    <3> QED
      BY <2>1, <3>1, <3>3, <1>1, <1>3 DEF Agrees
  <2>2. CASE b # a
    <3>1. b \notin hit /\ (Live(tf[b].id) => Agrees(b))
      BY <2>2, <1>5 DEF Settled, Walking
    <3>2. Live(tf[b].id) => tf[b].id # i
      <4> SUFFICES ASSUME Live(tf[b].id), tf[b].id = i PROVE FALSE
        OBVIOUS
      <4>1. cfg[b].key = cfg[a].key
        BY <3>1, <1>1 DEF Agrees
      <4> QED
        BY <4>1, <2>2, <1>0, ClaimFacts DEF Walking
    <3> QED
      BY <2>2, <3>1, <3>2, <1>3, <1>4, <1>15 DEF Agrees, Live
  <2> QED
    BY <2>1, <2>2
<1>13. Stated'
  <2>1. tf'[a] # NoEntry /\ tf'[a].tainted = t
    BY <1>3 DEF TypeOK, NoEntry
  <2> QED
    BY <2>1, <1>0, <1>3, <1>5 DEF Stated, Walking
<1>14. Ranged'
  <2> SUFFICES ASSUME UniqueRest, NEW b \in Addresses
               PROVE  /\ todo'[b] # "update"
                      /\ Live(tf[b].id)' => rows'[tf'[b].id].rest = tf'[b].spec.rest
    BY DEF Ranged, UniqueRest
  <2>1. Recorded(a, i) = rows'[i]
    BY DEF Recorded, Unreported, UniqueRest
  <2>2. CASE b = a
    BY <2>1, <2>2, <1>3, <1>5
  <2>3. CASE b # a
    <3>1. todo[b] # "update" /\ (Live(tf[b].id) => rows[tf[b].id].rest = tf[b].spec.rest)
      BY DEF Ranged
    <3> QED
      BY <2>3, <3>1, <1>3, <1>4, <1>5 DEF Live
  <2> QED
    BY <2>2, <2>3
<1>16. Told'
  <2> SUFFICES ASSUME Unreported, NEW b \in Addresses, Live(tf[b].id)',
                      tf'[b].id \notin strayed', ~Shared(b)'
               PROVE  rows'[tf'[b].id].rest = tf'[b].spec.rest
    BY DEF Told, Unreported
  <2>1. CASE b = a
    BY <2>1, <1>3, <1>15
  <2>2. CASE b # a
    <3>1. tf[b].id # i /\ tf[b].id \in Ids /\ Live(tf[b].id)
      BY <2>2, <1>3, <1>4 DEF Shared, Live
    <3>2. ~Shared(b)
      <4> SUFFICES ASSUME NEW d \in Addresses \ {b}, tf[d].id = tf[b].id PROVE FALSE
        BY DEF Shared
      <4>1. d # a
        BY <3>1, <1>0 DEF NoEntry
      <4> QED
        BY <4>1, <2>2, <1>3 DEF Shared
    <3> QED
      BY <3>1, <3>2, <2>2, <1>3, <1>4, <1>15 DEF Told
  <2> QED
    BY <2>1, <2>2
<1> QED
  BY <1>6, <1>7, <1>8, <1>9, <1>10, <1>11, <1>12, <1>13, <1>14, <1>16

\* A PATCH, and whether the state is told of it.
LEMMA UpdatingKeeps ==
  ASSUME IInv, NEW a \in Addresses, NEW result \in {"done", "failed"},
         Patch(a),
         Ends(a, result),
         \/ /\ tf' = [tf EXCEPT ![a].spec = cfg[a]]
            /\ strayed' = Strays(tf[a].id, cfg[a])
         \/ /\ tf' = tf /\ result = "failed"
            /\ strayed' = Strays(tf[a].id, tf[a].spec)
  PROVE  IInv'
<1> USE DEF IInv, Step, Patch
<1>0. /\ cfg[a] \in Specs /\ tf[a] # NoEntry /\ tf[a].spec.key = cfg[a].key
      /\ tf[a].id \in Ids /\ rows[tf[a].id].key = cfg[a].key
  BY EntryFacts DEF Chore, Walking, Keyed
<1>1. /\ rows' \in [Ids -> OptSpecs]
      /\ rows'[tf[a].id] = cfg[a]
      /\ \A i \in Ids \ {tf[a].id} : rows'[i] = rows[i]
      /\ \A i \in Ids : Live(i)' <=> Live(i)
  BY <1>0 DEF TypeOK, OptSpecs, Live
<1>2. /\ tf' \in [Addresses -> Entries]
      /\ \A b \in Addresses : tf'[b].id = tf[b].id /\ (tf'[b] = NoEntry <=> tf[b] = NoEntry)
      /\ tf'[a].spec.key = cfg[a].key
      /\ \A b \in Addresses \ {a} : tf'[b] = tf[b]
  <2>1. CASE tf' = tf
    BY <2>1, <1>0 DEF TypeOK
  <2>2. CASE tf' = [tf EXCEPT ![a].spec = cfg[a]]
    <3>1. tf[a] \in [id : Ids, spec : Specs, tainted : BOOLEAN]
      BY <1>0 DEF TypeOK, Entries
    <3>2. /\ tf'[a] = [tf[a] EXCEPT !.spec = cfg[a]]
          /\ \A b \in Addresses \ {a} : tf'[b] = tf[b]
      BY <2>2 DEF TypeOK
    <3>3. /\ tf'[a] \in [id : Ids, spec : Specs, tainted : BOOLEAN]
          /\ tf'[a].id = tf[a].id /\ tf'[a].spec = cfg[a]
      BY <3>1, <3>2, <1>0
    <3>4. tf'[a] # NoEntry
      BY <3>3 DEF NoEntry
    <3>5. tf' \in [Addresses -> Entries]
      BY <2>2, <3>3 DEF TypeOK, Entries
    <3> QED
      BY <3>2, <3>3, <3>4, <3>5, <1>0
  <2> QED
    BY <2>1, <2>2
<1>3. /\ todo' \in [Addresses -> Chores]
      /\ todo'[a] = result
      /\ \A b \in Addresses \ {a} : todo'[b] = todo[b]
  BY DEF TypeOK, Ends, Chores
<1>13. /\ strayed' \subseteq Ids
       /\ \A j \in Ids \ {tf[a].id} : j \in strayed' <=> j \in strayed
       /\ Unreported /\ tf[a].id \notin strayed' => rows'[tf[a].id] = tf'[a].spec
  <2>1. CASE tf' = tf /\ strayed' = Strays(tf[a].id, tf[a].spec)
    BY <2>1, <1>0 DEF Strays, TypeOK
  <2>2. CASE /\ tf' = [tf EXCEPT ![a].spec = cfg[a]]
             /\ strayed' = Strays(tf[a].id, cfg[a])
    <3>1. tf'[a] = [tf[a] EXCEPT !.spec = cfg[a]]
      BY <2>2 DEF TypeOK
    <3>2. tf[a] \in [id : Ids, spec : Specs, tainted : BOOLEAN]
      BY <1>0 DEF TypeOK, Entries
    <3>3. tf'[a].spec = cfg[a]
      BY <3>1, <3>2
    <3> QED
      BY <2>2, <3>3, <1>0, <1>1 DEF Strays, TypeOK
  <2> QED
    BY <2>1, <2>2
<1>4. TypeOK'
  BY <1>1, <1>2, <1>3, <1>13 DEF TypeOK
<1>5. NoOrphan'
  BY <1>1, <1>2 DEF NoOrphan
<1>6. Chore' /\ Phases'
  BY <1>2, <1>3 DEF Chore, Phases, Walking
<1>7. Keyed'
  <2> SUFFICES ASSUME NEW b \in Addresses, Live(tf[b].id)'
               PROVE  rows'[tf'[b].id].key = tf'[b].spec.key
    BY DEF Keyed
  <2>1. tf[b].id \in Ids /\ Live(tf[b].id)
    BY <1>1, <1>2 DEF Live
  <2>2. rows[tf[b].id].key = tf[b].spec.key
    BY <2>1 DEF Keyed
  <2>3. tf'[b].spec.key = tf[b].spec.key
    BY <1>0, <1>2
  <2> QED
    BY <2>1, <2>2, <2>3, <1>0, <1>1, <1>2
<1>8. Hits'
  BY <1>1, <1>2 DEF Hits, TypeOK, Live
<1>9. Disputes'
  BY <1>0, <1>2, ClaimsShrink DEF Specs
<1>10. Settled'
  <2> SUFFICES ASSUME NEW b \in Addresses, todo'[b] = "done", cfg[b] # Absent,
                      cfg[b].key \notin disputed
               PROVE  b \notin hit' /\ (Live(tf[b].id)' => Agrees(b)')
    BY DEF Settled
  <2>1. CASE b = a
    <3>1. b \notin hit'
      BY <2>1 DEF Hits
    <3> QED
      BY <2>1, <3>1, <1>1, <1>2 DEF Agrees
  <2>2. CASE b # a
    <3>1. b \notin hit /\ (Live(tf[b].id) => Agrees(b))
      BY <2>2, <1>3 DEF Settled, Walking
    <3>2. Live(tf[b].id) => tf[b].id # tf[a].id
      <4> SUFFICES ASSUME Live(tf[b].id), tf[b].id = tf[a].id PROVE FALSE
        OBVIOUS
      <4>1. cfg[b].key = cfg[a].key
        BY <3>1, <1>0 DEF Agrees
      <4> QED
        BY <4>1, <2>2, <1>0, ClaimFacts DEF Walking
    <3> QED
      BY <2>2, <3>1, <3>2, <1>1, <1>2, <1>13 DEF Agrees, Live
  <2> QED
    BY <2>1, <2>2
<1>11. Stated'
  <2>1. todo'[a] = "done" => tf'[a].spec = cfg[a] /\ ~tf'[a].tainted
    <3>1. tf[a] \in [id : Ids, spec : Specs, tainted : BOOLEAN] /\ ~tf[a].tainted
      BY <1>0 DEF TypeOK, Entries, Chore, Walking
    <3>2. todo'[a] = "done" => tf'[a] = [tf[a] EXCEPT !.spec = cfg[a]]
      BY <1>3 DEF TypeOK
    <3> QED
      BY <3>1, <3>2
  <2> QED
    BY <2>1, <1>0, <1>2, <1>3 DEF Stated, Walking
<1>12. Ranged'
  BY DEF Ranged, UniqueRest, Walking
<1>14. Told'
  <2> SUFFICES ASSUME Unreported, NEW b \in Addresses, Live(tf[b].id)',
                      tf'[b].id \notin strayed', ~Shared(b)'
               PROVE  rows'[tf'[b].id].rest = tf'[b].spec.rest
    BY DEF Told, Unreported
  <2>1. CASE b = a
    BY <2>1, <1>2, <1>13
  <2>2. CASE b # a
    <3>1. tf[b].id # tf[a].id /\ Live(tf[b].id) /\ ~Shared(b)
      BY <2>2, <1>1, <1>2 DEF Shared, Live
    <3> QED
      BY <3>1, <2>2, <1>1, <1>2, <1>13 DEF Told, Live
  <2> QED
    BY <2>1, <2>2
<1> QED
  BY <1>4, <1>5, <1>6, <1>7, <1>8, <1>9, <1>10, <1>11, <1>12, <1>14

LEMMA DeletingKeeps ==
  ASSUME IInv, NEW a \in Addresses, Delete(a)
  PROVE  IInv'
<1> USE DEF IInv, Step
<1>0. phase = "walk" /\ todo[a] \in {"delete", "replace"} /\ tf[a] # NoEntry /\ tf[a].id \in Ids
  BY EntryFacts DEF Delete, Deleting, Walking, Chore
<1>1. /\ rows' \in [Ids -> OptSpecs]
      /\ rows'[tf[a].id] = Absent
      /\ \A i \in Ids \ {tf[a].id} : rows'[i] = rows[i]
  BY <1>0 DEF Delete, Remove, Live, TypeOK, OptSpecs
<1>2. /\ tf'[a] = NoEntry
      /\ \A b \in Addresses \ {a} : tf'[b] = tf[b]
      /\ tf' \in [Addresses -> Entries]
  BY DEF Delete, TypeOK, Entries
<1>3. /\ todo' \in [Addresses -> Chores]
      /\ todo'[a] = IF todo[a] = "replace" THEN "create" ELSE "done"
      /\ \A b \in Addresses \ {a} : todo'[b] = todo[b]
  BY DEF Delete, Ends, TypeOK, Chores
<1>4. /\ UNCHANGED <<kind, cfg, phase, clean, calm, disputed, adrift>>
      /\ hit' = IF Live(tf[a].id)
                THEN hit \cup {b \in Addresses \ {a} : tf[b].id = tf[a].id} ELSE hit
  BY DEF Delete
<1>5. \A b \in Addresses : Live(tf[b].id)' =>
        /\ b # a /\ tf'[b] = tf[b]
        /\ Live(tf[b].id) /\ tf[b].id # tf[a].id /\ rows'[tf[b].id] = rows[tf[b].id]
  BY <1>1, <1>2 DEF Live, NoEntry
<1>15. strayed' = strayed \ {tf[a].id}
  BY DEF Delete, Remove
<1>6. TypeOK'
  BY <1>1, <1>2, <1>3, <1>4, <1>15 DEF TypeOK
<1>7. NoOrphan'
  <2> SUFFICES ASSUME NEW j \in Ids, Live(j)'
               PROVE  (j \in adrift \/ \E b \in Addresses : tf[b].id = j)'
    BY DEF NoOrphan
  <2>1. j # tf[a].id /\ Live(j)
    BY <1>1 DEF Live
  <2> QED
    BY <2>1, <1>2, <1>4 DEF NoOrphan
<1>8. Chore' /\ Phases'
  BY <1>0, <1>2, <1>3, <1>4 DEF Chore, Phases
<1>9. Keyed'
  BY <1>5 DEF Keyed
<1>10. Hits'
  <2> SUFFICES ASSUME NEW b \in hit', Live(tf[b].id)' PROVE FALSE
    BY DEF Hits
  <2>1. b \in Addresses
    BY <1>4 DEF TypeOK
  <2> QED
    BY <2>1, <1>4, <1>5 DEF Hits
<1>11. Disputes'
  BY <1>0, <1>2, <1>4, ClaimsShrink DEF NoEntry
<1>12. Settled'
  <2> SUFFICES ASSUME NEW b \in Addresses, todo'[b] = "done", cfg[b] # Absent,
                      cfg[b].key \notin disputed
               PROVE  b \notin hit' /\ (Live(tf[b].id)' => Agrees(b)')
    BY <1>4 DEF Settled
  <2>1. b # a
    BY <1>0, <1>3 DEF Chore
  <2>2. b \notin hit /\ (Live(tf[b].id) => Agrees(b))
    BY <2>1, <1>0, <1>3 DEF Settled
  <2>3. Live(tf[a].id) => tf[b].id # tf[a].id
    <3> SUFFICES ASSUME Live(tf[a].id), tf[b].id = tf[a].id PROVE FALSE
      OBVIOUS
    <3>1. cfg[b].key = tf[a].spec.key
      BY <2>2 DEF Agrees, Keyed
    <3> QED
      BY <3>1, <2>1, <1>0, ClaimFacts
  <2> QED
    BY <2>1, <2>2, <2>3, <1>4, <1>5, <1>15 DEF Agrees
<1>13. Stated'
  <2>1. todo'[a] = "done" => cfg[a] = Absent
    BY <1>0, <1>3 DEF Chore
  <2> QED
    BY <2>1, <1>0, <1>2, <1>3, <1>4 DEF Stated
<1>14. Ranged'
  BY <1>3, <1>4, <1>5 DEF Ranged, UniqueRest
<1>16. Told'
  BY <1>2, <1>4, <1>5, <1>15 DEF Told, Unreported, Shared
<1> QED
  BY <1>6, <1>7, <1>8, <1>9, <1>10, <1>11, <1>12, <1>13, <1>14, <1>16

-----------------------------------------------------------------------------
\* The run reads its resources and plans.
LEMMA PlanKeeps ==
  ASSUME IInv, Plan
  PROVE  IInv'
<1> USE DEF IInv
<1>1. \A a \in Addresses : tf'[a] = IF tf[a] = NoEntry THEN NoEntry ELSE Read(tf[a])
  BY DEF Plan
<1>2. \A a \in Addresses : todo'[a] = Due(tf'[a], cfg[a])
  BY DEF Plan
<1>3. ASSUME NEW a \in Addresses
      PROVE  /\ tf'[a] \in Entries
             /\ tf'[a] # NoEntry =>
                  /\ Live(tf[a].id) /\ tf'[a].id = tf[a].id
                  /\ rows[tf[a].id].key = tf'[a].spec.key
                  /\ Unreported \/ rows[tf[a].id] = tf'[a].spec
             /\ tf'[a] = NoEntry => ~Live(tf[a].id)
  <2>1. CASE tf[a] = NoEntry \/ ~Live(tf[a].id)
    <3>1. tf'[a] = NoEntry
      BY <2>1, <1>1 DEF Read
    <3>2. ~Live(tf[a].id)
      BY <2>1, EntryFacts DEF Live
    <3> QED
      BY <3>1, <3>2 DEF Entries
  <2>2. CASE tf[a] # NoEntry /\ Live(tf[a].id)
    <3>1. tf[a] \in [id : Ids, spec : Specs, tainted : BOOLEAN]
      BY <2>2 DEF TypeOK, Entries
    <3>2. rows[tf[a].id] \in Specs
      BY <2>2 DEF TypeOK, OptSpecs, Live
    <3>3. rows[tf[a].id].key = tf[a].spec.key
      BY <2>2 DEF Keyed
    <3>4. CASE Unreported
      <4>1. tf'[a] = tf[a]
        BY <2>2, <3>4, <1>1 DEF Read
      <4> QED
        BY <4>1, <2>2, <3>1, <3>3, <3>4 DEF Entries
    <3>5. CASE ~Unreported
      <4>1. tf'[a] = [tf[a] EXCEPT !.spec = rows[tf[a].id]]
        BY <2>2, <3>5, <1>1 DEF Read
      <4>2. /\ tf'[a] \in [id : Ids, spec : Specs, tainted : BOOLEAN]
            /\ tf'[a].id = tf[a].id /\ tf'[a].spec = rows[tf[a].id]
        BY <4>1, <3>1, <3>2
      <4>3. tf'[a] # NoEntry
        BY <4>2 DEF NoEntry
      <4> QED
        BY <4>2, <4>3, <2>2 DEF Entries
    <3> QED
      BY <3>4, <3>5
  <2> QED
    BY <2>1, <2>2
<1>4. ASSUME NEW a \in Addresses
      PROVE  /\ todo'[a] \in Chores
             /\ todo'[a] \in {"create", "update", "replace"} => cfg[a] # Absent
             /\ todo'[a] = "create" => tf'[a] = NoEntry
             /\ todo'[a] \in {"update", "delete", "replace"} => tf'[a] # NoEntry
             /\ todo'[a] = "update" => tf'[a].spec.key = cfg[a].key /\ ~tf'[a].tainted
             /\ todo'[a] = "delete" => cfg[a] = Absent
             /\ todo'[a] = "done" => (cfg[a] = Absent <=> tf'[a] = NoEntry)
             /\ todo'[a] = "done" /\ cfg[a] # Absent => tf'[a].spec = cfg[a] /\ ~tf'[a].tainted
             /\ todo'[a] = "update" => InPlace
  BY <1>2 DEF Due, Chores
<1>5. \A a \in Addresses : Live(tf[a].id)' =>
        /\ tf'[a] # NoEntry /\ Live(tf[a].id) /\ tf'[a].id = tf[a].id
  <2> SUFFICES ASSUME NEW a \in Addresses, Live(tf[a].id)'
               PROVE  tf'[a] # NoEntry /\ Live(tf[a].id) /\ tf'[a].id = tf[a].id
    OBVIOUS
  <2>1. tf'[a].id \in Ids
    BY DEF Live
  <2>2. tf'[a] # NoEntry
    BY <2>1 DEF NoEntry
  <2> QED
    BY <2>2, <1>3
<1>6. TypeOK'
  <2>1. tf' \in [Addresses -> Entries]
    BY <1>3 DEF Plan
  <2>2. todo' \in [Addresses -> Chores]
    BY <1>4 DEF Plan
  <2>3. disputed' \subseteq Keys /\ hit' \subseteq Addresses
    BY DEF Plan
  <2> QED
    BY <2>1, <2>2, <2>3 DEF Plan, TypeOK
<1>7. NoOrphan'
  <2> SUFFICES ASSUME NEW j \in Ids, Live(j)'
               PROVE  (j \in adrift \/ \E b \in Addresses : tf[b].id = j)'
    BY DEF NoOrphan
  <2>1. Live(j) /\ adrift' = adrift
    BY DEF Plan, Live
  <2>2. ASSUME NEW b \in Addresses, tf[b].id = j PROVE tf'[b].id = j
    BY <2>1, <2>2, <1>3
  <2> QED
    BY <2>1, <2>2 DEF NoOrphan
<1>8. Chore' /\ Phases'
  BY <1>4 DEF Chore, Phases, Plan
<1>9. Keyed'
  BY <1>3, <1>5 DEF Keyed, Plan
<1>10. Hits'
  BY DEF Hits, Plan
<1>15. Told'
  <2> SUFFICES ASSUME Unreported, NEW b \in Addresses, Live(tf[b].id)',
                      tf'[b].id \notin strayed, ~Shared(b)'
               PROVE  rows[tf'[b].id].rest = tf'[b].spec.rest
    BY DEF Told, Unreported, Plan
  <2>1. /\ tf'[b] = tf[b] /\ Live(tf[b].id)
    BY <1>1, <1>5 DEF Read
  <2>2. ~Shared(b)
    <3> SUFFICES ASSUME NEW d \in Addresses \ {b}, tf[d].id = tf[b].id PROVE FALSE
      BY DEF Shared
    <3>1. tf'[d].id = tf[d].id
      BY <2>1, <1>3
    <3> QED
      BY <3>1, <2>1 DEF Shared
  <2> QED
    BY <2>1, <2>2 DEF Told
<1>11. Disputes'
  BY DEF Disputes, Plan
<1>12. Settled'
  <2> SUFFICES ASSUME NEW b \in Addresses, todo'[b] = "done", cfg[b] # Absent,
                      cfg[b].key \notin disputed', Live(tf[b].id)'
               PROVE  Agrees(b)'
    BY DEF Settled, Plan
  <2>1. tf'[b].spec = cfg[b]
    BY <1>4
  <2>2. CASE ~Unreported
    BY <2>1, <2>2, <1>3, <1>5 DEF Agrees, Plan
  <2>3. CASE Unreported
    <3>1. ~Shared(b)'
      <4> SUFFICES ASSUME NEW d \in Addresses \ {b}, tf'[d].id = tf'[b].id PROVE FALSE
        BY DEF Shared
      <4>1. /\ tf'[b] # NoEntry /\ tf'[d] # NoEntry
            /\ tf'[d].spec.key = tf'[b].spec.key
        BY <1>3, <1>5 DEF Plan, Live
      <4>2. /\ tf'[b].spec \in Specs /\ tf'[d].spec \in Specs
            /\ cfg[b].key \in Keys
        BY <4>1, <2>1, <1>3 DEF Entries, Specs
      <4>3. /\ Claims(tf'[b], cfg[b], cfg[b].key)
            /\ Claims(tf'[d], cfg[d], cfg[b].key)
        BY <4>1, <4>2, <2>1 DEF Claims
      <4> QED
        BY <4>2, <4>3 DEF Plan
    <3>2. Told'
      BY <1>15
    <3> QED
      BY <3>1, <3>2, <2>1, <2>3, <1>3, <1>5 DEF Told, Agrees, Plan, Unreported
  <2> QED
    BY <2>2, <2>3
<1>13. Stated'
  BY <1>4 DEF Stated, Plan
<1>14. Ranged'
  <2>1. ASSUME UniqueRest, NEW a \in Addresses
        PROVE  /\ todo'[a] # "update"
               /\ Live(tf[a].id)' => rows[tf'[a].id].rest = tf'[a].spec.rest
    BY <2>1, <1>3, <1>4, <1>5 DEF UniqueRest, InPlace, Unreported
  <2> QED
    BY <2>1 DEF Ranged, UniqueRest, Plan
<1> QED
  BY <1>6, <1>7, <1>8, <1>9, <1>10, <1>11, <1>12, <1>13, <1>14, <1>15

\* Rows go, the configuration changes, a process dies: nothing is walked on.
LEMMA OutsideKeeps ==
  ASSUME IInv,
         \/ \E c \in Configurations : Configure(c)
         \/ CalmDown
         \/ Crash
         \/ \E i \in Ids : Reap(i)
         \/ UNCHANGED vars
  PROVE  IInv'
<1> USE DEF IInv
<1>1. ASSUME NEW c \in Configurations, Configure(c) PROVE IInv'
  <2>1. TypeOK'
    BY <1>1 DEF Configure, TypeOK, OptSpecs
  <2>2. NoOrphan' /\ Keyed' /\ Hits'
    BY <1>1 DEF Configure, NoOrphan, Keyed, Hits, Live
  <2>3. Chore' /\ Phases' /\ Disputes' /\ Settled' /\ Stated'
    BY <1>1 DEF Configure, Chore, Phases, Disputes, Settled, Stated
  <2>4. Ranged'
    BY <1>1 DEF Configure, Ranged, UniqueRest, Live
  <2>5. Told'
    BY <1>1 DEF Configure, Told, Unreported, Shared, Live
  <2> QED
    BY <2>1, <2>2, <2>3, <2>4, <2>5
<1>2. CASE CalmDown \/ UNCHANGED vars
  <2>1. UNCHANGED <<kind, rows, cfg, tf, phase, todo, clean, adrift, disputed, hit, strayed>>
        /\ calm' \in BOOLEAN
    BY <1>2 DEF CalmDown, vars, TypeOK
  <2>2. TypeOK'
    BY <2>1 DEF TypeOK
  <2>3. NoOrphan' /\ Keyed' /\ Hits' /\ Chore' /\ Phases' /\ Disputes' /\ Stated'
    BY <2>1 DEF NoOrphan, Keyed, Hits, Chore, Phases, Disputes, Live, Stated
  <2>4. Settled'
    BY <2>1 DEF Settled, Agrees, Live
  <2>5. Ranged'
    BY <2>1 DEF Ranged, UniqueRest, Live
  <2>6. Told'
    BY <2>1 DEF Told, Unreported, Shared, Live
  <2> QED
    BY <2>2, <2>3, <2>4, <2>5, <2>6
<1>3. CASE Crash
  <2>1. TypeOK'
    BY <1>3 DEF Crash, TypeOK, Chores
  <2>2. NoOrphan' /\ Keyed' /\ Hits'
    BY <1>3 DEF Crash, NoOrphan, Keyed, Hits, Live
  <2>3. Chore' /\ Phases' /\ Disputes' /\ Settled' /\ Stated'
    BY <1>3 DEF Crash, Chore, Phases, Disputes, Settled, Stated
  <2>4. Ranged'
    BY <1>3 DEF Crash, Ranged, UniqueRest, Live
  <2>5. Told'
    BY <1>3 DEF Crash, Told, Unreported, Shared, Live
  <2> QED
    BY <2>1, <2>2, <2>3, <2>4, <2>5
<1>4. ASSUME NEW i \in Ids, Reap(i) PROVE IInv'
  <2>1. /\ rows' = [rows EXCEPT ![i] = Absent]
        /\ adrift' = adrift \ {i} /\ strayed' = strayed \ {i}
        /\ UNCHANGED <<kind, cfg, tf, phase, todo, clean, calm, disputed, hit>>
    BY <1>4 DEF Reap, Remove
  <2>2. \A j \in Ids : Live(j)' => j # i /\ Live(j) /\ rows'[j] = rows[j]
    BY <2>1 DEF Live, TypeOK
  <2>3. TypeOK'
    BY <2>1 DEF TypeOK, OptSpecs
  <2>4. NoOrphan'
    BY <2>1, <2>2 DEF NoOrphan
  <2>5. \A a \in Addresses : Live(tf[a].id)' =>
          /\ Live(tf[a].id) /\ rows'[tf[a].id] = rows[tf[a].id]
          /\ tf[a].id \in strayed <=> tf[a].id \in strayed'
    BY <2>1, <2>2 DEF Live
  <2>6. Keyed' /\ Hits'
    BY <2>1, <2>5 DEF Keyed, Hits, TypeOK
  <2>7. Chore' /\ Phases' /\ Disputes' /\ Stated'
    BY <2>1 DEF Chore, Phases, Disputes, Stated
  <2>8. Settled'
    BY <2>1, <2>5 DEF Settled, Agrees
  <2>9. Ranged'
    BY <2>1, <2>5 DEF Ranged, UniqueRest
  <2>10. Told'
    BY <2>1, <2>5 DEF Told, Unreported, Shared
  <2> QED
    BY <2>3, <2>4, <2>6, <2>7, <2>8, <2>9, <2>10
<1> QED
  BY <1>1, <1>2, <1>3, <1>4

LEMMA EndRunKeeps ==
  ASSUME IInv, EndRun
  PROVE  IInv'
<1> USE DEF IInv
<1>1. TypeOK'
  BY DEF EndRun, TypeOK, Chores
<1>2. NoOrphan' /\ Keyed' /\ Hits'
  BY DEF EndRun, NoOrphan, Keyed, Hits, Live
<1>3. Chore' /\ Phases' /\ Disputes'
  BY DEF EndRun, Chore, Phases, Disputes
<1>4. Settled'
  <2> SUFFICES ASSUME clean', NEW b \in Addresses, cfg[b] # Absent,
                      cfg[b].key \notin disputed'
               PROVE  b \notin hit' /\ (Live(tf[b].id)' => Agrees(b)')
    BY DEF Settled, EndRun
  <2>1. todo[b] = "done" /\ phase = "walk"
    BY DEF EndRun
  <2>2. disputed' = disputed /\ hit' = hit
    BY DEF EndRun
  <2>3. b \notin hit /\ (Live(tf[b].id) => Agrees(b))
    BY <2>1, <2>2 DEF Settled
  <2> QED
    BY <2>2, <2>3 DEF EndRun, Agrees, Live
<1>5. Stated'
  BY DEF Stated, EndRun
<1>6. Ranged'
  BY DEF Ranged, UniqueRest, EndRun, Live
<1>7. Told'
  BY DEF Told, Unreported, Shared, EndRun, Live
<1> QED
  BY <1>1, <1>2, <1>3, <1>4, <1>5, <1>6, <1>7

\* Every step keeps the invariant.
LEMMA StepKeeps == IInv /\ [Next]_vars => IInv'
<1> SUFFICES ASSUME IInv, [Next]_vars PROVE IInv'
  OBVIOUS
<1>1. ASSUME NEW a \in Addresses, NEW i \in Ids, Create(a, i) PROVE IInv'
  <2> DEFINE same == Recorded(a, i) = cfg[a]
  <2>1. /\ tf' = [tf EXCEPT ![a] = [id |-> i, spec |-> Recorded(a, i), tainted |-> ~same]]
        /\ Ends(a, IF same THEN "done" ELSE "failed")
    BY <1>1 DEF Create
  <2>2. (~same) \in BOOLEAN /\ (IF same THEN "done" ELSE "failed") \in {"done", "failed"}
    OBVIOUS
  <2>3. (IF same THEN "done" ELSE "failed") = "done" => same
    OBVIOUS
  <2> HIDE DEF same
  <2> QED
    BY <2>1, <2>2, <2>3, <1>1, CreatingKeeps DEF Create, same
<1>2. ASSUME NEW a \in Addresses, NEW i \in Ids, CreateNeverActive(a, i) PROVE IInv'
  BY <1>2, CreatingKeeps DEF CreateNeverActive
<1>3. ASSUME NEW a \in Addresses, NEW i \in Ids, CreateUnanswered(a, i) PROVE IInv'
  <2>1. cfg[a] \in Specs
    BY <1>3, EntryFacts DEF IInv, Chore, CreateUnanswered, Walking
  <2>2. /\ Fresh(i) /\ rows' \in [Ids -> OptSpecs]
        /\ \A j \in Ids \ {i} : rows'[j] = rows[j]
    BY <2>1, <1>3, NewRow DEF CreateUnanswered, IInv
  <2>3. Failing(a)
    BY <2>2, <1>3 DEF Failing, CreateUnanswered, Walking, IInv, TypeOK
  <2> QED
    BY <2>3, FailingKeeps
<1>4. ASSUME NEW a \in Addresses, CreateRefused(a) PROVE IInv'
  <2>1. Failing(a)
    BY <1>4 DEF Failing, CreateRefused, Walking, IInv, TypeOK
  <2> QED
    BY <2>1, FailingKeeps
<1>5. ASSUME NEW a \in Addresses,
             Update(a) \/ UpdateNeverActive(a) \/ UpdateUnanswered(a)
      PROVE  IInv'
  BY <1>5, UpdatingKeeps DEF Update, UpdateNeverActive, UpdateUnanswered
<1>6. ASSUME NEW a \in Addresses, UpdateRefused(a) PROVE IInv'
  <2>1. Failing(a)
    BY <1>6 DEF Failing, UpdateRefused, Walking, IInv, TypeOK
  <2> QED
    BY <2>1, FailingKeeps
<1>7. ASSUME NEW a \in Addresses, DeleteFails(a) PROVE IInv'
  <2>1. /\ rows' \in [Ids -> OptSpecs]
        /\ \A i \in Ids : rows'[i] \in {rows[i], Absent}
        /\ strayed' \subseteq strayed
        /\ \A i \in strayed \ strayed' : rows'[i] = Absent
    BY <1>7 DEF DeleteFails, Remove, Live, IInv, TypeOK, OptSpecs
  <2>2. Failing(a)
    BY <2>1, <1>7 DEF Failing, DeleteFails, Deleting, Walking, IInv, TypeOK
  <2> QED
    BY <2>2, FailingKeeps
<1> QED
  BY <1>1, <1>2, <1>3, <1>4, <1>5, <1>6, <1>7,
     PlanKeeps, EndRunKeeps, DeletingKeeps, OutsideKeeps DEF Next, User, Run

LEMMA Invariant == Spec => []IInv
<1> QED
  BY Start, StepKeeps, PTL DEF Spec

\* Every reachable state is well typed.
THEOREM TypeCorrect == Spec => []TypeOK
<1>1. IInv => TypeOK
  BY DEF IInv
<1> QED
  BY <1>1, Invariant, PTL

\* A live row is in the saved state or its answer was lost, however keys change
\* hands between the resources.
THEOREM NothingOrphaned == Spec => []NoOrphan
<1>1. IInv => NoOrphan
  BY DEF IInv
<1> QED
  BY <1>1, Invariant, PTL

\* A clean run leaves what was configured wherever no two resources claimed the
\* key when the run was planned, in whatever order Terraform has walked.
THEOREM CleanRunsServe == Spec => []CleanRunServes
<1>1. IInv => CleanRunServes
  BY DEF IInv, Phases, TypeOK, Settled, Stated, CleanRunServes
<1> QED
  BY <1>1, Invariant, PTL

-----------------------------------------------------------------------------
(* Nothing gets in the way of an undisturbed run.                          *)

\* Every live row is the one of an entry with its key, and of that one alone.
LEMMA EveryRowHasItsEntry ==
  ASSUME IInv, phase = "walk", Undisturbed, NEW i \in Ids, Live(i)
  PROVE  \E a \in Addresses :
           /\ tf[a] # NoEntry /\ tf[a].id = i /\ tf[a].spec.key = rows[i].key
           /\ \A b \in Addresses \ {a} :
                /\ tf[b].id # i
                /\ cfg[b] # Absent => cfg[b].key # rows[i].key
<1>1. PICK a \in Addresses : tf[a].id = i
  BY DEF IInv, NoOrphan, Undisturbed
<1>2. tf[a] # NoEntry /\ tf[a].spec.key = rows[i].key
  BY <1>1, EntryFacts DEF IInv, Keyed
<1>3. ASSUME NEW b \in Addresses \ {a}
      PROVE  /\ tf[b].id # i
             /\ cfg[b] # Absent => cfg[b].key # rows[i].key
  <2>1. tf[b].id = i => tf[b] # NoEntry /\ tf[b].spec.key = rows[i].key
    BY EntryFacts DEF IInv, Keyed
  <2> QED
    BY <2>1, <1>2, ClaimFacts DEF IInv, Undisturbed
<1> QED
  BY <1>1, <1>2, <1>3

\* A POST finds no row in its way, so it makes a new one.
LEMMA PostIsFree ==
  ASSUME IInv, phase = "walk", Undisturbed, NEW a \in Addresses, todo[a] = "create",
         NEW i \in Ids
  PROVE  ~Clashes(cfg[a], i) /\ ~Answers(cfg[a], i)
<1>1. tf[a] = NoEntry /\ cfg[a] # Absent
  BY DEF IInv, Chore
<1>2. ASSUME Live(i) PROVE rows[i].key # cfg[a].key
  BY <1>1, <1>2, EveryRowHasItsEntry
<1>3. ASSUME UniqueRest, Live(i) PROVE rows[i].rest # cfg[a].rest
  <2>1. PICK b \in Addresses : tf[b] # NoEntry /\ tf[b].id = i
    BY <1>3, EveryRowHasItsEntry
  <2>2. rows[i].rest = tf[b].spec.rest /\ a # b
    BY <2>1, <1>1, <1>3 DEF IInv, Ranged
  <2>3. tf[b].spec # Absent
    BY <2>1, EntryFacts DEF IInv
  <2> QED
    BY <2>2, <2>3, <1>1, <1>3 DEF Undisturbed, RestsApart
<1> QED
  BY <1>2, <1>3 DEF Clashes, Answers

\* A handler leaves its resource no CIDR that it had not before.
LEMMA RestsStayApart ==
  ASSUME RestsApart, UNCHANGED <<kind, cfg>>, NEW a \in Addresses,
         \A b \in Addresses \ {a} : tf'[b] = tf[b],
         tf'[a].spec \in {Absent, cfg[a], tf[a].spec}
  PROVE  RestsApart'
<1>1. \A b \in Addresses :
        {tf'[b].spec, cfg'[b]} \ {Absent} \subseteq {tf[b].spec, cfg[b]} \ {Absent}
  OBVIOUS
<1> QED
  BY <1>1 DEF RestsApart, UniqueRest

LEMMA UndisturbedStep ==
  ASSUME IInv, [Next]_vars, phase = "walk", phase' = "walk", Undisturbed
  PROVE  /\ \A a \in Addresses : todo'[a] = "failed" => todo[a] = "failed"
         /\ Undisturbed'
<1> USE DEF Undisturbed
<1> DEFINE Goal == /\ \A a \in Addresses : todo'[a] = "failed" => todo[a] = "failed"
                   /\ Undisturbed'
<1> SUFFICES Goal
  OBVIOUS
<1>0. TypeOK
  BY DEF IInv
<1>1. ASSUME NEW a \in Addresses, NEW i \in Ids, Create(a, i) PROVE Goal
  <2>1. phase = "walk" /\ todo[a] = "create" /\ cfg[a] \in Specs
    BY <1>1, EntryFacts DEF Create, Walking, IInv, Chore
  <2>2. PostNew(cfg[a], i)
    BY <1>1, <2>1, PostIsFree DEF Create, Post
  <2>3. /\ rows'[i] = cfg[a] /\ cfg[a] # Absent
        /\ \A j \in Ids : Live(j) => Live(j)'
    BY <1>0, <2>1, <2>2, NewRow DEF Live, Fresh
  <2>4. Recorded(a, i) = cfg[a]
    BY <2>3 DEF Recorded
  <2>5. /\ tf'[a].id = i
        /\ \A b \in Addresses \ {a} : tf'[b] = tf[b]
        /\ \A b \in Addresses : todo'[b] = IF b = a THEN "done" ELSE todo[b]
    BY <1>0, <1>1, <2>4 DEF Create, Ends, TypeOK
  <2>6. \A b \in Addresses : tf'[b] # NoEntry => Live(tf[b].id)'
    BY <2>3, <2>5 DEF Live
  <2>7. RestsApart'
    <3>1. tf'[a].spec = cfg[a]
      BY <1>0, <1>1, <2>4 DEF Create, TypeOK
    <3> QED
      BY <3>1, <2>5, <1>1, RestsStayApart DEF Create, Step
  <2> QED
    BY <1>1, <2>5, <2>6, <2>7 DEF Create, Step
<1>2. ASSUME NEW a \in Addresses, CreateRefused(a) PROVE Goal
  BY <1>2, PostIsFree DEF CreateRefused, Walking
<1>3. ASSUME NEW a \in Addresses, Update(a) PROVE Goal
  <2>1. tf[a] # NoEntry /\ cfg[a] \in Specs
    BY <1>3, EntryFacts DEF Update, Patch, Walking, IInv, Chore
  <2>2. \A j \in Ids : Live(j) => Live(j)'
    BY <1>0, <1>3, <2>1 DEF Update, Patch, Live, TypeOK
  <2>3. \A b \in Addresses : tf'[b].id = tf[b].id /\ (b # a => tf'[b] = tf[b])
    BY <1>0, <1>3, <2>1 DEF Update, TypeOK, Entries
  <2>4. \A b \in Addresses : todo'[b] = IF b = a THEN "done" ELSE todo[b]
    BY <1>0, <1>3 DEF Update, Ends, TypeOK
  <2>5. \A b \in Addresses : tf'[b] # NoEntry => Live(tf[b].id)'
    BY <2>1, <2>2, <2>3 DEF Live
  <2>6. RestsApart'
    <3>1. tf[a] \in [id : Ids, spec : Specs, tainted : BOOLEAN]
      BY <1>0, <2>1 DEF TypeOK, Entries
    <3>2. tf'[a] = [tf[a] EXCEPT !.spec = cfg[a]]
      BY <1>0, <1>3 DEF Update, TypeOK
    <3>3. tf'[a].spec = cfg[a]
      BY <3>1, <3>2
    <3> QED
      BY <3>3, <2>3, <1>3, RestsStayApart DEF Update, Patch, Step
  <2> QED
    BY <1>3, <2>4, <2>5, <2>6 DEF Update, Patch, Step
<1>4. ASSUME NEW a \in Addresses, UpdateRefused(a) PROVE Goal
  BY <1>4 DEF UpdateRefused, Walking, IInv, Chore
<1>5. ASSUME NEW a \in Addresses, Delete(a) PROVE Goal
  <2>1. tf[a] # NoEntry /\ Live(tf[a].id)
    BY <1>5 DEF Delete, Deleting, Walking, IInv, Chore
  <2>2. /\ tf'[a] = NoEntry
        /\ \A b \in Addresses \ {a} : tf'[b] = tf[b]
        /\ \A b \in Addresses \ {a} : todo'[b] = todo[b]
        /\ todo'[a] # "failed"
    BY <1>0, <1>5 DEF Delete, Ends, TypeOK
  <2>3. \A j \in Ids \ {tf[a].id} : Live(j) => Live(j)'
    BY <1>0, <1>5, <2>1 DEF Delete, Remove, Live, TypeOK
  <2>4. \A b \in Addresses \ {a} : tf[b].id # tf[a].id
    <3>1. PICK d \in Addresses : \A b \in Addresses \ {d} : tf[b].id # tf[a].id
      BY <2>1, EveryRowHasItsEntry DEF Live
    <3> QED
      BY <3>1
  <2>5. \A b \in Addresses : tf'[b] # NoEntry => Live(tf[b].id)'
    BY <2>2, <2>3, <2>4 DEF Live
  <2>6. RestsApart'
    BY <1>5, <2>2, RestsStayApart DEF Delete, Step, NoEntry
  <2> QED
    BY <1>5, <2>2, <2>5, <2>6 DEF Delete, Step
<1>6. CASE UNCHANGED vars
  BY <1>6 DEF vars, RestsApart, UniqueRest, Live
<1> QED
  BY <1>1, <1>2, <1>3, <1>4, <1>5, <1>6
     DEF Next, User, Run, Configure, CalmDown, Crash, Plan, EndRun, Reap,
         CreateNeverActive, CreateUnanswered, UpdateNeverActive, UpdateUnanswered, DeleteFails

\* A run that nothing stands in the way of, of any number of resources, walked in
\* any order, fails no resource: neither its own replacements nor rows that
\* changed hands before get in its way.
THEOREM UndisturbedRunsSucceed == Spec => UndisturbedSucceeds
<1>1. IInv /\ [Next]_vars =>
        [phase = "walk" /\ phase' = "walk" /\ Undisturbed =>
           /\ \A a \in Addresses : todo'[a] = "failed" => todo[a] = "failed"
           /\ Undisturbed']_vars
  BY UndisturbedStep
<1> QED
  BY <1>1, Invariant, PTL DEF Spec, UndisturbedSucceeds
=============================================================================
