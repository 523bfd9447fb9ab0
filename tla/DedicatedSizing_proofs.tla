------------------------ MODULE DedicatedSizing_proofs ------------------------
(***************************************************************************)
(* What holds of DedicatedSizing for every menu of numbers and any number  *)
(* of unknown attributes: a refusal at plan time is final, no request      *)
(* breaks the platform's sizing rules, and each makes the row what was     *)
(* planned.                                                                *)
(***************************************************************************)
EXTENDS DedicatedSizing, TLAPS

KnownConfigs == [Attributes -> Int \cup {Null}]

\* A resolution keeps what was known, and knows the rest.
LEMMA ResolutionKnows ==
  ASSUME NEW c \in Configs, NEW r \in Resolutions(c)
  PROVE  /\ r \in KnownConfigs
         /\ UnknownOf(r) = {}
         /\ \A a \in Attributes : c[a] # Unknown => r[a] = c[a]
<1>1. PICK f \in Learned(c) :
        r = [a \in Attributes |-> IF a \in UnknownOf(c) THEN f[a] ELSE c[a]]
  BY DEF Resolutions
<1>2. \A a \in UnknownOf(c) : f[a] \in Menu[a] \cup {Null}
  BY DEF Learned
<1>3. \A a \in UnknownOf(c) : f[a] \in Int \cup {Null}
  BY <1>2, ConstantsAssumption DEF UnknownOf
<1>4. \A a \in Attributes : r[a] \in Int \cup {Null}
  BY <1>1, <1>3 DEF UnknownOf, Configs
<1>5. r \in KnownConfigs
  BY <1>1, <1>4 DEF KnownConfigs
<1>6. UnknownOf(r) = {}
  BY <1>4, ConstantsAssumption DEF UnknownOf
<1> QED
  BY <1>1, <1>5, <1>6 DEF UnknownOf

\* Whatever a check of ValidateConfig refuses while something is unknown, it
\* refuses when everything is known: the early returns lose no soundness.
THEOREM RefusalIsFinal ==
  ASSUME NEW c \in Configs, Refuses(c), NEW r \in Resolutions(c)
  PROVE  Refuses(r)
<1>1. /\ r \in KnownConfigs
      /\ \A a \in Attributes : c[a] # Unknown => r[a] = c[a]
  BY ResolutionKnows
<1>2. \A a \in Attributes : r[a] # Unknown
  BY <1>1, ConstantsAssumption DEF KnownConfigs
<1>3. \A a \in Attributes : c[a] \in Int \cup {Null} => r[a] = c[a]
  BY <1>1, ConstantsAssumption
<1>4. CASE SchemaRefuses(c)
  <2>1. SchemaRefuses(r)
    BY <1>3, <1>4 DEF SchemaRefuses, Required, Attributes
  <2> QED
    BY <2>1 DEF Refuses
<1>5. CASE OffStep(c)
  <2>1. OffStep(r)
    BY <1>3, <1>5 DEF OffStep, Attributes
  <2> QED
    BY <2>1 DEF Refuses
<1>6. CASE CombinedTooSmall(c)
  <2>1. \A a \in {"cp_nodes", "cp_vcpu", "worker_nodes"} : r[a] = c[a]
    BY <1>1, <1>6 DEF CombinedTooSmall, PoolsKnown, Attributes
  <2>2. CombinedTooSmall(r)
    BY <1>6, <2>1 DEF CombinedTooSmall, PoolsKnown, Value
  <2> QED
    BY <2>2 DEF Refuses
<1>7. CASE WorkersTooSmall(c)
  <2>1. \A a \in {"cp_nodes", "cp_vcpu", "worker_nodes", "worker_vcpu", "worker_ram_gb"} :
          r[a] = c[a]
    BY <1>1, <1>7 DEF WorkersTooSmall, PoolsKnown, WorkerFloor, Attributes
  <2>2. WorkersTooSmall(r)
    BY <1>7, <2>1 DEF WorkersTooSmall, PoolsKnown, Value, WorkerFloor
  <2> QED
    BY <2>2 DEF Refuses
<1> QED
  BY <1>4, <1>5, <1>6, <1>7 DEF Refuses

-----------------------------------------------------------------------------
(* What is sent.                                                           *)

\* The sizes a configuration asks for, where they are given, and the floors of
\* a worker pool.
Given(c, s) ==
  s["worker_nodes"] > 0 =>
    \A a \in DOMAIN WorkerFloor : c[a] # Null => s[a] >= WorkerFloor[a]

\* The sizes of a configuration that is not refused are integers, obey the rules
\* of the platform, and are zero only for the workers.
LEMMA PlannedIsSound ==
  ASSUME NEW c \in KnownConfigs, ~Refuses(c)
  PROVE  /\ Planned(c) \in Sizings
         /\ Sound(Planned(c))
         /\ Given(c, Planned(c))
         /\ \A a \in Attributes \ Pointers : Planned(c)[a] # 0
<1> DEFINE s == Planned(c)
<1>1. /\ ~SchemaRefuses(c) /\ ~OffStep(c)
      /\ ~CombinedTooSmall(c) /\ ~WorkersTooSmall(c)
  BY DEF Refuses
<1>2. \A a \in Attributes : s[a] = Value(c, a)
  BY DEF Planned
<1>3. \A a \in Attributes : c[a] # Null => c[a] \in Int /\ Allowed(a, c[a])
  BY <1>1 DEF SchemaRefuses, KnownConfigs
<1>4. \A a \in Required : c[a] # Null
  BY <1>1 DEF SchemaRefuses
<1>5. \A a \in Attributes : s[a] \in Int /\ Allowed(a, s[a])
  <2> SUFFICES ASSUME NEW a \in Attributes PROVE s[a] \in Int /\ Allowed(a, s[a])
    OBVIOUS
  <2>1. CASE c[a] # Null
    BY <2>1, <1>2, <1>3 DEF Value
  <2>2. CASE c[a] = Null
    <3>1. a \in {"cp_nodes", "worker_nodes", "worker_vcpu", "worker_ram_gb", "pvc_storage_gb"}
      BY <2>2, <1>4 DEF Required, Attributes
    <3>2. Default[a] \in Int /\ Allowed(a, Default[a])
      BY <3>1 DEF Default, Allowed
    <3> QED
      BY <2>2, <3>2, <1>2 DEF Value
  <2> QED
    BY <2>1, <2>2
<1>6. s \in Sizings
  BY <1>5 DEF Planned, Sizings
<1>7. PoolsKnown(c) /\ \A a \in DOMAIN WorkerFloor : c[a] # Unknown
  BY ConstantsAssumption DEF PoolsKnown, KnownConfigs, WorkerFloor, Attributes
<1>8. s["cp_nodes"] = 1 /\ s["worker_nodes"] = 0 => s["cp_vcpu"] >= 4
  <2>1. /\ s["cp_nodes"] = Value(c, "cp_nodes") /\ s["worker_nodes"] = Value(c, "worker_nodes")
        /\ s["cp_vcpu"] = Value(c, "cp_vcpu") /\ s["cp_vcpu"] \in Int
    BY <1>2, <1>5 DEF Attributes
  <2>2. c["cp_vcpu"] # Null /\ s["cp_vcpu"] = c["cp_vcpu"]
    BY <2>1, <1>4 DEF Required, Value
  <2> QED
    BY <2>1, <2>2, <1>1, <1>7 DEF CombinedTooSmall
<1>9. s["pvc_storage_gb"] % 50 = 0
  <2>1. s["pvc_storage_gb"] = Value(c, "pvc_storage_gb")
    BY <1>2 DEF Attributes
  <2>2. CASE c["pvc_storage_gb"] = Null
    BY <2>1, <2>2 DEF Value, Default
  <2>3. CASE c["pvc_storage_gb"] # Null
    BY <2>1, <2>3, <1>1, <1>3 DEF Value, OffStep, Attributes
  <2> QED
    BY <2>2, <2>3
<1>10. Given(c, s)
  <2> SUFFICES ASSUME s["worker_nodes"] > 0, NEW a \in DOMAIN WorkerFloor, c[a] # Null
               PROVE  s[a] >= WorkerFloor[a]
    BY DEF Given
  <2>1. a \in Attributes /\ WorkerFloor[a] \in Int
    BY DEF WorkerFloor, Attributes
  <2>2. s[a] = c[a] /\ c[a] \in Int
    BY <2>1, <1>2, <1>3 DEF Value
  <2>3. Value(c, "worker_nodes") > 0
    BY <1>2 DEF Attributes
  <2>4. ~(c[a] < WorkerFloor[a])
    BY <2>3, <1>1, <1>7 DEF WorkersTooSmall
  <2> QED
    BY <2>1, <2>2, <2>4
<1>11. \A a \in Attributes \ Pointers : s[a] # 0
  BY <1>5 DEF Allowed, Attributes, Pointers
<1> QED
  BY <1>5, <1>6, <1>8, <1>9, <1>10, <1>11 DEF Sound

\* Leaving zeros out changes nothing of such sizes, whatever the row had.
LEMMA NothingLeftOut ==
  ASSUME NEW s \in Sizings, NEW old \in Sizings,
         \A a \in Attributes \ Pointers : s[a] # 0
  PROVE  Patched(old, s) = s /\ Posted(s) = s
<1>1. Patched(old, s) = s
  BY DEF Patched, Received, Sizings
<1>2. Posted(s) = s
  BY DEF Posted, Received, Sizings
<1> QED
  BY <1>1, <1>2

-----------------------------------------------------------------------------
\* An apply has a configuration that is known and was not refused; a refusal is
\* one of the configuration at hand.
Validated ==
  /\ phase # "idle" => cfg # NoConfig
  /\ phase = "apply" => cfg \in KnownConfigs /\ ~Refuses(cfg)
  /\ refused => cfg # NoConfig /\ Refuses(cfg)

IInv == TypeOK /\ Validated

\* What a step sends is sound, and the plan.
SoundStep ==
  row' \notin {row, NoSizing} =>
    /\ row' = Planned(cfg)
    /\ Sound(row')
    /\ row'["worker_nodes"] > 0 =>
         \A a \in DOMAIN WorkerFloor : cfg[a] # Null => row'[a] >= WorkerFloor[a]

LEMMA Start == Init => IInv
  BY DEF Init, IInv, TypeOK, Validated

\* A POST or a PATCH of an apply leaves the row as it is or as planned.
LEMMA Sent ==
  ASSUME IInv, phase = "apply", Post \/ Patch
  PROVE  row' \in {row, Planned(cfg)} /\ row' \in Sizings \cup {NoSizing} /\ SoundStep
<1>1. /\ Planned(cfg) \in Sizings /\ Sound(Planned(cfg)) /\ Given(cfg, Planned(cfg))
      /\ \A a \in Attributes \ Pointers : Planned(cfg)[a] # 0
  BY PlannedIsSound DEF IInv, Validated
<1>2. Posted(Planned(cfg)) = Planned(cfg)
  BY <1>1, NothingLeftOut
<1>3. row # NoSizing => Patched(row, Planned(cfg)) = Planned(cfg)
  BY <1>1, NothingLeftOut DEF IInv, TypeOK
<1>4. row' \in {row, Planned(cfg)}
  BY <1>2, <1>3 DEF Post, Patch
<1> QED
  BY <1>1, <1>4 DEF IInv, TypeOK, SoundStep, Given

\* Every step keeps the invariant and sends what is sound.
LEMMA Step == IInv /\ [Next]_vars => IInv' /\ SoundStep
<1> SUFFICES ASSUME IInv, [Next]_vars PROVE IInv' /\ SoundStep
  OBVIOUS
<1>u. CASE UNCHANGED vars
  BY <1>u DEF vars, IInv, TypeOK, Validated, SoundStep
<1>1. ASSUME NEW c \in Configurations, Configure(c) PROVE IInv' /\ SoundStep
  BY <1>1, ConstantsAssumption DEF Configure, IInv, TypeOK, Validated, SoundStep, Configs
<1>2. CASE Edit
  BY <1>2 DEF Edit, IInv, TypeOK, Validated, SoundStep
<1>3a. CASE CalmDown
  <2>1. TypeOK' /\ SoundStep
    BY <1>3a DEF CalmDown, IInv, TypeOK, SoundStep
  <2>2. Validated'
    BY <1>3a DEF CalmDown, IInv, Validated
  <2> QED
    BY <2>1, <2>2 DEF IInv
<1>3b. CASE Reap
  <2>1. TypeOK' /\ SoundStep
    BY <1>3b DEF Reap, IInv, TypeOK, SoundStep
  <2>2. Validated'
    BY <1>3b DEF Reap, IInv, Validated
  <2> QED
    BY <2>1, <2>2 DEF IInv
<1>4. CASE Crash
  BY <1>4 DEF Crash, Ends, IInv, TypeOK, Validated, SoundStep
<1>5a. CASE Refuse
  <2>1. TypeOK' /\ SoundStep
    BY <1>5a DEF Refuse, IInv, TypeOK, SoundStep
  <2>2. Validated'
    BY <1>5a DEF Refuse, IInv, Validated
  <2> QED
    BY <2>1, <2>2 DEF IInv
<1>5b. CASE Plan
  <2>1. TypeOK' /\ SoundStep
    BY <1>5b DEF Plan, IInv, TypeOK, SoundStep
  <2>2. Validated'
    BY <1>5b DEF Plan, IInv, Validated
  <2> QED
    BY <2>1, <2>2 DEF IInv
<1>6. ASSUME cfg # NoConfig, NEW r \in Resolutions(cfg), Resolve(r) PROVE IInv' /\ SoundStep
  <2>1. cfg \in Configs
    BY <1>6 DEF IInv, TypeOK
  <2>2. r \in KnownConfigs
    BY <2>1, ResolutionKnows
  <2>3. r \in Configs /\ r # NoConfig
    BY <2>2, ConstantsAssumption DEF KnownConfigs, Configs
  <2>4. Refuses(r) \in BOOLEAN
    BY DEF Refuses
  <2> QED
    BY <1>6, <2>2, <2>3, <2>4 DEF Resolve, Ends, IInv, TypeOK, Validated, SoundStep
<1>7. CASE Create \/ CreateFails
  <2>1. phase = "apply" /\ UNCHANGED <<cfg, refused, calm>> /\ (Post \/ UNCHANGED row)
    BY <1>7 DEF Create, CreateFails, Apply
  <2>2. row' \in Sizings \cup {NoSizing} /\ SoundStep
    BY <2>1, Sent DEF IInv, TypeOK, SoundStep
  <2>3. phase' = "idle" /\ seen' = NoSizing /\ held' \in {"no", "yes", "tainted"}
    BY <1>7 DEF Create, CreateFails, Ends
  <2> QED
    BY <2>1, <2>2, <2>3 DEF IInv, TypeOK, Validated
<1>8. CASE NothingToDo \/ Update \/ UpdateRefused \/ UpdateFails
  <2>1. phase = "apply" /\ UNCHANGED <<cfg, refused, calm>> /\ (Patch \/ UNCHANGED row)
    BY <1>8 DEF NothingToDo, Update, UpdateRefused, UpdateFails, Resizing, Apply
  <2>2. row' \in Sizings \cup {NoSizing} /\ SoundStep
    BY <2>1, Sent DEF IInv, TypeOK, SoundStep
  <2>3. phase' = "idle" /\ seen' = NoSizing /\ held' = "yes"
    BY <1>8 DEF NothingToDo, Update, UpdateRefused, UpdateFails, Ends
  <2> QED
    BY <2>1, <2>2, <2>3 DEF IInv, TypeOK, Validated
<1>9. CASE Delete \/ DeleteFails
  BY <1>9 DEF Delete, DeleteFails, Apply, Ends, IInv, TypeOK, Validated, SoundStep
<1> QED
  BY <1>u, <1>1, <1>2, <1>3a, <1>3b, <1>4, <1>5a, <1>5b, <1>6, <1>7, <1>8, <1>9 DEF Next, Run

LEMMA Invariant == Spec => []IInv
<1> QED
  BY Start, Step, PTL DEF Spec

\* Every reachable state is well typed, for any menu and any configurations.
THEOREM TypeCorrect == Spec => []TypeOK
<1>1. IInv => TypeOK
  BY DEF IInv
<1> QED
  BY <1>1, Invariant, PTL

\* ValidateConfig refuses no configuration that some value of its unknown
\* attributes would have made valid.
THEOREM NothingFalselyRefused == Spec => []NoFalseRefusal
<1>1. IInv => NoFalseRefusal
  <2> SUFFICES ASSUME IInv, refused, NEW r \in Resolutions(cfg) PROVE Refuses(r)
    BY DEF NoFalseRefusal
  <2> QED
    BY RefusalIsFinal DEF IInv, TypeOK, Validated
<1> QED
  BY <1>1, Invariant, PTL

LEMMA StepsAreSound == Spec => [][SoundStep]_vars
<1>1. IInv /\ [Next]_vars => [SoundStep]_vars
  BY Step
<1> QED
  BY <1>1, Invariant, PTL DEF Spec

\* No POST and no PATCH leaves a cluster outside the platform's sizing rules, or a
\* worker pool below the floor of a size that was given.
THEOREM RequestsStaySound == Spec => RequestsAreSound
<1>1. [SoundStep]_vars =>
        [row' \notin {row, NoSizing} =>
           /\ Sound(row')
           /\ row'["worker_nodes"] > 0 =>
                \A a \in DOMAIN WorkerFloor :
                  cfg[a] # Null => row'[a] >= WorkerFloor[a]]_vars
  BY DEF SoundStep
<1> QED
  BY <1>1, StepsAreSound, PTL DEF RequestsAreSound

\* No POST and no PATCH makes anything of the row but what was planned, whichever
\* zeros it leaves out: those that matter go behind a pointer, and the others are
\* not valid.
THEOREM RequestsArePlans == Spec => RequestsReachPlan
<1>1. [SoundStep]_vars => [row' \notin {row, NoSizing} => row' = Planned(cfg)]_vars
  BY DEF SoundStep
<1> QED
  BY <1>1, StepsAreSound, PTL DEF RequestsReachPlan
=============================================================================
