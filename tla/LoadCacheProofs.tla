-------------------------- MODULE LoadCacheProofs --------------------------
(***************************************************************************)
(* The load cache's guarantees for any number of calls, configurations and *)
(* evicts and any durations. The argument has three layers:                *)
(*   Shape      who holds which lock, and whose value and failure the      *)
(*              entry keeps, an inductive invariant on its own;            *)
(*   FewOffMap  the locks in use that an evict took off the map, which     *)
(*              counting needs: one for each evict that is complete;       *)
(*   the step   from Shape, for what a call may return and when one loads. *)
(***************************************************************************)
EXTENDS LoadCache, FiniteSetTheorems, FunctionTheorems, TLAPS

Holding == {"recheck", "loading"}

\* A call has a clone of the lock from GetLock until it ends, and holds it
\* from Lock on; nobody else does.
LocksConsistent ==
  /\ \A c \in Call : mutex[c] # None <=> pc[c] \in Holding \cup {"lock"}
  /\ \A c \in Call : pc[c] \in Holding => owner[mutex[c]] = c
  /\ \A m \in Call : owner[m] # None =>
       pc[owner[m]] \in Holding /\ mutex[owner[m]] = m

\* What a call's program counter says about its other variables.
PcConsistent ==
  \A c \in Call :
    /\ pc[c] # "idle" => fingerprint[c] \in Config
    /\ pc[c] # "done" => loadedAt[c] = None /\ failedAt[c] = None /\ result[c] = None

\* A returned value was loaded.
ResultsLoaded == \A c \in Call : result[c] # None => loadedAt[result[c]] # None

\* The entry's value and failure are of its own configuration.
EntryOwn ==
  entry # None =>
    /\ entry.value # None => fingerprint[entry.value] = entry.fingerprint
    /\ entry.failedAt # None =>
         \E b \in Call : /\ fingerprint[b] = entry.fingerprint
                         /\ failedAt[b] = entry.failedAt

\* The entry remembers every failure that nothing has undone.
FailuresRemembered ==
  \A b \in Call : failedAt[b] # None /\ b \notin settled =>
    /\ entry # None
    /\ entry.fingerprint = fingerprint[b]
    /\ entry.failedAt # None
    /\ failedAt[b] <= entry.failedAt

\* No load ends in the future.
Past == \A c \in Call : failedAt[c] # None => failedAt[c] <= now

Shape == /\ TypeOK
         /\ LocksConsistent
         /\ PcConsistent
         /\ ResultsLoaded
         /\ OwnConfiguration
         /\ EntryOwn
         /\ FailuresRemembered
         /\ Past

\* The locks some call has a clone of, which are not on the map (any more).
OffMap == {m \in Call : m # loading /\ \E c \in Call : mutex[c] = m}

Evicted == IF evicting THEN evicts - 1 ELSE evicts

FewOffMap == Evicted \in Nat /\ Cardinality(OffMap) <= Evicted

IInv == Shape /\ FewOffMap

----------------------------------------------------------------------------
(* What a call finds *)

\* LoadCache::state lets a call load only when there is no fresh value and no
\* recent failure of its configuration; what it serves is of its configuration.
LEMMA StateMeans ==
  ASSUME TypeOK, NEW config \in Config
  PROVE  /\ State(config) \in {"fresh", "stale", "failed", "load"}
         /\ State(config) = "load" => ~FailedRecently(Found(config))
         /\ State(config) \in {"fresh", "stale"} =>
              /\ entry # None
              /\ entry.fingerprint = config
              /\ entry.value \in Call
         /\ State(config) = "fresh" => Fresh(entry.value)
         /\ State(config) = "stale" =>
              /\ FailedRecently(entry)
              /\ UsableWhileFailing(entry.value)
<1>1. CASE Fresh(ValueOf(Found(config)))
  BY <1>1 DEF State, Fresh, Found, ValueOf, TypeOK, Entry
<1>2. CASE ~Fresh(ValueOf(Found(config))) /\ FailedRecently(Found(config))
  BY <1>2 DEF State, FailedRecently, UsableWhileFailing, Found, ValueOf, TypeOK, Entry
<1>3. CASE ~Fresh(ValueOf(Found(config))) /\ ~FailedRecently(Found(config))
  BY <1>3 DEF State
<1> QED
  BY <1>1, <1>2, <1>3

\* The value a failed load falls back on was loaded for the same configuration.
LEMMA PreviousMeans ==
  ASSUME Shape, NEW c \in Call, Previous(c) # None
  PROVE  /\ entry # None
         /\ Previous(c) = entry.value
         /\ Previous(c) \in Call
         /\ entry.fingerprint = fingerprint[c]
         /\ loadedAt[Previous(c)] # None
  BY DEF Previous, ValueOf, Found, Shape, TypeOK, Entry

----------------------------------------------------------------------------
(* Shape is inductive *)

\* An empty cache.
LEMMA ShapeInit == Init => Shape
<1> SUFFICES ASSUME Init PROVE Shape
  OBVIOUS
<1> USE DEF Init
<1>1. TypeOK
  <2>0. evicting \in BOOLEAN
    OBVIOUS
  <2>1. now \in Time /\ evicts \in 0..MaxEvicts
    BY ConstantsAssumption DEF Time
  <2>2. entry \in Entry \cup {None} /\ ValueOf(entry) = None
    BY DEF ValueOf
  <2>3. /\ owner \in [Call -> Call \cup {None}]
        /\ pc \in [Call -> PC]
        /\ fingerprint \in [Call -> Config \cup {None}]
        /\ mutex \in [Call -> Call \cup {None}]
        /\ loadedAt \in [Call -> Time \cup {None}]
        /\ failedAt \in [Call -> Time \cup {None}]
        /\ result \in [Call -> Call \cup {None}]
    BY DEF PC
  <2> QED
    BY <2>0, <2>1, <2>2, <2>3 DEF TypeOK
<1>2. LocksConsistent /\ PcConsistent
  BY DEF LocksConsistent, PcConsistent, Holding
<1>3. ResultsLoaded /\ OwnConfiguration /\ EntryOwn /\ FailuresRemembered /\ Past
  BY DEF ResultsLoaded, OwnConfiguration, EntryOwn, FailuresRemembered, Past
<1> QED
  BY <1>1, <1>2, <1>3 DEF Shape

\* A call that ends lets go of its lock, and a value it returns is one that
\* was loaded for its configuration.
LEMMA ReturnShape ==
  ASSUME Shape, NEW c \in Call, pc[c] # "done",
         NEW v \in Call \cup {None}, Return(c, v), Unlock(c),
         UNCHANGED <<cache, fingerprint, env>>,
         pc[c] # "idle",
         v # None => loadedAt[v] # None /\ fingerprint[v] = fingerprint[c]
  PROVE  Shape'
<1> USE DEF Shape, TypeOK, Return, Unlock, Goto, cache, env
<1>1. TypeOK'
  BY DEF PC, ValueOf
<1>2. LocksConsistent'
  BY ConstantsAssumption DEF LocksConsistent, Holding
<1>3. PcConsistent'
  BY DEF PcConsistent
<1>4. ResultsLoaded' /\ OwnConfiguration'
  BY DEF ResultsLoaded, OwnConfiguration
<1>5. EntryOwn' /\ FailuresRemembered' /\ Past'
  BY DEF EntryOwn, FailuresRemembered, Past
<1> QED
  BY <1>1, <1>2, <1>3, <1>4, <1>5

\* One step of the cache.
LEMMA ShapeStep == Shape /\ [Next]_vars => Shape'
<1> SUFFICES ASSUME Shape, [Next]_vars PROVE Shape'
  OBVIOUS
<1> USE DEF Shape
<1>1. ASSUME NEW c \in Call, NEW config \in Config, Begin(c, config)
      PROVE  Shape'
  <2> USE <1>1 DEF Begin, Return, Goto, env
  <2> DEFINE v == result'[c]
  <2>1. /\ result' = [result EXCEPT ![c] = v]
        /\ v \in Call \cup {None}
        /\ v # None => loadedAt[v] # None /\ fingerprint[v] = config /\ v # c
        /\ pc' = [pc EXCEPT ![c] = pc'[c]] /\ pc'[c] \in {"getLock", "done"}
        /\ pc'[c] # "done" => v = None
        /\ mutex' = mutex
        /\ UNCHANGED cache
    <3>1. CASE State(config) # "load"
      <4>1. State(config) \in {"fresh", "stale", "failed"}
        BY <3>1, StateMeans
      <4>2. CASE State(config) = "failed"
        <5>1. result' = [result EXCEPT ![c] = None] /\ pc' = [pc EXCEPT ![c] = "done"]
              /\ mutex' = [mutex EXCEPT ![c] = None]
          BY <4>2, <3>1
        <5> QED
          BY <5>1 DEF TypeOK, LocksConsistent, Holding, cache
      <4>3. CASE State(config) \in {"fresh", "stale"}
        <5>1. entry # None /\ entry.fingerprint = config /\ entry.value \in Call
          BY <4>3, StateMeans
        <5>2. loadedAt[entry.value] # None /\ fingerprint[entry.value] = config
          BY <5>1, ConstantsAssumption DEF TypeOK, ValueOf, EntryOwn
        <5>3. entry.value # c
          BY <5>2 DEF PcConsistent
        <5> QED
          BY <5>1, <5>2, <5>3, <4>3, <3>1 DEF TypeOK, LocksConsistent, Holding, cache
      <4> QED
        BY <4>1, <4>2, <4>3
    <3>2. CASE State(config) = "load"
      BY <3>2 DEF TypeOK, PcConsistent, cache
    <3> QED
      BY <3>1, <3>2
  <2> HIDE DEF v
  <2>2. TypeOK'
    BY <2>1 DEF TypeOK, PC, ValueOf, cache
  <2>3. LocksConsistent'
    BY <2>1 DEF LocksConsistent, Holding, TypeOK
  <2>4. PcConsistent'
    BY <2>1 DEF PcConsistent, TypeOK, cache
  <2>5. ResultsLoaded' /\ OwnConfiguration'
    <3>1. ResultsLoaded'
      BY <2>1 DEF ResultsLoaded, TypeOK, cache
    <3>2. \A b \in Call : result[b] # None => result[b] # c
      BY DEF ResultsLoaded, PcConsistent, TypeOK
    <3>3. \A b \in Call : result[b] # None => b # c
      BY DEF PcConsistent, TypeOK
    <3>4. OwnConfiguration'
      BY <2>1, <3>2, <3>3 DEF OwnConfiguration, TypeOK, cache
    <3> QED
      BY <3>1, <3>4
  <2>6. EntryOwn' /\ FailuresRemembered' /\ Past'
    <3>1. \A b \in Call : failedAt[b] # None => b # c
      BY DEF PcConsistent
    <3>2. entry # None /\ entry.value # None => entry.value # c
      BY DEF PcConsistent, TypeOK, ValueOf
    <3>3. EntryOwn'
      BY <2>1, <3>1, <3>2, ConstantsAssumption DEF EntryOwn, TypeOK, Entry, cache
    <3>4. FailuresRemembered' /\ Past'
      BY <2>1, <3>1 DEF FailuresRemembered, Past, TypeOK, cache
    <3> QED
      BY <3>3, <3>4
  <2> QED
    BY <2>2, <2>3, <2>4, <2>5, <2>6
<1>2. ASSUME NEW c \in Call, GetLock(c)
      PROVE  Shape'
  <2> USE <1>2 DEF GetLock, Goto, env
  <2>1. TypeOK'
    BY DEF TypeOK, PC, ValueOf
  <2>2. LocksConsistent'
    BY ConstantsAssumption DEF LocksConsistent, Holding, TypeOK
  <2>3. PcConsistent'
    BY DEF PcConsistent, TypeOK
  <2>4. ResultsLoaded' /\ OwnConfiguration' /\ EntryOwn' /\ FailuresRemembered' /\ Past'
    BY DEF ResultsLoaded, OwnConfiguration, EntryOwn, FailuresRemembered, Past
  <2> QED
    BY <2>1, <2>2, <2>3, <2>4
<1>3. ASSUME NEW c \in Call, Lock(c)
      PROVE  Shape'
  <2> USE <1>3 DEF Lock, Goto, env, cache
  <2>0. mutex[c] \in Call
    BY DEF LocksConsistent, TypeOK
  <2>1. TypeOK'
    BY <2>0 DEF TypeOK, PC, ValueOf
  <2>2. LocksConsistent'
    BY <2>0, ConstantsAssumption DEF LocksConsistent, Holding, TypeOK
  <2>3. PcConsistent'
    BY DEF PcConsistent, TypeOK
  <2>4. ResultsLoaded' /\ OwnConfiguration' /\ EntryOwn' /\ FailuresRemembered' /\ Past'
    BY DEF ResultsLoaded, OwnConfiguration, EntryOwn, FailuresRemembered, Past
  <2> QED
    BY <2>1, <2>2, <2>3, <2>4
<1>4. ASSUME NEW c \in Call, Recheck(c)
      PROVE  Shape'
  <2> DEFINE found == State(fingerprint[c])
  <2>1. pc[c] = "recheck" /\ fingerprint[c] \in Config
    BY <1>4 DEF Recheck, PcConsistent
  <2>2. CASE found = "load"
    <3> USE <2>1, <2>2, <1>4 DEF Recheck, Goto, env, cache
    <3>1. TypeOK'
      BY DEF TypeOK, PC, ValueOf
    <3>2. LocksConsistent'
      BY DEF LocksConsistent, Holding, TypeOK
    <3>3. PcConsistent'
      BY DEF PcConsistent, TypeOK
    <3>4. ResultsLoaded' /\ OwnConfiguration' /\ EntryOwn' /\ FailuresRemembered' /\ Past'
      BY DEF ResultsLoaded, OwnConfiguration, EntryOwn, FailuresRemembered, Past
    <3> QED
      BY <3>1, <3>2, <3>3, <3>4
  <2>3. CASE found # "load"
    <3> DEFINE v == IF found = "failed" THEN None ELSE entry.value
    <3>1. Return(c, v) /\ Unlock(c) /\ UNCHANGED <<cache, fingerprint, env>>
      BY <2>3, <1>4 DEF Recheck
    <3>2. v # None =>
            v \in Call /\ loadedAt[v] # None /\ fingerprint[v] = fingerprint[c]
      <4>1. CASE found = "failed"
        BY <4>1
      <4>2. CASE found \in {"fresh", "stale"}
        <5>1. entry # None /\ entry.fingerprint = fingerprint[c] /\ entry.value \in Call
          BY <4>2, <2>1, StateMeans
        <5> QED
          BY <5>1, ConstantsAssumption DEF TypeOK, ValueOf, EntryOwn
      <4> QED
        BY <4>1, <4>2, <2>1, <2>3, StateMeans
    <3> HIDE DEF v
    <3> QED
      BY <2>1, <3>1, <3>2, ReturnShape
  <2> QED
    BY <2>2, <2>3
<1>5. ASSUME NEW c \in Call, Loaded(c)
      PROVE  Shape'
  <2> USE <1>5 DEF Loaded, Return, Unlock, Goto, env
  <2>0. fingerprint[c] \in Config /\ loadedAt[c] = None
    BY DEF PcConsistent
  <2>e. /\ entry' \in Entry
        /\ entry'.value = c
        /\ now # None /\ c # None
    BY <2>0, ConstantsAssumption DEF Entry, TypeOK, Time
  <2>1. TypeOK'
    BY <2>0, <2>e DEF TypeOK, PC, ValueOf, Failures
  <2>2. LocksConsistent'
    BY ConstantsAssumption DEF LocksConsistent, Holding, TypeOK
  <2>3. PcConsistent'
    BY DEF PcConsistent, TypeOK
  <2>4. ResultsLoaded' /\ OwnConfiguration'
    BY ConstantsAssumption DEF ResultsLoaded, OwnConfiguration, TypeOK, Time
  <2>5. EntryOwn' /\ FailuresRemembered' /\ Past'
    BY DEF EntryOwn, FailuresRemembered, Past, Failures
  <2> QED
    BY <2>1, <2>2, <2>3, <2>4, <2>5
<1>6. ASSUME NEW c \in Call, LoadFailed(c)
      PROVE  Shape'
  <2> USE <1>6 DEF LoadFailed, Return, Unlock, Goto, env
  <2>0. /\ fingerprint[c] \in Config /\ failedAt[c] = None /\ loadedAt[c] = None
        /\ result[c] = None
    BY DEF PcConsistent
  <2>p. Previous(c) \in Call \cup {None}
    BY PreviousMeans
  <2>e. /\ entry' \in Entry
        /\ entry'.fingerprint = fingerprint[c]
        /\ entry'.value = Previous(c)
        /\ entry'.failedAt = now
        /\ now # None /\ entry' # None
    BY <2>0, <2>p, ConstantsAssumption, NoneIsNoEntry DEF FailedEntry, Entry, TypeOK, Time
  <2>1. TypeOK'
    BY <2>0, <2>p, <2>e, PreviousMeans DEF TypeOK, PC, ValueOf, Failures
  <2>2. LocksConsistent'
    BY ConstantsAssumption DEF LocksConsistent, Holding, TypeOK
  <2>3. PcConsistent'
    BY DEF PcConsistent, TypeOK
  <2>4. ResultsLoaded' /\ OwnConfiguration'
    <3>1. Previous(c) # None => /\ loadedAt[Previous(c)] # None
                                /\ fingerprint[Previous(c)] = fingerprint[c]
      BY PreviousMeans DEF EntryOwn
    <3> QED
      BY <2>p, <3>1 DEF ResultsLoaded, OwnConfiguration, TypeOK
  <2>5. EntryOwn'
    <3>1. Previous(c) # None => fingerprint[Previous(c)] = fingerprint[c]
      BY PreviousMeans DEF EntryOwn
    <3>2. failedAt'[c] = now
      BY DEF TypeOK
    <3> QED
      BY <2>e, <3>1, <3>2 DEF EntryOwn
  <2>6. FailuresRemembered'
    <3> SUFFICES ASSUME NEW b \in Call, failedAt'[b] # None, b \notin settled'
                 PROVE  /\ entry'.fingerprint = fingerprint[b]
                        /\ failedAt'[b] <= entry'.failedAt
      BY <2>e DEF FailuresRemembered
    <3>1. CASE b = c
      BY <3>1, <2>e DEF TypeOK, Time
    <3>2. CASE b # c
      <4>1. failedAt'[b] = failedAt[b] /\ failedAt[b] # None
        BY <3>2 DEF TypeOK
      <4>2. Found(fingerprint[c]) # None /\ b \notin settled
        BY <4>1 DEF Failures
      <4>3. entry # None /\ entry.fingerprint = fingerprint[c]
        BY <4>2 DEF Found
      <4>4. entry.fingerprint = fingerprint[b] /\ failedAt[b] <= now
        BY <4>1, <4>2 DEF FailuresRemembered, Past
      <4> QED
        BY <4>1, <4>3, <4>4, <2>e
    <3> QED
      BY <3>1, <3>2
  <2>7. Past'
    BY DEF Past, TypeOK, Time
  <2> QED
    BY <2>1, <2>2, <2>3, <2>4, <2>5, <2>6, <2>7
<1>7. ASSUME NEW c \in Call, Cancel(c)
      PROVE  Shape'
  <2>1. pc[c] \notin {"idle", "done"} /\ Return(c, None) /\ Unlock(c)
        /\ UNCHANGED <<cache, fingerprint, env>>
    BY <1>7 DEF Cancel
  <2> QED
    BY <2>1, ReturnShape
<1>8. ASSUME EvictEntry
      PROVE  Shape'
  <2> USE <1>8 DEF EvictEntry, calls
  <2>1. TypeOK'
    BY ConstantsAssumption DEF TypeOK, ValueOf, Failures
  <2>2. LocksConsistent' /\ PcConsistent'
    BY DEF LocksConsistent, PcConsistent
  <2>3. ResultsLoaded' /\ OwnConfiguration' /\ EntryOwn' /\ FailuresRemembered' /\ Past'
    BY DEF ResultsLoaded, OwnConfiguration, EntryOwn, FailuresRemembered, Past, Failures
  <2> QED
    BY <2>1, <2>2, <2>3
<1>9. ASSUME EvictLock
      PROVE  Shape'
  <2> USE <1>9 DEF EvictLock, calls
  <2>1. TypeOK'
    BY DEF TypeOK, ValueOf
  <2>2. LocksConsistent' /\ PcConsistent'
    BY DEF LocksConsistent, PcConsistent
  <2>3. ResultsLoaded' /\ OwnConfiguration' /\ EntryOwn' /\ FailuresRemembered' /\ Past'
    BY DEF ResultsLoaded, OwnConfiguration, EntryOwn, FailuresRemembered, Past
  <2> QED
    BY <2>1, <2>2, <2>3
<1>10. ASSUME Tick
       PROVE  Shape'
  <2> USE <1>10 DEF Tick, calls, cache
  <2>1. TypeOK'
    BY ConstantsAssumption DEF TypeOK, ValueOf, Time
  <2>2. LocksConsistent' /\ PcConsistent'
    BY DEF LocksConsistent, PcConsistent
  <2>3. ResultsLoaded' /\ OwnConfiguration' /\ EntryOwn' /\ FailuresRemembered'
    BY DEF ResultsLoaded, OwnConfiguration, EntryOwn, FailuresRemembered
  <2>4. Past'
    BY ConstantsAssumption DEF Past, TypeOK, Time
  <2> QED
    BY <2>1, <2>2, <2>3, <2>4
<1>11. ASSUME UNCHANGED vars
       PROVE  Shape'
  BY <1>11 DEF vars, cache, calls, env, TypeOK, ValueOf, LocksConsistent, PcConsistent,
       ResultsLoaded, OwnConfiguration, EntryOwn, FailuresRemembered, Past
<1> QED
  BY <1>1, <1>2, <1>3, <1>4, <1>5, <1>6, <1>7, <1>8, <1>9, <1>10, <1>11 DEF Next, Step

----------------------------------------------------------------------------
(* How many load at once *)

\* No lock is in use before the first call.
LEMMA FewOffMapInit == Init => FewOffMap
<1> SUFFICES ASSUME Init PROVE FewOffMap
  OBVIOUS
<1>1. OffMap = {}
  BY ConstantsAssumption DEF Init, OffMap
<1> QED
  BY <1>1, FS_EmptySet DEF Init, FewOffMap, Evicted

\* A lock leaves the map only as an evict ends, and a lock that is off the map
\* is given to nobody.
LEMMA FewOffMapStep == Shape /\ Shape' /\ FewOffMap /\ [Next]_vars => FewOffMap'
<1> SUFFICES ASSUME Shape, Shape', FewOffMap, [Next]_vars PROVE FewOffMap'
  OBVIOUS
<1> USE DEF Shape, TypeOK
<1>1. IsFiniteSet(OffMap) /\ Cardinality(OffMap) \in Nat
  <2>1. OffMap \in SUBSET Call
    BY DEF OffMap
  <2> QED
    BY <2>1, ConstantsAssumption, FS_Subset, FS_CardinalityType
<1>2. ASSUME OffMap' \subseteq OffMap, Evicted' = Evicted
      PROVE  FewOffMap'
  <2>1. IsFiniteSet(OffMap') /\ Cardinality(OffMap') <= Cardinality(OffMap)
        /\ Cardinality(OffMap') \in Nat
    BY <1>1, <1>2, FS_Subset, FS_CardinalityType
  <2> QED
    BY <1>1, <1>2, <2>1 DEF FewOffMap
<1>3. ASSUME NEW c \in Call, GetLock(c)
      PROVE  FewOffMap'
  <2>1. OffMap' \subseteq OffMap
    BY <1>3, ConstantsAssumption DEF GetLock, OffMap
  <2> QED
    BY <1>2, <1>3, <2>1 DEF GetLock, env, Evicted
<1>4. ASSUME loading' = loading, UNCHANGED <<evicts, evicting>>,
             \A c \in Call : mutex'[c] \in {mutex[c], None}
      PROVE  FewOffMap'
  <2>1. OffMap' \subseteq OffMap
    BY <1>4, ConstantsAssumption DEF OffMap
  <2> QED
    BY <1>2, <1>4, <2>1 DEF Evicted
<1>5. ASSUME NEW c \in Call, \/ \E config \in Config : Begin(c, config)
                             \/ Lock(c) \/ Recheck(c) \/ Loaded(c)
                             \/ LoadFailed(c) \/ Cancel(c)
      PROVE  FewOffMap'
  <2>1. loading' = loading /\ UNCHANGED <<evicts, evicting>>
    BY <1>5 DEF Begin, Lock, Recheck, Loaded, LoadFailed, Cancel, cache, env
  <2>2. mutex' = mutex \/ mutex' = [mutex EXCEPT ![c] = None]
    BY <1>5 DEF Begin, Lock, Recheck, Loaded, LoadFailed, Cancel, Return
  <2>3. \A b \in Call : mutex'[b] \in {mutex[b], None}
    BY <2>2
  <2> QED
    BY <2>1, <2>3, <1>4
<1>6. ASSUME EvictEntry
      PROVE  FewOffMap'
  <2>1. OffMap' = OffMap
    BY <1>6 DEF EvictEntry, calls, OffMap
  <2>2. evicting = FALSE /\ evicting' = TRUE /\ evicts' = evicts + 1
    BY <1>6 DEF EvictEntry
  <2>3. Evicted' = Evicted
    BY <2>2, ConstantsAssumption DEF Evicted
  <2> QED
    BY <1>2, <2>1, <2>3
<1>7. ASSUME EvictLock
      PROVE  FewOffMap'
  <2>1. OffMap' \subseteq OffMap \cup {loading}
    BY <1>7 DEF EvictLock, calls, OffMap
  <2>2. evicting = TRUE /\ evicting' = FALSE /\ evicts' = evicts
    BY <1>7 DEF EvictLock
  <2>3. Evicted' = Evicted + 1
    BY <2>2, ConstantsAssumption DEF Evicted
  <2>4. /\ IsFiniteSet(OffMap \cup {loading})
        /\ Cardinality(OffMap \cup {loading}) <= Cardinality(OffMap) + 1
        /\ Cardinality(OffMap \cup {loading}) \in Nat
    <3> DEFINE T == OffMap \cup {loading}
    <3>1. /\ IsFiniteSet(T)
          /\ Cardinality(T) = IF loading \in OffMap THEN Cardinality(OffMap)
                                                   ELSE Cardinality(OffMap) + 1
      BY <1>1, FS_AddElement
    <3>2. Cardinality(T) <= Cardinality(OffMap) + 1
      <4> HIDE DEF T
      <4> QED
        BY <1>1, <3>1
    <3> QED
      BY <3>1, <3>2, FS_CardinalityType
  <2>5. /\ Cardinality(OffMap') <= Cardinality(OffMap \cup {loading})
        /\ Cardinality(OffMap') \in Nat
    BY <2>1, <2>4, FS_Subset, FS_CardinalityType
  <2> QED
    BY <1>1, <2>3, <2>4, <2>5 DEF FewOffMap
<1>8. ASSUME Tick \/ UNCHANGED vars
      PROVE  FewOffMap'
  BY <1>8, <1>4 DEF Tick, vars, cache, calls, env
<1> QED
  BY <1>3, <1>5, <1>6, <1>7, <1>8 DEF Next, Step

\* Loads behind different locks are as many as the locks: the one on the map
\* and those off it.
LEMMA LoadsCounted == IInv => LoadsAreShared
<1> SUFFICES ASSUME IInv PROVE LoadsAreShared
  OBVIOUS
<1> USE DEF IInv, Shape, TypeOK
<1>1. \A c \in Loading : mutex[c] \in Call /\ owner[mutex[c]] = c
  BY DEF Loading, LocksConsistent, Holding
<1>2. \A b, c \in Loading : mutex[b] = mutex[c] => b = c
  BY <1>1
<1>3. Cardinality(Loading) <= 1 + evicts
  <2> DEFINE f == [c \in Loading |-> mutex[c]]
             T == OffMap \cup {loading}
  <2>1. f \in Injection(Loading, T)
    <3>1. f \in [Loading -> T]
      BY <1>1 DEF OffMap, Loading
    <3>2. \A b, c \in Loading : f[b] = f[c] => b = c
      BY <1>2
    <3> HIDE DEF f, T
    <3> QED
      BY <3>1, <3>2, Fun_IsInj
  <2>2. IsFiniteSet(OffMap)
    <3>1. OffMap \in SUBSET Call
      BY DEF OffMap
    <3> QED
      BY <3>1, ConstantsAssumption, FS_Subset
  <2>3. /\ IsFiniteSet(T)
        /\ Cardinality(T) <= Cardinality(OffMap) + 1
        /\ Cardinality(T) \in Nat /\ Cardinality(OffMap) \in Nat
    <3>1. /\ IsFiniteSet(T)
          /\ Cardinality(T) = IF loading \in OffMap THEN Cardinality(OffMap)
                                                   ELSE Cardinality(OffMap) + 1
      BY <2>2, FS_AddElement
    <3> HIDE DEF T
    <3> QED
      BY <2>2, <3>1, FS_CardinalityType
  <2> HIDE DEF f, T
  <2>4. IsFiniteSet(Loading) /\ Cardinality(Loading) <= Cardinality(T)
    BY <2>1, <2>3, FS_Injection
  <2>5. Cardinality(Loading) \in Nat
    BY <2>4, FS_CardinalityType
  <2>6. Evicted \in Nat /\ Evicted <= evicts /\ evicts \in Nat
    BY ConstantsAssumption DEF FewOffMap, Evicted
  <2> QED
    BY <2>3, <2>4, <2>5, <2>6 DEF FewOffMap
<1> QED
  BY <1>2, <1>3 DEF LoadsAreShared

----------------------------------------------------------------------------
(* Theorems *)

LEMMA Invariance == Spec => []IInv
<1>1. Init => IInv
  BY ShapeInit, FewOffMapInit DEF IInv
<1>2. IInv /\ [Next]_vars => IInv'
  BY ShapeStep, FewOffMapStep DEF IInv
<1> QED
  BY <1>1, <1>2, PTL DEF Spec

\* However calls interleave, are dropped and overtaken by evicts, the entry is
\* well formed, one call at a time loads behind a lock, and as many calls load
\* at once as there were evicts and one: LoadCache::load shares its loads.
THEOREM Consistency == Spec => []CacheConsistent
<1>1. IInv => CacheConsistent
  BY LoadsCounted DEF IInv, Shape, CacheConsistent
<1> QED
  BY <1>1, Invariance, PTL

\* No call of LoadCache::load returns a value that was loaded for another
\* configuration, even when the entry was replaced while it waited.
THEOREM OwnConfigurationOnly == Spec => []OwnConfiguration
<1>1. IInv => OwnConfiguration
  BY DEF IInv, Shape
<1> QED
  BY <1>1, Invariance, PTL

\* A stale value is served in an outage only, and for a bounded time.
LEMMA StaleStep == Shape /\ [Next]_vars => StaleOnlyInOutage
<1> SUFFICES ASSUME Shape, [Next]_vars, NEW c \in Call,
                    pc[c] # "done", result'[c] \notin {None, c},
                    now - loadedAt[result'[c]] >= ValidFor
             PROVE  /\ now - loadedAt[result'[c]] < ValidFor + MaxStale
                    /\ \E b \in Call : /\ fingerprint[b] = fingerprint'[c]
                                       /\ failedAt'[b] # None
                                       /\ b = c \/ now - failedAt'[b] < Retry
  BY DEF StaleOnlyInOutage
<1> USE DEF Shape, TypeOK
<1>1. result[c] = None
  BY DEF PcConsistent
<1>2. ASSUME NEW config \in Config, State(config) # "load",
             result'[c] = IF State(config) = "failed" THEN None ELSE entry.value,
             fingerprint'[c] = config, failedAt' = failedAt
      PROVE  /\ now - loadedAt[result'[c]] < ValidFor + MaxStale
             /\ \E b \in Call : /\ fingerprint[b] = fingerprint'[c]
                                /\ failedAt'[b] # None
                                /\ now - failedAt'[b] < Retry
  <2>1. /\ State(config) \in {"fresh", "stale"}
        /\ result'[c] = entry.value
    BY <1>2, StateMeans
  <2>2. /\ entry # None /\ entry.fingerprint = config /\ entry.value \in Call
        /\ State(config) = "fresh" => Fresh(entry.value)
    BY <2>1, <1>2, StateMeans
  <2>f. loadedAt[entry.value] \in Int /\ now \in Int
    BY <2>2, ConstantsAssumption DEF ValueOf, Time
  <2>g. ~Fresh(entry.value)
    BY <2>1, <2>f, ConstantsAssumption DEF Fresh
  <2>3. FailedRecently(entry) /\ UsableWhileFailing(entry.value)
    BY <2>1, <2>2, <2>g, <1>2, StateMeans
  <2>4. PICK b \in Call : fingerprint[b] = config /\ failedAt[b] = entry.failedAt
    BY <2>2, <2>3 DEF EntryOwn, FailedRecently
  <2> QED
    BY <2>1, <2>3, <2>4, <1>2 DEF FailedRecently, UsableWhileFailing
<1>3. ASSUME NEW d \in Call, NEW config \in Config, Begin(d, config)
      PROVE  d = c /\ State(config) # "load"
             /\ result'[c] = (IF State(config) = "failed" THEN None ELSE entry.value)
             /\ fingerprint'[c] = config /\ failedAt' = failedAt
  BY <1>1, <1>3 DEF Begin, Return
<1>4. ASSUME NEW d \in Call, Recheck(d)
      PROVE  /\ d = c /\ fingerprint[c] \in Config /\ State(fingerprint[c]) # "load"
             /\ result'[c] = (IF State(fingerprint[c]) = "failed"
                               THEN None ELSE entry.value)
             /\ fingerprint' = fingerprint /\ failedAt' = failedAt
  BY <1>1, <1>4 DEF Recheck, Return, PcConsistent, cache
<1>5. ASSUME NEW d \in Call, LoadFailed(d)
      PROVE  /\ now - loadedAt[result'[c]] < ValidFor + MaxStale
             /\ fingerprint[c] = fingerprint'[c] /\ failedAt'[c] # None
  BY <1>1, <1>5, ConstantsAssumption
     DEF LoadFailed, Return, UsableWhileFailing, Time
<1>6. ASSUME NEW d \in Call, GetLock(d) \/ Lock(d) \/ Loaded(d) \/ Cancel(d)
      PROVE  FALSE
  BY <1>1, <1>6 DEF GetLock, Lock, Loaded, Cancel, Return
<1>7. ASSUME EvictEntry \/ EvictLock \/ Tick \/ UNCHANGED vars
      PROVE  FALSE
  BY <1>1, <1>7 DEF EvictEntry, EvictLock, Tick, vars, calls
<1> QED
  BY <1>2, <1>3, <1>4, <1>5, <1>6, <1>7 DEF Next, Step

\* A load begins only where LoadCache::state saw no recent failure, and the
\* entry remembers each one that still counts.
LEMMA LeftAloneStep == Shape /\ [Next]_vars => SourceLeftAlone
<1> SUFFICES ASSUME Shape, [Next]_vars, NEW b \in Call, NEW c \in Call,
                    pc[c] # "loading", pc'[c] = "loading",
                    fingerprint[b] = fingerprint[c],
                    failedAt[b] # None, b \notin settled
             PROVE  now - failedAt[b] >= Retry
  BY DEF SourceLeftAlone
<1> USE DEF Shape, TypeOK
<1>1. Recheck(c) /\ State(fingerprint[c]) = "load" /\ pc[c] = "recheck"
  <2>1. ASSUME NEW d \in Call, Recheck(d)
        PROVE  d = c /\ State(fingerprint[c]) = "load" /\ pc[c] = "recheck"
    BY <2>1 DEF Recheck, Return, Goto
  <2>2. ASSUME NEW d \in Call, \/ \E config \in Config : Begin(d, config)
                               \/ GetLock(d) \/ Lock(d) \/ Loaded(d)
                               \/ LoadFailed(d) \/ Cancel(d)
        PROVE  FALSE
    BY <2>2 DEF Begin, GetLock, Lock, Loaded, LoadFailed, Cancel, Return, Goto
  <2>3. ASSUME EvictEntry \/ EvictLock \/ Tick \/ UNCHANGED vars
        PROVE  FALSE
    BY <2>3 DEF EvictEntry, EvictLock, Tick, vars, calls
  <2> QED
    BY <2>1, <2>2, <2>3 DEF Next, Step
<1>2. fingerprint[c] \in Config
  BY <1>1 DEF PcConsistent
<1>3. ~FailedRecently(Found(fingerprint[c]))
  BY <1>1, <1>2, StateMeans
<1>4. /\ entry # None /\ entry.fingerprint = fingerprint[c]
      /\ entry.failedAt # None /\ failedAt[b] <= entry.failedAt
  BY DEF FailuresRemembered
<1>5. entry.failedAt \in Int /\ failedAt[b] \in Int
  BY <1>4, ConstantsAssumption DEF Entry, Time
<1>6. now - entry.failedAt >= Retry
  BY <1>3, <1>4, <1>5, ConstantsAssumption DEF FailedRecently, Found, Time
<1> QED
  BY <1>4, <1>5, <1>6, ConstantsAssumption DEF Time

\* While loads fail, LoadCache::load serves the old value for at most
\* MAX_STALE_AGE past its time and only because of a recent failure of its
\* own configuration, and leaves the source alone for
\* RETRY_FAILED_LOAD_AFTER after each failure, for any interleaving of calls,
\* evicts and the clock.
THEOREM OutageBounded == Spec => SourceOutage
<1>1. IInv /\ [Next]_vars => [StaleOnlyInOutage /\ SourceLeftAlone]_vars
  BY StaleStep, LeftAloneStep DEF IInv
<1> QED
  BY <1>1, Invariance, PTL DEF Spec, SourceOutage
=============================================================================
