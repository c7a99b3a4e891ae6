---------------------------- MODULE CachesProofs ----------------------------
(***************************************************************************)
(* Proofs about two helpers that requests share, for any number of them:   *)
(* the handles of TimeoutCache, and the permits of the bcrypt pool.        *)
(*                                                                         *)
(* A caller of TimeoutCache is alone because all callers of a key hold one *)
(* entry: entries that are held stay on the map (HandlesMapped), keys do   *)
(* not share one (OneEntryEach), and the lock of an entry says who is past *)
(* it (LockedByHolder). It is not too soon because the map has the time of *)
(* the last action, or that is longer ago than anybody reuses (TimesKept). *)
(***************************************************************************)
EXTENDS HandleCache, BcryptPool, FiniteSetTheorems, TLAPS

----------------------------------------------------------------------------
(* TimeoutCache: an entry for every key *)

PastLock == {"run", "reuse"}

CacheTypes ==
  /\ cached \in [Key -> CachedEntry \cup {Nothing}]
  /\ lastTs \in [CachedEntry -> Nat]
  /\ lockedBy \in [CachedEntry -> Caller \cup {Nothing}]
  /\ handle \in [Caller -> CachedEntry \cup {Nothing}]
  /\ DOMAIN doing = Caller
  /\ \A c \in Caller : \/ doing[c] = NotCalling
                       \/ doing[c] \in [step : {"lock"} \cup PastLock, key : Key]
  /\ minute \in Nat \ {0}
  /\ lastDone \in [Key -> Nat]

OneEntryEach ==
  \A k, l \in Key : cached[k] # Nothing /\ cached[k] = cached[l] => k = l

\* A caller has a handle from get_lock until it is dropped, of its key's entry.
HandlesMapped ==
  \A c \in Caller : IF doing[c] = NotCalling THEN handle[c] = Nothing
                    ELSE handle[c] # Nothing /\ cached[doing[c].key] = handle[c]

LockedByHolder ==
  /\ \A c \in Caller : doing[c].step \in PastLock => lockedBy[handle[c]] = c
  /\ \A e \in CachedEntry : lockedBy[e] # Nothing =>
       doing[lockedBy[e]].step \in PastLock /\ handle[lockedBy[e]] = e

TimesKept ==
  \A k \in Key : \/ lastDone[k] = Never
                 \/ cached[k] # Nothing /\ lastTs[cached[k]] = lastDone[k]
                 \/ minute - lastDone[k] >= Reuse

HandlesInv == CacheTypes /\ OneEntryEach /\ HandlesMapped /\ LockedByHolder /\ TimesKept

\* There is always an entry nobody has.
LEMMA EntryLeft ==
  ASSUME CacheTypes, NEW c \in Caller, NEW k \in Key, cached[k] = Nothing, handle[c] = Nothing
  PROVE  /\ UnusedEntry \in CachedEntry /\ ~InMap(UnusedEntry)
         /\ ~\E d \in Caller : handle[d] = UnusedEntry
<1> USE CallersAssumption
<1> DEFINE Keys == Key \ {k}
           Others == Caller \ {c}
           mapped == {cached[l] : l \in Keys}
           held == {handle[d] : d \in Others}
           n == Cardinality(Caller)
           m == Cardinality(Key)
<1>1. /\ IsFiniteSet(Keys) /\ Cardinality(Keys) = m - 1
      /\ IsFiniteSet(Others) /\ Cardinality(Others) = n - 1
      /\ m \in Nat /\ n \in Nat
  BY FS_RemoveElement, FS_CardinalityType
<1>2. /\ IsFiniteSet(mapped) /\ Cardinality(mapped) <= m - 1
      /\ IsFiniteSet(held) /\ Cardinality(held) <= n - 1
  <2>1. IsFiniteSet(mapped) /\ Cardinality(mapped) <= Cardinality(Keys)
    <3> DEFINE f == [l \in Keys |-> cached[l]]
    <3>1. f \in Surjection(Keys, mapped)
      BY DEF Surjection
    <3> QED BY <1>1, <3>1, FS_Surjection
  <2>2. IsFiniteSet(held) /\ Cardinality(held) <= Cardinality(Others)
    <3> DEFINE f == [d \in Others |-> handle[d]]
    <3>1. f \in Surjection(Others, held)
      BY DEF Surjection
    <3> QED BY <1>1, <3>1, FS_Surjection
  <2> QED BY <1>1, <2>1, <2>2
<1>3. \E e \in CachedEntry : e \notin mapped /\ e \notin held
  <2>1. IsFiniteSet(CachedEntry) /\ Cardinality(CachedEntry) = n + m
    <3>1. PICK b \in Nat : b = n + m
      BY <1>1
    <3>2. IsFiniteSet(1..b) /\ Cardinality(1..b) = IF 1 > b THEN 0 ELSE b - 1 + 1
      <4>1. 1 \in Int /\ b \in Int
        OBVIOUS
      <4> QED BY <4>1, FS_Interval, Zenon
    <3> QED BY <3>1, <3>2 DEF CachedEntry
  <2>2. /\ IsFiniteSet(mapped \cup held) /\ Cardinality(mapped \cup held) \in Nat
        /\ Cardinality(mapped \cup held) <= Cardinality(mapped) + Cardinality(held)
        /\ Cardinality(mapped) \in Nat /\ Cardinality(held) \in Nat
    <3> HIDE DEF mapped, held
    <3>1. /\ IsFiniteSet(mapped \cup held)
          /\ Cardinality(mapped \cup held) =
               Cardinality(mapped) + Cardinality(held) - Cardinality(mapped \cap held)
      BY <1>2, FS_Union
    <3>2. IsFiniteSet(mapped \cap held)
      BY <1>2, FS_Intersection
    <3>3. /\ Cardinality(mapped \cup held) \in Nat /\ Cardinality(mapped \cap held) \in Nat
          /\ Cardinality(mapped) \in Nat /\ Cardinality(held) \in Nat
      BY <1>2, <3>1, <3>2, FS_CardinalityType
    <3> QED BY <3>1, <3>3
  <2>3. ~(CachedEntry \subseteq mapped \cup held)
    <3> SUFFICES ASSUME CachedEntry \subseteq mapped \cup held PROVE FALSE
      OBVIOUS
    <3>1. Cardinality(CachedEntry) <= Cardinality(mapped \cup held)
      BY <2>2, FS_Subset
    <3> QED BY <1>1, <1>2, <2>1, <2>2, <3>1
  <2> QED BY <2>3
<1>4. \E e \in CachedEntry : ~InMap(e) /\ ~\E d \in Caller : handle[d] = e
  <2>1. PICK e \in CachedEntry : e \notin mapped /\ e \notin held
    BY <1>3
  <2>2. e # Nothing
    BY <1>1 DEF CachedEntry, Nothing
  <2> QED BY <2>1, <2>2 DEF InMap
<1> QED BY <1>4 DEF UnusedEntry

----------------------------------------------------------------------------
(* TimeoutCache: its steps *)

LEMMA CallerSteps ==
  ASSUME CacheTypes, NEW c \in Caller, doing[c].step \in {"lock"} \cup PastLock
  PROVE  doing[c] # NotCalling /\ doing[c].key \in Key
         /\ doing[c] \in [step : {"lock"} \cup PastLock, key : Key]
BY DEF CacheTypes, NotCalling, PastLock

LEMMA GetHandleKeeps ==
  ASSUME HandlesInv, NEW c \in Caller, NEW k \in Key, GetHandle(c, k)
  PROVE  HandlesInv'
<1>0. /\ CacheTypes /\ OneEntryEach /\ HandlesMapped /\ LockedByHolder /\ TimesKept
      /\ doing[c] = NotCalling /\ handle[c] = Nothing
      /\ UNCHANGED <<lockedBy, minute, lastDone>>
  BY DEF HandlesInv, HandlesMapped, GetHandle
<1>1. PICK e : e = IF cached[k] = Nothing THEN UnusedEntry ELSE cached[k]
  OBVIOUS
<1>2. /\ cached' = [cached EXCEPT ![k] = e]
      /\ lastTs' = IF cached[k] = Nothing THEN [lastTs EXCEPT ![e] = Never] ELSE lastTs
      /\ handle' = [handle EXCEPT ![c] = e]
      /\ doing' = [doing EXCEPT ![c] = [step |-> "lock", key |-> k]]
  BY <1>1 DEF GetHandle
<1>3. /\ e \in CachedEntry /\ e # Nothing
      /\ cached[k] # e => /\ cached[k] = Nothing
                          /\ \A l \in Key : cached[l] # e
                          /\ \A d \in Caller : handle[d] # e
  <2>1. CASE cached[k] = Nothing
    <3>1. e = UnusedEntry
      BY <1>1, <2>1
    <3>2. e \in CachedEntry /\ ~InMap(e) /\ ~\E d \in Caller : handle[d] = e
      BY <1>0, <2>1, <3>1, EntryLeft
    <3>3. e # Nothing
      BY <3>2, FS_CardinalityType, CallersAssumption DEF CachedEntry, Nothing
    <3> QED BY <2>1, <3>2, <3>3 DEF InMap
  <2>2. CASE cached[k] # Nothing
    BY <1>0, <1>1, <2>2 DEF CacheTypes
  <2> QED BY <2>1, <2>2
<1>4. /\ doing'[c] \in [step : {"lock"} \cup PastLock, key : Key]
      /\ doing'[c] # NotCalling /\ doing'[c].step = "lock" /\ doing'[c].key = k
      /\ \A d \in Caller : d # c => doing'[d] = doing[d] /\ handle'[d] = handle[d]
      /\ handle'[c] = e /\ cached'[k] = e
      /\ \A l \in Key : l # k => cached'[l] = cached[l]
  BY <1>0, <1>2, <1>3 DEF CacheTypes, NotCalling
<1>5. CacheTypes'
  BY <1>0, <1>2, <1>3, <1>4 DEF CacheTypes, Never
<1>6. OneEntryEach'
  BY <1>0, <1>3, <1>4 DEF OneEntryEach
<1>7. HandlesMapped'
  <2> SUFFICES ASSUME NEW d \in Caller, d # c, doing[d] # NotCalling
               PROVE  handle'[d] # Nothing /\ cached'[doing'[d].key] = handle'[d]
    BY <1>0, <1>3, <1>4 DEF HandlesMapped
  <2>1. doing[d].key \in Key
    BY <1>0 DEF CacheTypes
  <2> QED BY <1>0, <1>3, <1>4, <2>1 DEF HandlesMapped
<1>8. LockedByHolder'
  <2>1. doing[c].step \notin PastLock
    BY <1>0 DEF NotCalling, PastLock
  <2> QED BY <1>0, <1>3, <1>4, <2>1 DEF LockedByHolder, CacheTypes, PastLock, Nothing
<1>9. TimesKept'
  BY <1>0, <1>2, <1>3, <1>4 DEF TimesKept, CacheTypes
<1> QED BY <1>5, <1>6, <1>7, <1>8, <1>9 DEF HandlesInv

LEMMA LockEntryKeeps ==
  ASSUME HandlesInv, NEW c \in Caller, LockEntry(c)
  PROVE  HandlesInv'
<1>0. /\ CacheTypes /\ OneEntryEach /\ HandlesMapped /\ LockedByHolder /\ TimesKept
      /\ doing[c].step = "lock" /\ lockedBy[handle[c]] = Nothing
      /\ lockedBy' = [lockedBy EXCEPT ![handle[c]] = c]
      /\ UNCHANGED <<cached, lastTs, handle, minute, lastDone>>
  BY DEF HandlesInv, LockEntry
<1>1. /\ doing[c] # NotCalling /\ doing[c].key \in Key
      /\ doing[c] \in [step : {"lock"} \cup PastLock, key : Key]
  BY <1>0, CallerSteps
<1>2. handle[c] \in CachedEntry
  BY <1>0, <1>1 DEF HandlesMapped, CacheTypes
<1>3. PICK s \in PastLock : doing' = [doing EXCEPT ![c].step = s]
  BY DEF LockEntry, PastLock
<1>4. /\ doing'[c] \in [step : {"lock"} \cup PastLock, key : Key] /\ doing'[c] # NotCalling
      /\ doing'[c].step = s /\ doing'[c].key = doing[c].key
      /\ \A d \in Caller : d # c => doing'[d] = doing[d]
  BY <1>0, <1>1, <1>3 DEF CacheTypes, NotCalling, PastLock
<1>5. CacheTypes'
  BY <1>0, <1>2, <1>3, <1>4 DEF CacheTypes
<1>6. OneEntryEach' /\ HandlesMapped' /\ TimesKept'
  BY <1>0, <1>1, <1>4 DEF OneEntryEach, HandlesMapped, TimesKept
<1>7. LockedByHolder'
  BY <1>0, <1>2, <1>4, CallersAssumption DEF LockedByHolder, CacheTypes, Nothing
<1> QED BY <1>5, <1>6, <1>7 DEF HandlesInv

LEMMA SetEntryKeeps ==
  ASSUME HandlesInv, NEW c \in Caller, SetEntry(c)
  PROVE  HandlesInv'
<1>0. /\ CacheTypes /\ OneEntryEach /\ HandlesMapped /\ LockedByHolder /\ TimesKept
      /\ doing[c].step = "run"
      /\ lastTs' = [lastTs EXCEPT ![handle[c]] = minute]
      /\ lastDone' = [lastDone EXCEPT ![doing[c].key] = minute]
      /\ doing' = [doing EXCEPT ![c].step = "reuse"]
      /\ UNCHANGED <<cached, lockedBy, handle, minute>>
  BY DEF HandlesInv, SetEntry
<1>1. /\ doing[c] # NotCalling /\ doing[c].key \in Key
      /\ doing[c] \in [step : {"lock"} \cup PastLock, key : Key]
  BY <1>0, CallerSteps DEF PastLock
<1>2. /\ handle[c] \in CachedEntry /\ cached[doing[c].key] = handle[c]
      /\ handle[c] # Nothing
  BY <1>0, <1>1 DEF HandlesMapped, CacheTypes
<1>3. /\ doing'[c] \in [step : {"lock"} \cup PastLock, key : Key] /\ doing'[c] # NotCalling
      /\ doing'[c].step = "reuse" /\ doing'[c].key = doing[c].key
      /\ \A d \in Caller : d # c => doing'[d] = doing[d]
  BY <1>0, <1>1 DEF CacheTypes, NotCalling, PastLock
<1>4. CacheTypes'
  BY <1>0, <1>1, <1>2, <1>3 DEF CacheTypes
<1>5. OneEntryEach' /\ HandlesMapped'
  BY <1>0, <1>1, <1>3 DEF OneEntryEach, HandlesMapped
<1>6. LockedByHolder'
  BY <1>0, <1>2, <1>3 DEF LockedByHolder, CacheTypes, PastLock
<1>7. TimesKept'
  <2> SUFFICES ASSUME NEW k \in Key
               PROVE  \/ lastDone'[k] = Never
                      \/ cached[k] # Nothing /\ lastTs'[cached[k]] = lastDone'[k]
                      \/ minute - lastDone'[k] >= Reuse
    BY <1>0 DEF TimesKept
  <2>1. CASE k = doing[c].key
    BY <1>0, <1>2, <2>1 DEF CacheTypes
  <2>2. CASE k # doing[c].key
    <3>1. lastDone'[k] = lastDone[k]
      BY <1>0, <2>2 DEF CacheTypes
    <3>2. cached[k] # Nothing => cached[k] # handle[c]
      BY <1>0, <1>1, <1>2, <2>2 DEF OneEntryEach
    <3> QED BY <1>0, <3>1, <3>2 DEF TimesKept, CacheTypes
  <2> QED BY <2>1, <2>2
<1> QED BY <1>4, <1>5, <1>6, <1>7 DEF HandlesInv

LEMMA DropHandleKeeps ==
  ASSUME HandlesInv, NEW c \in Caller, DropHandle(c)
  PROVE  HandlesInv'
<1>0. /\ CacheTypes /\ OneEntryEach /\ HandlesMapped /\ LockedByHolder /\ TimesKept
      /\ lockedBy' = [e \in CachedEntry |-> IF lockedBy[e] = c THEN Nothing ELSE lockedBy[e]]
      /\ handle' = [handle EXCEPT ![c] = Nothing]
      /\ doing' = [doing EXCEPT ![c] = NotCalling]
      /\ UNCHANGED <<cached, lastTs, minute, lastDone>>
  BY DEF HandlesInv, DropHandle
<1>1. /\ doing'[c] = NotCalling /\ handle'[c] = Nothing /\ doing'[c].step \notin PastLock
      /\ \A d \in Caller : d # c => doing'[d] = doing[d] /\ handle'[d] = handle[d]
  BY <1>0 DEF CacheTypes, NotCalling, PastLock
<1>2. CacheTypes'
  BY <1>0, <1>1 DEF CacheTypes
<1>3. OneEntryEach' /\ HandlesMapped' /\ TimesKept'
  BY <1>0, <1>1 DEF OneEntryEach, HandlesMapped, TimesKept
<1>4. LockedByHolder'
  <2>1. ASSUME NEW d \in Caller, doing'[d].step \in PastLock PROVE lockedBy'[handle'[d]] = d
    <3>1. d # c /\ doing[d].step \in PastLock /\ lockedBy[handle[d]] = d
      BY <1>0, <1>1, <2>1 DEF LockedByHolder
    <3>2. handle[d] \in CachedEntry
      BY <1>0, <3>1, CallerSteps DEF HandlesMapped, CacheTypes
    <3> QED BY <1>0, <1>1, <3>1, <3>2
  <2>2. ASSUME NEW e \in CachedEntry, lockedBy'[e] # Nothing
        PROVE  doing'[lockedBy'[e]].step \in PastLock /\ handle'[lockedBy'[e]] = e
    <3>1. lockedBy'[e] = lockedBy[e] /\ lockedBy[e] \in Caller /\ lockedBy[e] # c
      BY <1>0, <2>2 DEF CacheTypes
    <3> QED BY <1>0, <1>1, <2>2, <3>1 DEF LockedByHolder
  <2> QED BY <2>1, <2>2 DEF LockedByHolder
<1> QED BY <1>2, <1>3, <1>4 DEF HandlesInv

\* retain never takes off the map what a caller holds.
LEMMA RetainedKeeps ==
  ASSUME CacheTypes, OneEntryEach, HandlesMapped, LockedByHolder,
         NEW keys, Retained(keys), UNCHANGED <<lastTs, lockedBy, handle, doing, minute>>
  PROVE  /\ cached' \in [Key -> CachedEntry \cup {Nothing}]
         /\ OneEntryEach' /\ HandlesMapped' /\ LockedByHolder'
         /\ \A k \in Key : \/ cached'[k] = cached[k]
                           \/ cached'[k] = Nothing /\ k \notin keys
<1>1. \A k \in Key : cached'[k] = cached[k] \/ cached'[k] = Nothing
  BY DEF Retained
<1>2. \A k \in Key : IsHeld(cached[k]) => cached'[k] = cached[k]
  BY DEF Retained
<1>3. HandlesMapped'
  <2> SUFFICES ASSUME NEW c \in Caller, doing[c] # NotCalling
               PROVE  handle[c] # Nothing /\ cached'[doing[c].key] = handle[c]
    BY DEF HandlesMapped
  <2>1. doing[c].key \in Key /\ handle[c] # Nothing /\ cached[doing[c].key] = handle[c]
    BY DEF CacheTypes, HandlesMapped
  <2> QED BY <1>2, <2>1 DEF IsHeld
<1>4. OneEntryEach'
  BY <1>1 DEF OneEntryEach
<1>5. LockedByHolder'
  BY DEF LockedByHolder
<1>6. /\ cached' \in [Key -> CachedEntry \cup {Nothing}]
      /\ \A k \in Key : \/ cached'[k] = cached[k]
                        \/ cached'[k] = Nothing /\ k \notin keys
  BY DEF Retained, CacheTypes
<1> QED BY <1>3, <1>4, <1>5, <1>6

LEMMA RemoveKeyKeeps ==
  ASSUME HandlesInv, NEW k \in Key, RemoveKey(k)
  PROVE  HandlesInv'
<1>0. /\ CacheTypes /\ OneEntryEach /\ HandlesMapped /\ LockedByHolder /\ TimesKept
      /\ Retained(Key \ {k})
      /\ lastDone' = IF cached'[k] = Nothing THEN [lastDone EXCEPT ![k] = Never] ELSE lastDone
      /\ UNCHANGED <<lastTs, lockedBy, handle, doing, minute>>
  BY DEF HandlesInv, RemoveKey
<1>1. /\ cached' \in [Key -> CachedEntry \cup {Nothing}]
      /\ OneEntryEach' /\ HandlesMapped' /\ LockedByHolder'
      /\ \A l \in Key : cached'[l] = cached[l] \/ (cached'[l] = Nothing /\ l = k)
  BY <1>0, RetainedKeeps
<1>2. CacheTypes'
  BY <1>0, <1>1 DEF CacheTypes, Never
<1>3. TimesKept'
  BY <1>0, <1>1 DEF TimesKept, CacheTypes
<1> QED BY <1>1, <1>2, <1>3 DEF HandlesInv

LEMMA PruneKeeps ==
  ASSUME HandlesInv, Prune
  PROVE  HandlesInv'
<1> DEFINE recent == {k \in Key : cached[k] # Nothing /\ lastTs[cached[k]] >= minute - Reuse}
<1>0. /\ CacheTypes /\ OneEntryEach /\ HandlesMapped /\ LockedByHolder /\ TimesKept
      /\ Retained(recent)
      /\ UNCHANGED <<lastTs, lockedBy, handle, doing, minute, lastDone>>
  BY DEF HandlesInv, Prune
<1>1. /\ cached' \in [Key -> CachedEntry \cup {Nothing}]
      /\ OneEntryEach' /\ HandlesMapped' /\ LockedByHolder'
      /\ \A k \in Key : cached'[k] = cached[k] \/ (cached'[k] = Nothing /\ k \notin recent)
  BY <1>0, RetainedKeeps
<1>2. CacheTypes'
  BY <1>0, <1>1 DEF CacheTypes
<1>3. TimesKept'
  <2> SUFFICES ASSUME NEW k \in Key
               PROVE  \/ lastDone[k] = Never
                      \/ cached'[k] # Nothing /\ lastTs[cached'[k]] = lastDone[k]
                      \/ minute - lastDone[k] >= Reuse
    BY <1>0 DEF TimesKept
  <2>1. CASE cached'[k] = cached[k]
    BY <1>0, <2>1 DEF TimesKept
  <2>2. CASE cached'[k] # cached[k]
    <3>1. cached[k] \in CachedEntry /\ ~(lastTs[cached[k]] >= minute - Reuse)
      BY <1>0, <1>1, <2>2 DEF CacheTypes
    <3> QED BY <1>0, <3>1, CallersAssumption DEF TimesKept, CacheTypes
  <2> QED BY <2>1, <2>2
<1> QED BY <1>1, <1>2, <1>3 DEF HandlesInv

LEMMA HandlesStep ==
  ASSUME HandlesInv, [CacheNext]_cacheVars
  PROVE  HandlesInv'
<1>1. CASE MinutePasses
  BY <1>1, CallersAssumption
  DEF MinutePasses, HandlesInv, CacheTypes, OneEntryEach, HandlesMapped, LockedByHolder, TimesKept
<1>2. CASE UNCHANGED cacheVars
  BY <1>2 DEF cacheVars, HandlesInv, CacheTypes, OneEntryEach, HandlesMapped,
              LockedByHolder, TimesKept
<1> QED BY <1>1, <1>2, GetHandleKeeps, LockEntryKeeps, SetEntryKeeps, DropHandleKeeps,
           RemoveKeyKeeps, PruneKeeps DEF CacheNext

\* An action begins under the lock of its key's only entry, with its time.
LEMMA BeginsAlone ==
  ASSUME HandlesInv, NEW c \in Caller, LockEntry(c), doing'[c].step = "run"
  PROVE  /\ \A d \in Caller \ {c} : doing[d].step = "run" => doing[d].key # doing[c].key
         /\ \/ lastDone[doing[c].key] = Never
            \/ minute - lastDone[doing[c].key] >= Reuse
<1>0. /\ CacheTypes /\ HandlesMapped /\ LockedByHolder /\ TimesKept
      /\ doing[c].step = "lock" /\ lockedBy[handle[c]] = Nothing
  BY DEF HandlesInv, LockEntry
<1>1. doing[c].key \in Key /\ cached[doing[c].key] = handle[c]
  BY <1>0, CallerSteps DEF HandlesMapped
<1>2. ASSUME NEW d \in Caller \ {c}, doing[d].step = "run" PROVE doing[d].key # doing[c].key
  <2>1. cached[doing[d].key] = handle[d] /\ lockedBy[handle[d]] = d
    BY <1>0, <1>2, CallerSteps DEF HandlesMapped, LockedByHolder, PastLock
  <2> QED BY <1>0, <1>1, <2>1, CallersAssumption DEF Nothing
<1>3. ~(lastTs[handle[c]] # Never /\ minute - lastTs[handle[c]] < Reuse)
  BY DEF LockEntry, HandlesInv, CacheTypes
<1>4. \/ lastDone[doing[c].key] = Never
      \/ minute - lastDone[doing[c].key] >= Reuse
  BY <1>0, <1>1, <1>3, CallersAssumption DEF TimesKept, CacheTypes
<1> QED BY <1>2, <1>4

\* What TimeoutCache is for: an action of a key runs alone, and not again before
\* its result is old, whatever remove and prune do and however callers drop
\* their handles.
THEOREM ActionsRunAlone == CacheSpec => NoRapidFire
<1>1. CacheInit => HandlesInv
  <2> SUFFICES ASSUME CacheInit PROVE HandlesInv
    OBVIOUS
  <2>1. \A c \in Caller : doing[c] = NotCalling /\ doing[c].step \notin PastLock
    BY DEF CacheInit, NotCalling, PastLock
  <2>2. CacheTypes
    BY <2>1 DEF CacheInit, CacheTypes, Never
  <2> QED BY <2>1, <2>2
          DEF CacheInit, HandlesInv, OneEntryEach, HandlesMapped, LockedByHolder, TimesKept
<1>2. HandlesInv /\ [CacheNext]_cacheVars => HandlesInv'
  BY HandlesStep
<1>3. HandlesInv /\ [CacheNext]_cacheVars => [RunsAlone]_cacheVars
  <2> SUFFICES ASSUME HandlesInv, CacheNext, NEW c \in Caller,
                      doing[c].step # "run", doing'[c].step = "run"
               PROVE  LockEntry(c)
    BY BeginsAlone DEF RunsAlone
  <2>1. DOMAIN doing = Caller
    BY DEF HandlesInv, CacheTypes
  <2>2. ASSUME NEW d \in Caller, NEW k \in Key, GetHandle(d, k) PROVE FALSE
    BY <2>1, <2>2 DEF GetHandle
  <2>3. ASSUME NEW d \in Caller, LockEntry(d) PROVE d = c
    BY <2>1, <2>3 DEF LockEntry
  <2>4. ASSUME NEW d \in Caller, SetEntry(d) \/ DropHandle(d) PROVE FALSE
    BY <2>1, <2>4 DEF SetEntry, DropHandle, NotCalling, HandlesInv, CacheTypes
  <2>5. ~(\E k \in Key : RemoveKey(k)) /\ ~Prune /\ ~MinutePasses
    BY DEF RemoveKey, Prune, MinutePasses
  <2> QED BY <2>2, <2>3, <2>4, <2>5 DEF CacheNext
<1> QED BY <1>1, <1>2, <1>3, PTL DEF CacheSpec, NoRapidFire

----------------------------------------------------------------------------
(* The bcrypt pool *)

\* A permit is held exactly while its hash runs, also when its caller is gone.
PermitsAreHashes ==
  /\ DOMAIN permits = Budgets
  /\ hashing \subseteq Job
  /\ permits["login"] = hashing \cap LoginJob
  /\ permits["api key"] = hashing \cap KeyJob

PoolInv == PermitsAreHashes /\ OneHashPerCore

LEMMA PoolStep ==
  ASSUME PoolInv, NEW j \in Job, Ask(j) \/ Acquire(j) \/ Complete(j) \/ Disconnect(j)
  PROVE  PoolInv'
<1> USE JobsAssumption
<1>0. IsFiniteSet(hashing \cap LoginJob) /\ IsFiniteSet(hashing \cap KeyJob)
  BY FS_Subset
<1>1. CASE Ask(j) \/ Disconnect(j)
  BY <1>1 DEF Ask, Disconnect, PermitsWithout, PoolInv, PermitsAreHashes, OneHashPerCore
<1>2. CASE Complete(j)
  <2>1. PermitsAreHashes'
    BY <1>2 DEF Complete, PoolInv, PermitsAreHashes, BudgetOf, Job, Budgets
  <2>2. hashing' \subseteq hashing
    BY <1>2 DEF Complete
  <2>3. /\ hashing' \cap LoginJob \subseteq hashing \cap LoginJob
        /\ hashing' \cap KeyJob \subseteq hashing \cap KeyJob
    BY <2>2
  <2>4. /\ Cardinality(hashing' \cap LoginJob) <= Cardinality(hashing \cap LoginJob)
        /\ Cardinality(hashing' \cap KeyJob) <= Cardinality(hashing \cap KeyJob)
        /\ Cardinality(hashing \cap LoginJob) \in Nat /\ Cardinality(hashing \cap KeyJob) \in Nat
        /\ Cardinality(hashing' \cap LoginJob) \in Nat /\ Cardinality(hashing' \cap KeyJob) \in Nat
    BY <1>0, <2>3, FS_Subset, FS_CardinalityType
  <2>5. OneHashPerCore'
    BY <2>4 DEF PoolInv, OneHashPerCore
  <2> QED BY <2>1, <2>5 DEF PoolInv
<1>3. CASE Acquire(j)
  <2>1. PermitsAreHashes'
    BY <1>3 DEF Acquire, PoolInv, PermitsAreHashes, BudgetOf, Job, Budgets
  <2>2. CASE j \in LoginJob
    <3>1. /\ hashing' \cap LoginJob = (hashing \cap LoginJob) \cup {j}
          /\ hashing' \cap KeyJob = hashing \cap KeyJob
          /\ Cardinality(hashing \cap LoginJob) < Cores
      BY <1>3, <2>2 DEF Acquire, PoolInv, PermitsAreHashes, BudgetOf
    <3>2. PICK s : s = hashing \cap LoginJob
      OBVIOUS
    <3>3. IsFiniteSet(s) /\ Cardinality(s) \in Nat /\ Cardinality(s) < Cores
      BY <1>0, <3>1, <3>2, FS_CardinalityType
    <3>4. Cardinality(s \cup {j}) <= Cores
      <4>1. Cardinality(s \cup {j}) = IF j \in s THEN Cardinality(s) ELSE Cardinality(s) + 1
        BY <3>3, FS_AddElement, Zenon
      <4> QED BY <3>3, <4>1
    <3> QED BY <2>1, <3>1, <3>2, <3>4 DEF PoolInv, OneHashPerCore
  <2>3. CASE j \notin LoginJob
    <3>1. /\ hashing' \cap KeyJob = (hashing \cap KeyJob) \cup {j}
          /\ hashing' \cap LoginJob = hashing \cap LoginJob
          /\ Cardinality(hashing \cap KeyJob) < Cores
      BY <1>3, <2>3 DEF Acquire, PoolInv, PermitsAreHashes, BudgetOf, Job
    <3>2. PICK s : s = hashing \cap KeyJob
      OBVIOUS
    <3>3. IsFiniteSet(s) /\ Cardinality(s) \in Nat /\ Cardinality(s) < Cores
      BY <1>0, <3>1, <3>2, FS_CardinalityType
    <3>4. Cardinality(s \cup {j}) <= Cores
      <4>1. Cardinality(s \cup {j}) = IF j \in s THEN Cardinality(s) ELSE Cardinality(s) + 1
        BY <3>3, FS_AddElement, Zenon
      <4> QED BY <3>3, <4>1
    <3> QED BY <2>1, <3>1, <3>2, <3>4 DEF PoolInv, OneHashPerCore
  <2> QED BY <2>2, <2>3
<1> QED BY <1>1, <1>2, <1>3

\* spawn_bcrypt's bound, for any number of jobs and cores: permits stay with the
\* work, so callers who disconnect never let more run than there are cores.
THEOREM HashesWithinCores == PoolSpec => []OneHashPerCore
<1>1. PoolInit => PoolInv
  <2>1. PoolInit => hashing \cap LoginJob = {} /\ hashing \cap KeyJob = {}
    BY DEF PoolInit
  <2>2. PoolInit => PermitsAreHashes
    BY DEF PoolInit, PermitsAreHashes, Budgets
  <2>3. Cardinality({}) = 0
    BY FS_EmptySet, Zenon
  <2> QED BY <2>1, <2>2, <2>3, JobsAssumption DEF PoolInv, OneHashPerCore
<1>2. PoolInv /\ [PoolNext]_poolVars => PoolInv'
  <2>1. PoolInv /\ UNCHANGED poolVars => PoolInv'
    BY DEF poolVars, PoolInv, PermitsAreHashes, OneHashPerCore
  <2> QED BY <2>1, PoolStep DEF PoolNext
<1>3. PoolInv => OneHashPerCore
  BY DEF PoolInv
<1> QED BY <1>1, <1>2, <1>3, PTL DEF PoolSpec
=============================================================================
