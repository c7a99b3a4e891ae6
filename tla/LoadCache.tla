----------------------------- MODULE LoadCache -----------------------------
(***************************************************************************)
(* provider/load_cache.rs: values which are slow to load over the network  *)
(* (provider clients, issuer keys), loaded on demand by the requests that  *)
(* need them. Keys do not interact: this is one key of the cache.          *)
(*                                                                         *)
(* A value is named after the call that loaded it, and a key's loading     *)
(* lock (an Arc<Mutex>) after the call that put it on the map: a lock that *)
(* was evicted and the one inserted later are different objects. Calls     *)
(* interleave between their critical sections and may be dropped at an     *)
(* await. Evicting takes two locks one after the other.                    *)
(***************************************************************************)
EXTENDS Integers, FiniteSets

CONSTANTS Call,        \* the calls of LoadCache::load
          Config,      \* configurations, as told apart by their fingerprint
          ValidFor,    \* valid_for
          Retry,       \* RETRY_FAILED_LOAD_AFTER
          MaxStale,    \* MAX_STALE_AGE
          MaxTime,     \* bound on the clock
          MaxEvicts,   \* bound on evictions
          None

ASSUME ConstantsAssumption ==
  /\ IsFiniteSet(Call)
  /\ ValidFor \in Nat /\ Retry \in Nat /\ MaxStale \in Nat
  /\ MaxTime \in Nat /\ MaxEvicts \in Nat
  /\ None \notin Call \cup Config \cup Int

VARIABLES
  entry,     \* LoadCache::entries[key], None when there is none
  loading,   \* LoadCache::loading[key], None when there is none
  owner,     \* owner[m]: the call that has locked m
  now,
  evicts,    \* how often the key was evicted
  evicting,  \* whether an evict is between its two locks
  pc, fingerprint,
  mutex,     \* the clone of the loading lock a call holds
  loadedAt, failedAt,  \* of each call's own load, or None
  result,    \* the value a call returned, None for an error
  settled    \* history: failures since undone by an evict or another load

cache == <<entry, loading, loadedAt, failedAt, settled>>
calls == <<owner, pc, fingerprint, mutex, result>>
env == <<now, evicts, evicting>>
vars == <<cache, calls, env>>

Time == 0..MaxTime
PC == {"idle", "getLock", "lock", "recheck", "loading", "done"}
Entry == [fingerprint : Config, value : Call \cup {None}, failedAt : Time \cup {None}]

ASSUME NoneIsNoEntry == None \notin Entry

\* The value of an entry, or None.
ValueOf(e) == IF e = None THEN None ELSE e.value

TypeOK ==
  /\ entry \in Entry \cup {None}
  /\ entry # None => entry.value # None \/ entry.failedAt # None
  /\ ValueOf(entry) # None => loadedAt[entry.value] # None
  /\ loading \in Call \cup {None}
  /\ owner \in [Call -> Call \cup {None}]
  /\ now \in Time
  /\ evicts \in 0..MaxEvicts
  /\ evicting \in BOOLEAN
  /\ pc \in [Call -> PC]
  /\ fingerprint \in [Call -> Config \cup {None}]
  /\ mutex \in [Call -> Call \cup {None}]
  /\ loadedAt \in [Call -> Time \cup {None}]
  /\ failedAt \in [Call -> Time \cup {None}]
  /\ result \in [Call -> Call \cup {None}]
  /\ settled \subseteq Call

Init ==
  /\ entry = None /\ loading = None
  /\ owner = [m \in Call |-> None]
  /\ now = 0 /\ evicts = 0 /\ evicting = FALSE
  /\ pc = [c \in Call |-> "idle"]
  /\ fingerprint = [c \in Call |-> None]
  /\ mutex = [c \in Call |-> None]
  /\ loadedAt = [c \in Call |-> None]
  /\ failedAt = [c \in Call |-> None]
  /\ result = [c \in Call |-> None]
  /\ settled = {}

----------------------------------------------------------------------------
(* What is cached *)

\* The entry, if it is of this configuration.
Found(config) == IF entry = None THEN None
                 ELSE IF entry.fingerprint = config THEN entry ELSE None

Fresh(v) == v # None /\ now - loadedAt[v] < ValidFor

\* Mutant: a value of any age is better than none.
UsableAtAnyAge(v) == v # None

UsableWhileFailing(v) == v # None /\ now - loadedAt[v] < ValidFor + MaxStale

FailedRecently(e) == e # None /\ e.failedAt # None /\ now - e.failedAt < Retry

\* LoadCache::state
State(config) ==
  LET e == Found(config)
      v == ValueOf(e)
  IN  CASE Fresh(v) -> "fresh"
        [] ~Fresh(v) /\ FailedRecently(e) /\ UsableWhileFailing(v) -> "stale"
        [] ~Fresh(v) /\ FailedRecently(e) /\ ~UsableWhileFailing(v) -> "failed"
        [] OTHER -> "load"

Goto(c, label) == pc' = [pc EXCEPT ![c] = label]

Return(c, v) ==
  /\ Goto(c, "done")
  /\ result' = [result EXCEPT ![c] = v]
  /\ mutex' = [mutex EXCEPT ![c] = None]

Unlock(c) == owner' = [m \in Call |-> IF owner[m] = c THEN None ELSE owner[m]]

----------------------------------------------------------------------------
(* load_with_timeout *)

\* LoadCache::cached before the lock.
Begin(c, config) ==
  LET found == State(config)
  IN  /\ pc[c] = "idle"
      /\ fingerprint' = [fingerprint EXCEPT ![c] = config]
      /\ \/ /\ found # "load"
            /\ Return(c, IF found = "failed" THEN None ELSE entry.value)
         \/ /\ found = "load"
            /\ Goto(c, "getLock")
            /\ UNCHANGED <<mutex, result>>
      /\ UNCHANGED <<entry, loading, owner, loadedAt, failedAt, settled, env>>

\* The key's lock is found or inserted.
GetLock(c) ==
  LET m == IF loading = None THEN c ELSE loading
  IN  /\ pc[c] = "getLock"
      /\ loading' = m
      /\ mutex' = [mutex EXCEPT ![c] = m]
      /\ Goto(c, "lock")
      /\ UNCHANGED <<entry, owner, fingerprint, result, loadedAt, failedAt,
                     settled, env>>

\* Mutant: nobody waits.
LockNothing(c) ==
  /\ pc[c] = "lock"
  /\ Goto(c, "recheck")
  /\ UNCHANGED <<cache, owner, fingerprint, mutex, result, env>>

Lock(c) ==
  /\ pc[c] = "lock"
  /\ owner[mutex[c]] = None
  /\ owner' = [owner EXCEPT ![mutex[c]] = c]
  /\ Goto(c, "recheck")
  /\ UNCHANGED <<cache, fingerprint, mutex, result, env>>

\* Mutant: the load begins without looking again.
RecheckNothing(c) ==
  /\ pc[c] = "recheck"
  /\ Goto(c, "loading")
  /\ UNCHANGED <<cache, owner, fingerprint, mutex, result, env>>

\* LoadCache::cached again, under the lock.
Recheck(c) ==
  LET found == State(fingerprint[c])
  IN  /\ pc[c] = "recheck"
      /\ \/ /\ found # "load"
            /\ Return(c, IF found = "failed" THEN None ELSE entry.value)
            /\ Unlock(c)
         \/ /\ found = "load"
            /\ Goto(c, "loading")
            /\ UNCHANGED <<owner, mutex, result>>
      /\ UNCHANGED <<cache, fingerprint, env>>

\* Every load that failed so far.
Failures == {c \in Call : failedAt[c] # None}

Loaded(c) ==
  /\ pc[c] = "loading"
  /\ entry' = [fingerprint |-> fingerprint[c], value |-> c, failedAt |-> None]
  /\ loadedAt' = [loadedAt EXCEPT ![c] = now]
  /\ settled' = Failures
  /\ Return(c, c)
  /\ Unlock(c)
  /\ UNCHANGED <<loading, failedAt, fingerprint, env>>

\* Mutant: whatever was loaded before is returned.
PreviousOfAny(c) == ValueOf(entry)

\* The value loaded before, if it is of the same configuration.
Previous(c) == ValueOf(Found(fingerprint[c]))

\* Mutant: the failure is not remembered.
FailedEntryUnmarked(c) ==
  [fingerprint |-> fingerprint[c], value |-> Previous(c), failedAt |-> None]

\* What is left of the key after a load failed.
FailedEntry(c) ==
  [fingerprint |-> fingerprint[c], value |-> Previous(c), failedAt |-> now]

\* The load failed, or took longer than LOAD_TIMEOUT.
LoadFailed(c) ==
  /\ pc[c] = "loading"
  /\ entry' = FailedEntry(c)
  /\ failedAt' = [failedAt EXCEPT ![c] = now]
  /\ settled' = IF Found(fingerprint[c]) = None THEN Failures ELSE settled
  /\ Return(c, IF UsableWhileFailing(Previous(c)) THEN Previous(c) ELSE None)
  /\ Unlock(c)
  /\ UNCHANGED <<loading, loadedAt, fingerprint, env>>

\* Mutant: a dropped call leaves the key locked.
CancelLocked(c) ==
  /\ pc[c] \in {"lock", "loading"}
  /\ Return(c, None)
  /\ UNCHANGED <<cache, owner, fingerprint, env>>

\* The call is dropped at an await.
Cancel(c) ==
  /\ pc[c] \in {"lock", "loading"}
  /\ Return(c, None)
  /\ Unlock(c)
  /\ UNCHANGED <<cache, fingerprint, env>>

----------------------------------------------------------------------------
(* evict, retain and time *)

\* evict (an updated or deleted provider or issuer), or a retain that drops
\* the key: the entry first ...
EvictEntry ==
  /\ ~evicting /\ evicts < MaxEvicts
  /\ evicting' = TRUE
  /\ evicts' = evicts + 1
  /\ entry' = None
  /\ settled' = Failures
  /\ UNCHANGED <<loading, loadedAt, failedAt, now, calls>>

\* ... and then the lock, which calls may hold.
EvictLock ==
  /\ evicting
  /\ evicting' = FALSE
  /\ loading' = None
  /\ UNCHANGED <<entry, loadedAt, failedAt, settled, now, evicts, calls>>

Tick ==
  /\ now < MaxTime
  /\ now' = now + 1
  /\ UNCHANGED <<cache, evicts, evicting, calls>>

Step(c) == GetLock(c) \/ Lock(c) \/ Recheck(c) \/ Loaded(c) \/ LoadFailed(c)

Next == \/ \E c \in Call : \/ \E config \in Config : Begin(c, config)
                           \/ Step(c)
                           \/ Cancel(c)
        \/ EvictEntry \/ EvictLock
        \/ Tick

Spec == Init /\ [][Next]_vars

\* The runtime polls every call that can proceed, and the load timeout ends
\* every load.
FairSpec == Spec /\ \A c \in Call : WF_vars(Step(c))

----------------------------------------------------------------------------
(* Properties *)

Loading == {c \in Call : pc[c] = "loading"}

\* A call only gets a value loaded from its own configuration, however the
\* configuration changed while calls were waiting or loading.
OwnConfiguration ==
  \A c \in Call : result[c] # None => fingerprint[result[c]] = fingerprint[c]

\* A value past its time is only returned for MAX_STALE_AGE, and only
\* because a load of its configuration failed less than
\* RETRY_FAILED_LOAD_AFTER before, or just now.
StaleOnlyInOutage ==
  \A c \in Call :
    LET v == result'[c] IN
    pc[c] # "done" /\ v \notin {None, c} /\ now - loadedAt[v] >= ValidFor =>
      /\ now - loadedAt[v] < ValidFor + MaxStale
      /\ \E b \in Call : /\ fingerprint[b] = fingerprint'[c]
                         /\ failedAt'[b] # None
                         /\ b = c \/ now - failedAt'[b] < Retry

\* "Concurrent requests share one load": calls load at the same time only
\* behind locks that were evicted, one more for each evict.
LoadsAreShared ==
  /\ Cardinality(Loading) <= 1 + evicts
  /\ \A b, c \in Loading : mutex[b] = mutex[c] => b = c

\* "After a failed load the source is left alone for a while": no load begins
\* less than RETRY_FAILED_LOAD_AFTER after one of its configuration failed,
\* unless the failure was evicted or another load finished since.
SourceLeftAlone ==
  \A b, c \in Call :
    /\ pc[c] # "loading" /\ pc'[c] = "loading"
    /\ fingerprint[b] = fingerprint[c]
    /\ failedAt[b] # None /\ b \notin settled
    => now - failedAt[b] >= Retry

\* Calls wait on each other, but none forever: a load that hangs, a call that
\* is dropped and an evict all leave the others able to go on.
CallsAnswered ==
  \A c \in Call : pc[c] \notin {"idle", "done"} ~> pc[c] = "done"

\* The entry, its lock and the calls on them agree: the state is well formed
\* and one call loads behind a lock, whatever is dropped or evicted.
CacheConsistent == TypeOK /\ LoadsAreShared

\* While the source fails, it is left alone between retries, and what is
\* served meanwhile is served for a bounded time and only because it fails.
SourceOutage == [][StaleOnlyInOutage /\ SourceLeftAlone]_vars
=============================================================================
