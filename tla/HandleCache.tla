----------------------------- MODULE HandleCache -----------------------------
(***************************************************************************)
(* TimeoutCache (crates/cache/src/lib.rs): callers that take the entry of  *)
(* their key, lock it for the length of an action, and reuse its result    *)
(* while it is recent, against remove and prune. The callers are external  *)
(* and follow the contract in the type's comment.                          *)
(***************************************************************************)
EXTENDS Integers, FiniteSets

CONSTANTS
  Caller,
  Key,
  Reuse,       \* how long a caller reuses a result
  LastMinute   \* bound: the clock stops here

ASSUME CallersAssumption ==
  /\ IsFiniteSet(Caller) /\ IsFiniteSet(Key)
  /\ 0 \notin Caller         \* Nothing
  /\ Reuse \in Nat /\ LastMinute \in Nat

VARIABLES
  cached,    \* the map: the entry of each key held
  lastTs,    \* CacheEntry::last_ts of every entry that exists
  lockedBy,  \* who has the entry's mutex
  handle,    \* the entry each caller holds an Arc of
  doing,     \* [step, key] of each caller
  minute,    \* the clock
  lastDone   \* when an action of each key last ended, unless removed since

cacheVars == <<cached, lastTs, lockedBy, handle, doing, minute, lastDone>>

Nothing == 0
Never == 0
CachedEntry == 1..(Cardinality(Caller) + Cardinality(Key))   \* enough to tell apart
NotCalling == [step |-> "out", key |-> Nothing]

CacheInit ==
  /\ cached = [k \in Key |-> Nothing]
  /\ lastTs = [e \in CachedEntry |-> Never]
  /\ lockedBy = [e \in CachedEntry |-> Nothing]
  /\ handle = [c \in Caller |-> Nothing]
  /\ doing = [c \in Caller |-> NotCalling]
  /\ minute = 1
  /\ lastDone = [k \in Key |-> Never]

InMap(e) == \E k \in Key : cached[k] = e

\* Mutant: only the lock counts as holding.
IsHeldLocked(e) == lockedBy[e] # Nothing

\* is_held: a handle, or a guard, exists besides the map's own.
IsHeld(e) == \E c \in Caller : handle[c] = e

UnusedEntry == CHOOSE e \in CachedEntry : ~InMap(e) /\ ~\E c \in Caller : handle[c] = e

\* get_lock, under the map's lock.
GetHandle(c, k) ==
  /\ doing[c] = NotCalling
  /\ LET e == IF cached[k] = Nothing THEN UnusedEntry ELSE cached[k]
     IN /\ cached' = [cached EXCEPT ![k] = e]
        /\ lastTs' = IF cached[k] = Nothing THEN [lastTs EXCEPT ![e] = Never] ELSE lastTs
        /\ handle' = [handle EXCEPT ![c] = e]
  /\ doing' = [doing EXCEPT ![c] = [step |-> "lock", key |-> k]]
  /\ UNCHANGED <<lockedBy, minute, lastDone>>

\* The caller locks the entry, and runs the action unless the result is recent.
LockEntry(c) ==
  /\ doing[c].step = "lock"
  /\ lockedBy[handle[c]] = Nothing
  /\ lockedBy' = [lockedBy EXCEPT ![handle[c]] = c]
  /\ doing' = [doing EXCEPT ![c].step =
       IF lastTs[handle[c]] # Never /\ minute - lastTs[handle[c]] < Reuse
       THEN "reuse" ELSE "run"]
  /\ UNCHANGED <<cached, lastTs, handle, minute, lastDone>>

\* CacheEntry::set
SetEntry(c) ==
  /\ doing[c].step = "run"
  /\ lastTs' = [lastTs EXCEPT ![handle[c]] = minute]
  /\ lastDone' = [lastDone EXCEPT ![doing[c].key] = minute]
  /\ doing' = [doing EXCEPT ![c].step = "reuse"]
  /\ UNCHANGED <<cached, lockedBy, handle, minute>>

\* The guard and the handle are dropped: at the end, or when the caller is
\* dropped anywhere before.
DropHandle(c) ==
  /\ handle[c] # Nothing
  /\ lockedBy' = [e \in CachedEntry |-> IF lockedBy[e] = c THEN Nothing ELSE lockedBy[e]]
  /\ handle' = [handle EXCEPT ![c] = Nothing]
  /\ doing' = [doing EXCEPT ![c] = NotCalling]
  /\ UNCHANGED <<cached, lastTs, minute, lastDone>>

\* retain: entries a caller holds are always kept.
Retained(keys) ==
  cached' = [k \in Key |-> IF cached[k] # Nothing /\ ~IsHeld(cached[k]) /\ k \notin keys
                           THEN Nothing ELSE cached[k]]

RemoveKey(k) ==
  /\ cached[k] # Nothing
  /\ Retained(Key \ {k})
  /\ lastDone' = IF cached'[k] = Nothing THEN [lastDone EXCEPT ![k] = Never] ELSE lastDone
  /\ UNCHANGED <<lastTs, lockedBy, handle, doing, minute>>

\* prune of what no caller would reuse.
Prune ==
  /\ \E k \in Key : cached[k] # Nothing
  /\ Retained({k \in Key : cached[k] # Nothing /\ lastTs[cached[k]] >= minute - Reuse})
  /\ UNCHANGED <<lastTs, lockedBy, handle, doing, minute, lastDone>>

MinutePasses ==
  /\ minute < LastMinute
  /\ minute' = minute + 1
  /\ UNCHANGED <<cached, lastTs, lockedBy, handle, doing, lastDone>>

CacheNext ==
  \/ \E c \in Caller : \/ \E k \in Key : GetHandle(c, k)
                       \/ LockEntry(c) \/ SetEntry(c) \/ DropHandle(c)
  \/ \E k \in Key : RemoveKey(k)
  \/ Prune
  \/ MinutePasses

CacheSpec == CacheInit /\ [][CacheNext]_cacheVars

----------------------------------------------------------------------------
(* Properties *)

\* "Prevents simultaneous / rapid fire access to an action": a caller runs the
\* action of a key only when nobody else is running it, and no sooner than Reuse
\* after it last ended, unless that result was removed: pruning never lets it.
RunsAlone ==
  \A c \in Caller : doing[c].step # "run" /\ doing'[c].step = "run" =>
    /\ \A d \in Caller \ {c} : doing[d].step = "run" => doing[d].key # doing[c].key
    /\ \/ lastDone[doing[c].key] = Never
       \/ minute - lastDone[doing[c].key] >= Reuse

NoRapidFire == [][RunsAlone]_cacheVars
==============================================================================
