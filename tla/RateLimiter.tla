---------------------------- MODULE RateLimiter ----------------------------
(***************************************************************************)
(* mogh_rate_limit::RateLimiter: failed attempts per client within a time  *)
(* window, shared by the attempts (futures) of every request.              *)
(*                                                                         *)
(* Each atomic step is one critical section of the code: the map's RwLock, *)
(* an entry's mutex, or one call on its Notify. An entry is an Arc<Entry>; *)
(* it is named after the attempt that inserted it, so that an entry that   *)
(* left the map and the one inserted later under the same key are          *)
(* different objects. A failure is named after the attempt that failed.    *)
(* The Instant of a failure is kept as its age, capped at Window, where it *)
(* no longer counts: now.duration_since(time) < window is age < Window.    *)
(***************************************************************************)
EXTENDS Integers, FiniteSets

CONSTANTS Attempt,      \* the attempts that are made, each is one future
          Client,       \* RateLimiter::key values: IPv4 address or IPv6 prefix
          MaxAttempts,  \* RateLimiter::max_attempts
          Window,       \* RateLimiter::window, in ticks
          MaxEntries,   \* RateLimiter::max_entries
          None          \* no client, entry or failure

ASSUME ConstantsAssumption ==
  /\ IsFiniteSet(Attempt)
  /\ IsFiniteSet(Client)
  /\ MaxAttempts \in Nat
  /\ Window \in Nat \ {0}
  /\ MaxEntries \in Nat \ {0}
  /\ None \notin Attempt
  /\ None \notin Client

VARIABLES
  disabled,   \* RateLimiter::disabled, fixed by the builder
  map,        \* RateLimiter::attempts: the entry of each client, or None
  failures,   \* failures[e]: Attempts::failures of entry e, not yet pruned
  inFlight,   \* inFlight[e]: Attempts::in_flight of entry e
  age,        \* age[a]: how long ago a's failure was recorded, at most Window
  pc,         \* where each attempt is
  key,        \* key[a]: the client a counts under
  strict,     \* whether a is limited by the strict method
  entry,      \* entry[a]: the Arc<Entry> a holds, or None
  woken,      \* whether a's Notified future has been notified
  waitsFor,   \* the failure whose expiry a's timeout_at waits for, or None
  forgotten   \* history: failures evicted by make_room before they expired

vars == <<disabled, map, failures, inFlight, age, pc, key, strict, entry,
          woken, waitsFor, forgotten>>

PC == {"idle",
       \* strict: top of the loop, notified() created, waiting, the future
       \* runs, the reservation is given back and waiters must be notified
       "loop", "armed", "waiting", "running", "notify", "notifyFailed",
       \* lenient: entry looked up, the future runs, it failed, recording
       "lookedUp", "attempting", "failing", "recording",
       "refused", "failed", "done"}

TypeOK ==
  /\ disabled \in BOOLEAN
  /\ map \in [Client -> Attempt \cup {None}]
  /\ failures \in [Attempt -> SUBSET Attempt]
  /\ inFlight \in [Attempt -> Nat]
  /\ age \in [Attempt -> 0..Window]
  /\ pc \in [Attempt -> PC]
  /\ key \in [Attempt -> Client \cup {None}]
  /\ strict \in [Attempt -> BOOLEAN]
  /\ entry \in [Attempt -> Attempt \cup {None}]
  /\ woken \in [Attempt -> BOOLEAN]
  /\ waitsFor \in [Attempt -> Attempt \cup {None}]
  /\ forgotten \in SUBSET Attempt

Init ==
  /\ disabled \in BOOLEAN
  /\ map = [c \in Client |-> None]
  /\ failures = [e \in Attempt |-> {}]
  /\ inFlight = [e \in Attempt |-> 0]
  /\ age = [a \in Attempt |-> Window]
  /\ pc = [a \in Attempt |-> "idle"]
  /\ key = [a \in Attempt |-> None]
  /\ strict = [a \in Attempt |-> FALSE]
  /\ entry = [a \in Attempt |-> None]
  /\ woken = [a \in Attempt |-> FALSE]
  /\ waitsFor = [a \in Attempt |-> None]
  /\ forgotten = {}

----------------------------------------------------------------------------
(* Entries and the map *)

\* Mutant: prunes one tick early.
PrunedEarly(e) == {f \in failures[e] : age[f] + 1 < Window}

\* Attempts::prune: what is left of entry e's failures.
Pruned(e) == {f \in failures[e] : age[f] < Window}

\* Arc::strong_count(entry) > 1: somebody besides the map holds the entry.
Held(e) == \E b \in Attempt : entry[b] = e

Tracked == {c \in Client : map[c] # None}

\* Mutant: an entry somebody holds is taken for stale.
IsStaleThoughHeld(e) == /\ inFlight[e] = 0
                        /\ \A f \in failures[e] : age[f] >= Window

\* RateLimiter::is_stale. The failures are oldest first, so the last one
\* has left the window exactly when all have. try_lock cannot fail on an
\* entry only the map holds.
IsStale(e) == /\ ~Held(e)
              /\ inFlight[e] = 0
              /\ \A f \in failures[e] : age[f] >= Window

StaleClients == {c \in Tracked : IsStale(map[c])}

\* Mutant: make_room stops after the stale clients.
NothingRemovable == {}

\* The clients make_room may evict although their failures still count.
Removable == {c \in Tracked \ StaleClients :
                /\ ~Held(map[c])
                /\ inFlight[map[c]] = 0}

\* 90% of the maximum, and at least one below it.
Target == MaxEntries - (IF MaxEntries \div 10 > 1 THEN MaxEntries \div 10 ELSE 1)

\* c's last failure is at least as old as d's.
LastNotNewer(c, d) == \E g \in failures[map[d]] :
                         \A f \in failures[map[c]] : age[f] >= age[g]

\* RateLimiter::make_room, after the stale clients are gone: the excess
\* over Target, oldest last failure first (select_nth_unstable leaves ties
\* open), and no more than there are.
Evictions ==
  LET excess == Cardinality(Tracked \ StaleClients) - Target
  IN  {gone \in SUBSET Removable :
         /\ Cardinality(gone) =
              IF excess <= 0 THEN 0
              ELSE IF excess <= Cardinality(Removable) THEN excess
                                                       ELSE Cardinality(Removable)
         /\ \A c \in gone, d \in Removable \ gone : LastNotNewer(c, d)}

\* The entries of the clients in gone are dropped with the map's reference.
DropEntries(gone) ==
  failures' = [e \in Attempt |->
                 IF \E c \in gone : map[c] = e THEN {} ELSE failures[e]]

\* RateLimiter::get_or_insert under the map's write lock; the read-locked
\* lookup before it only decides whether that lock is needed.
GetOrInsert(a, c) ==
  \/ /\ map[c] # None
     /\ entry' = [entry EXCEPT ![a] = map[c]]
     /\ UNCHANGED <<map, failures, forgotten>>
  \/ /\ map[c] = None
     /\ Cardinality(Tracked) < MaxEntries
     /\ map' = [map EXCEPT ![c] = a]
     /\ entry' = [entry EXCEPT ![a] = a]
     /\ UNCHANGED <<failures, forgotten>>
  \/ /\ map[c] = None
     /\ Cardinality(Tracked) >= MaxEntries
     /\ \E evicted \in Evictions :
          LET gone == StaleClients \cup evicted
          IN  /\ map' = [d \in Client |-> IF d = c THEN a
                                          ELSE IF d \in gone THEN None
                                          ELSE map[d]]
              /\ DropEntries(gone)
              /\ forgotten' = forgotten \cup
                                UNION {Pruned(map[d]) : d \in evicted}
     /\ entry' = [entry EXCEPT ![a] = a]

----------------------------------------------------------------------------
(* with_strict_failure_rate_limit_using_ip *)

Goto(a, label) == pc' = [pc EXCEPT ![a] = label]

\* A disabled limiter lets every attempt through without looking.
Bypass(a) ==
  /\ disabled /\ pc[a] = "idle"
  /\ Goto(a, "done")
  /\ UNCHANGED <<disabled, map, failures, inFlight, age, key, strict, entry,
                 woken, waitsFor, forgotten>>

StartStrict(a, c) ==
  /\ ~disabled /\ pc[a] = "idle"
  /\ Goto(a, "loop")
  /\ key' = [key EXCEPT ![a] = c]
  /\ strict' = [strict EXCEPT ![a] = TRUE]
  /\ GetOrInsert(a, c)
  /\ UNCHANGED <<disabled, inFlight, age, woken, waitsFor>>

\* entry.released.notified(), created before the budget is checked.
Arm(a) ==
  /\ pc[a] = "loop"
  /\ Goto(a, "armed")
  /\ woken' = [woken EXCEPT ![a] = FALSE]
  /\ UNCHANGED <<disabled, map, failures, inFlight, age, key, strict, entry,
                 waitsFor, forgotten>>

\* Mutant: attempts in flight refuse others.
SpentOrInFlight(e, live) ==
  \/ Cardinality(live) >= MaxAttempts
  \/ e # None /\ Cardinality(live) + inFlight[e] >= MaxAttempts

\* The recorded failures alone use up the budget of entry e.
Spent(e, live) == Cardinality(live) >= MaxAttempts

\* Mutant: attempts in flight are not counted.
TakenByFailures(e, live) == Cardinality(live) >= MaxAttempts

\* The failures and the attempts in flight use up the budget of entry e.
Taken(e, live) == Cardinality(live) + inFlight[e] >= MaxAttempts

\* RateLimiter::reserve, under the entry's lock.
Reserve(a) ==
  LET e == entry[a]
      live == Pruned(e)
  IN  /\ pc[a] = "armed"
      /\ failures' = [failures EXCEPT ![e] = live]
      /\ \/ /\ Spent(e, live)
            /\ Goto(a, "refused")
            /\ entry' = [entry EXCEPT ![a] = None]
            /\ UNCHANGED <<inFlight, waitsFor>>
         \/ /\ ~Spent(e, live) /\ Taken(e, live)
            /\ Goto(a, "waiting")
            /\ \/ /\ live = {}
                  /\ waitsFor' = [waitsFor EXCEPT ![a] = None]
               \/ \E oldest \in live :
                    /\ \A f \in live : age[f] <= age[oldest]
                    /\ waitsFor' = [waitsFor EXCEPT ![a] = oldest]
            /\ UNCHANGED <<inFlight, entry>>
         \/ /\ ~Spent(e, live) /\ ~Taken(e, live)
            /\ Goto(a, "running")
            /\ inFlight' = [inFlight EXCEPT ![e] = @ + 1]
            /\ UNCHANGED <<entry, waitsFor>>
      /\ UNCHANGED <<disabled, map, age, key, strict, woken, forgotten>>

\* released.await, or timeout_at(expiry, released).await
Wake(a) ==
  /\ pc[a] = "waiting"
  /\ \/ woken[a]
     \/ waitsFor[a] # None /\ age[waitsFor[a]] >= Window
  /\ Goto(a, "loop")
  /\ UNCHANGED <<disabled, map, failures, inFlight, age, key, strict, entry,
                 woken, waitsFor, forgotten>>

\* attempts.in_flight.saturating_sub(1)
GiveBack(e) ==
  inFlight' = [inFlight EXCEPT ![e] = IF @ > 0 THEN @ - 1 ELSE 0]

\* Mutant: the reservation is not given back.
ReleaseLeaking(a) ==
  /\ pc[a] = "running"
  /\ Goto(a, "notify")
  /\ UNCHANGED <<disabled, map, failures, inFlight, age, key, strict, entry,
                 woken, waitsFor, forgotten>>

\* Mutant: nobody is notified.
ReleaseSilently(a) ==
  /\ pc[a] = "running"
  /\ GiveBack(entry[a])
  /\ Goto(a, "done")
  /\ entry' = [entry EXCEPT ![a] = None]
  /\ UNCHANGED <<disabled, map, failures, age, key, strict, woken, waitsFor,
                 forgotten>>

\* Reservation::drop: the future succeeded, panicked or was dropped (the
\* client disconnected).
Release(a) ==
  /\ pc[a] = "running"
  /\ GiveBack(entry[a])
  /\ Goto(a, "notify")
  /\ UNCHANGED <<disabled, map, failures, age, key, strict, entry, woken,
                 waitsFor, forgotten>>

\* Mutant: replaces the failures before it.
PushOnlyFailure(a, e) ==
  /\ failures' = [failures EXCEPT ![e] = {a}]
  /\ age' = [age EXCEPT ![a] = 0]

\* RateLimiter::push_failure, under the entry's lock.
PushFailure(a, e) ==
  /\ failures' = [failures EXCEPT ![e] = Pruned(e) \cup {a}]
  /\ age' = [age EXCEPT ![a] = 0]

\* Mutant: the reservation is given back here and again when it is dropped,
\* without saturating.
FailGivesBackTwice(a) ==
  /\ pc[a] = "running"
  /\ inFlight' = [inFlight EXCEPT ![entry[a]] = @ - 2]
  /\ PushFailure(a, entry[a])
  /\ Goto(a, "notifyFailed")
  /\ UNCHANGED <<disabled, map, key, strict, entry, woken, waitsFor, forgotten>>

\* Reservation::fail, up to the end of its critical section.
Fail(a) ==
  /\ pc[a] = "running"
  /\ GiveBack(entry[a])
  /\ PushFailure(a, entry[a])
  /\ Goto(a, "notifyFailed")
  /\ UNCHANGED <<disabled, map, key, strict, entry, woken, waitsFor, forgotten>>

\* entry.released.notify_waiters(): every Notified future created so far on
\* the entry, polled or not. The attempt then drops its reference.
NotifyWaiters(a) ==
  /\ \/ pc[a] = "notify" /\ Goto(a, "done")
     \/ pc[a] = "notifyFailed" /\ Goto(a, "failed")
  /\ woken' = [b \in Attempt |->
                 woken[b] \/ (/\ entry[b] = entry[a]
                              /\ pc[b] \in {"armed", "waiting"})]
  /\ entry' = [entry EXCEPT ![a] = None]
  /\ UNCHANGED <<disabled, map, failures, inFlight, age, key, strict, waitsFor,
                 forgotten>>

----------------------------------------------------------------------------
(* with_failure_rate_limit_using_ip *)

\* RateLimiter::get: a client without an entry is not given one.
StartLenient(a, c) ==
  /\ ~disabled /\ pc[a] = "idle"
  /\ Goto(a, "lookedUp")
  /\ key' = [key EXCEPT ![a] = c]
  /\ entry' = [entry EXCEPT ![a] = map[c]]
  /\ UNCHANGED <<disabled, map, failures, inFlight, age, strict, woken,
                 waitsFor, forgotten>>

\* RateLimiter::check: only recorded failures count.
Check(a) ==
  LET e == entry[a]
      live == IF e = None THEN {} ELSE Pruned(e)
  IN  /\ pc[a] = "lookedUp"
      /\ failures' = [d \in Attempt |-> IF d = e THEN live ELSE failures[d]]
      /\ \/ /\ Spent(e, live)
            /\ Goto(a, "refused")
            /\ entry' = [entry EXCEPT ![a] = None]
         \/ /\ ~Spent(e, live)
            /\ Goto(a, "attempting")
            /\ UNCHANGED entry
      /\ UNCHANGED <<disabled, map, inFlight, age, key, strict, woken, waitsFor,
                     forgotten>>

AttemptFails(a) ==
  /\ pc[a] = "attempting"
  /\ Goto(a, "failing")
  /\ UNCHANGED <<disabled, map, failures, inFlight, age, key, strict, entry,
                 woken, waitsFor, forgotten>>

\* The entry is looked up again: there may have been none before.
LookUpAgain(a) ==
  /\ pc[a] = "failing"
  /\ Goto(a, "recording")
  /\ GetOrInsert(a, key[a])
  /\ UNCHANGED <<disabled, inFlight, age, key, strict, woken, waitsFor>>

\* RateLimiter::record_failure; the attempt then drops its references.
RecordFailure(a) ==
  /\ pc[a] = "recording"
  /\ PushFailure(a, entry[a])
  /\ Goto(a, "failed")
  /\ entry' = [entry EXCEPT ![a] = None]
  /\ UNCHANGED <<disabled, map, inFlight, key, strict, woken, waitsFor, forgotten>>

\* A lenient attempt succeeds, or an attempt that reserved nothing is
\* dropped at one of its awaits.
Leave(a) ==
  /\ pc[a] \in {"waiting", "attempting", "failing"}
  /\ Goto(a, "done")
  /\ entry' = [entry EXCEPT ![a] = None]
  /\ UNCHANGED <<disabled, map, failures, inFlight, age, key, strict, woken,
                 waitsFor, forgotten>>

----------------------------------------------------------------------------
(* The cleanup task and time *)

\* RateLimiter::cleanup_at, under the map's write lock.
Cleanup ==
  /\ StaleClients # {}
  /\ map' = [c \in Client |-> IF c \in StaleClients THEN None ELSE map[c]]
  /\ DropEntries(StaleClients)
  /\ UNCHANGED <<disabled, inFlight, age, pc, key, strict, entry, woken,
                 waitsFor, forgotten>>

Tick ==
  /\ \E a \in Attempt : age[a] < Window
  /\ age' = [a \in Attempt |-> IF age[a] < Window THEN age[a] + 1 ELSE Window]
  /\ UNCHANGED <<disabled, map, failures, inFlight, pc, key, strict, entry,
                 woken, waitsFor, forgotten>>

\* What the server itself does with an attempt once it was started.
Step(a) == \/ Arm(a)
           \/ Reserve(a)
           \/ Wake(a)
           \/ NotifyWaiters(a)
           \/ Check(a)
           \/ LookUpAgain(a)
           \/ RecordFailure(a)

\* How the limited future ends, or that the client goes away.
Outcome(a) == \/ Release(a)
              \/ Fail(a)
              \/ AttemptFails(a)
              \/ Leave(a)

Next == \/ \E a \in Attempt :
             \/ Bypass(a)
             \/ \E c \in Client : StartStrict(a, c) \/ StartLenient(a, c)
             \/ Step(a)
             \/ Outcome(a)
        \/ Cleanup
        \/ Tick

Spec == Init /\ [][Next]_vars

\* Tokio polls every woken task, time passes, and every limited future ends
\* (it checks a password or a code, or its request is dropped).
Fairness == /\ \A a \in Attempt : /\ WF_vars(Step(a))
                                  /\ WF_vars(Release(a) \/ Fail(a))
            /\ WF_vars(Tick)

FairSpec == Spec /\ Fairness

----------------------------------------------------------------------------
(* Properties *)

\* The failures of client c that the limiter has to count: recorded, still
\* in the window, and not evicted for lack of room.
Recorded(a) == pc[a] \in {"notifyFailed", "failed"}
Counting(c) == {a \in Attempt : /\ Recorded(a)
                                /\ key[a] = c
                                /\ age[a] < Window
                                /\ a \notin forgotten}
Running(c) == {a \in Attempt : pc[a] = "running" /\ key[a] = c}

\* An entry an attempt still holds is the one on the map, so what the
\* attempt records there is seen by every later attempt (the comment in
\* is_stale on the "free attempt").
HeldIsMapped ==
  \A a \in Attempt : entry[a] # None => map[key[a]] = entry[a]

\* A recorded failure stays on its client's entry for the whole window,
\* whatever cleanup, eviction and other attempts do in between.
NoLostFailure ==
  \A a \in Attempt :
    Recorded(a) /\ age[a] < Window /\ a \notin forgotten =>
      map[key[a]] # None /\ a \in failures[map[key[a]]]

\* in_flight counts exactly the reservations that are out: none is kept by
\* an attempt that is gone, none is given back twice.
InFlightExact ==
  \A c \in Client : map[c] # None =>
    inFlight[map[c]] = Cardinality(Running(c))

\* The limiter's map is consistent with the attempts that use it: entries in
\* use are the mapped ones, reservations are counted exactly and no recorded
\* failure is lost, however cleanup, eviction, drops and waiters interleave.
LimiterConsistent == /\ TypeOK
                     /\ HeldIsMapped
                     /\ NoLostFailure
                     /\ InFlightExact

\* "No more than max_attempts attempts can fail within the window, however
\* many are sent at once": the strict failures that count and the strict
\* attempts that may still fail never exceed the budget.
StrictBound ==
  \A c \in Client :
    Cardinality({a \in Counting(c) : strict[a]}) + Cardinality(Running(c))
      <= MaxAttempts

\* Attempts in flight never cause a refusal, only recorded failures do: a
\* client is answered 429 only when its failures used up the budget.
RefusedOnlyWhenSpent ==
  [][\A a \in Attempt :
       pc[a] # "refused" /\ pc'[a] = "refused" =>
         Cardinality(Counting(key[a])) >= MaxAttempts]_vars

\* make_room lets the map grow past max_entries only when every client on it
\* is in use.
OverFullOnlyInUse ==
  [][Cardinality(Tracked') > Cardinality(Tracked)
       /\ Cardinality(Tracked') > MaxEntries
     => \A c \in Tracked' : Held(map[c])']_vars

\* No lost wakeup: a strict attempt that waits for the budget gets an answer
\* (it runs, or is refused) once the attempts before it have ended.
Waiting(a) == pc[a] \in {"loop", "armed", "waiting"}
WaitersAnswered == \A a \in Attempt : Waiting(a) ~> ~Waiting(a)

\* The limiter implements the failure budget.
Budget == INSTANCE AttemptBudget WITH
            running <- [c \in Client |-> Running(c)],
            spent <- [c \in Client |-> Counting(c)]
BudgetSpec == Budget!Spec
=============================================================================
