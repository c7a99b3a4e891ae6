------------------------- MODULE RateLimiterProofs -------------------------
(***************************************************************************)
(* The rate limiter's guarantees for any number of attempts and clients,   *)
(* any budget, window and map size. The argument has two layers:           *)
(*   Shape   where references, entries and failures are (no counting), an  *)
(*           inductive invariant on its own;                               *)
(*   IInv    Shape with the two counting invariants, which are preserved   *)
(*           because Shape places every failure that counts on the one     *)
(*           entry that Reserve looks at.                                  *)
(***************************************************************************)
EXTENDS RateLimiter, FiniteSetTheorems, TLAPS

Resting == {"idle", "refused", "failed", "done"}
UsesEntry == {"loop", "armed", "waiting", "running", "notify",
              "notifyFailed", "recording"}
BeforeInsert == {"idle", "lookedUp", "attempting", "failing"}

Mapped(e) == \E c \in Client : map[c] = e

\* One client per entry.
MapInjective ==
  \A c, d \in Client : map[c] # None /\ map[c] = map[d] => c = d

\* What an attempt's program counter says about its other variables, and
\* that an entry's name is unused until its attempt inserts it.
PcConsistent ==
  \A a \in Attempt :
    /\ pc[a] \in Resting => entry[a] = None
    /\ pc[a] \in UsesEntry => entry[a] # None
    /\ pc[a] \notin {"idle", "done"} => key[a] \in Client
    /\ pc[a] \in BeforeInsert \cup {"recording"} => ~strict[a]
    /\ pc[a] \in BeforeInsert => ~Mapped(a)
    /\ entry[a] # None => key[a] \in Client

\* An entry that is not on the map holds nothing.
UnmappedEmpty ==
  \A e \in Attempt : ~Mapped(e) => failures[e] = {} /\ inFlight[e] = 0

\* An entry holds recorded failures of its own client only.
OwnFailures ==
  \A c \in Client : map[c] # None =>
    \A f \in failures[map[c]] : Recorded(f) /\ key[f] = c /\ f \notin forgotten

ForgottenRecorded == \A f \in forgotten : Recorded(f)

Shape == /\ TypeOK
         /\ MapInjective
         /\ PcConsistent
         /\ HeldIsMapped
         /\ UnmappedEmpty
         /\ OwnFailures
         /\ ForgottenRecorded
         /\ NoLostFailure

IInv == Shape /\ InFlightExact /\ StrictBound

----------------------------------------------------------------------------
(* Shape is inductive *)

\* A fresh limiter.
LEMMA ShapeInit == Init => Shape
  BY ConstantsAssumption
     DEF Init, Shape, TypeOK, PC, MapInjective, PcConsistent, HeldIsMapped,
         UnmappedEmpty, OwnFailures, ForgottenRecorded, NoLostFailure, Mapped,
         Recorded, Resting, UsesEntry, BeforeInsert

\* The clients a write-locked sweep of the map removes are in nobody's hands.
LEMMA GoneUnused ==
  ASSUME NEW evicted \in Evictions, Shape
  PROVE  \A d \in StaleClients \cup evicted :
           /\ d \in Client
           /\ map[d] \in Attempt
           /\ inFlight[map[d]] = 0
           /\ \A b \in Attempt : entry[b] # map[d]
  BY DEF Evictions, Removable, StaleClients, Tracked, IsStale, Held, Shape, TypeOK

MapWithout(gone) == [d \in Client |-> IF d \in gone THEN None ELSE map[d]]
FailuresWithout(gone) ==
  [e \in Attempt |-> IF \E d \in gone : map[d] = e THEN {} ELSE failures[e]]

\* The clients gone are unused, and fg adds to the forgotten failures the
\* live ones that are lost with them.
Droppable(gone, fg) ==
  /\ gone \in SUBSET Client
  /\ \A d \in gone : /\ map[d] \in Attempt
                     /\ inFlight[map[d]] = 0
                     /\ \A b \in Attempt : entry[b] # map[d]
  /\ fg \in SUBSET Attempt
  /\ forgotten \subseteq fg
  /\ \A f \in fg \ forgotten : \E d \in gone : f \in failures[map[d]]
  /\ \A d \in gone : \A f \in failures[map[d]] : age[f] < Window => f \in fg

\* The map m and the failures fs are in shape, for the attempts as they are.
InShape(m, fs, fg) ==
  /\ m \in [Client -> Attempt \cup {None}]
  /\ fs \in [Attempt -> SUBSET Attempt]
  /\ fg \in SUBSET Attempt
  /\ \A c, d \in Client : m[c] # None /\ m[c] = m[d] => c = d
  /\ \A b \in Attempt : entry[b] # None => m[key[b]] = entry[b]
  /\ \A e \in Attempt : (\A d \in Client : m[d] # e) => fs[e] = {} /\ inFlight[e] = 0
  /\ \A d \in Client : m[d] # None =>
       \A f \in fs[m[d]] : Recorded(f) /\ key[f] = d /\ f \notin fg
  /\ \A f \in fg : Recorded(f)
  /\ \A b \in Attempt : Recorded(b) /\ age[b] < Window /\ b \notin fg =>
       m[key[b]] # None /\ b \in fs[m[key[b]]]

\* Removing unused clients (cleanup_at, make_room) keeps the shape.
LEMMA DropShape ==
  ASSUME Shape, NEW gone, NEW fg, Droppable(gone, fg)
  PROVE  /\ InShape(MapWithout(gone), FailuresWithout(gone), fg)
         /\ \A b \in Attempt : ~Mapped(b) => \A d \in Client : MapWithout(gone)[d] # b
<1> USE DEF Shape, TypeOK, MapWithout, FailuresWithout, Droppable
<1>1. \A a \in Attempt : Recorded(a) => key[a] \in Client
  BY DEF PcConsistent, Recorded
<1>2. \A a \in Attempt : entry[a] # None => key[a] \in Client
  BY DEF PcConsistent
<1>3. MapWithout(gone) \in [Client -> Attempt \cup {None}]
  OBVIOUS
<1>4. FailuresWithout(gone) \in [Attempt -> SUBSET Attempt]
  OBVIOUS
<1>5. \A c, d \in Client :
        MapWithout(gone)[c] # None /\ MapWithout(gone)[c] = MapWithout(gone)[d] => c = d
  BY DEF MapInjective
<1>6. \A a \in Attempt : ~Mapped(a) => \A c \in Client : MapWithout(gone)[c] # a
  BY ConstantsAssumption DEF Mapped
<1>7. \A a \in Attempt : entry[a] # None => MapWithout(gone)[key[a]] = entry[a]
  BY <1>2 DEF HeldIsMapped
<1>8. \A e \in Attempt : (\A c \in Client : MapWithout(gone)[c] # e)
                          => FailuresWithout(gone)[e] = {} /\ inFlight[e] = 0
  BY DEF UnmappedEmpty, Mapped
<1>9. \A c \in Client : MapWithout(gone)[c] # None =>
        \A f \in FailuresWithout(gone)[MapWithout(gone)[c]] :
           Recorded(f) /\ key[f] = c /\ f \notin fg
  <2> SUFFICES ASSUME NEW c \in Client, MapWithout(gone)[c] # None,
                      NEW f \in FailuresWithout(gone)[MapWithout(gone)[c]]
               PROVE  Recorded(f) /\ key[f] = c /\ f \notin fg
    OBVIOUS
  <2>1. c \notin gone /\ MapWithout(gone)[c] = map[c] /\ f \in failures[map[c]]
    OBVIOUS
  <2>2. Recorded(f) /\ key[f] = c /\ f \notin forgotten
    BY <2>1 DEF OwnFailures
  <2>3. \A d \in gone : f \notin failures[map[d]]
    BY <2>1, <2>2, ConstantsAssumption DEF OwnFailures
  <2> QED
    BY <2>2, <2>3
<1>10. \A f \in fg : Recorded(f)
  BY ConstantsAssumption DEF ForgottenRecorded, OwnFailures
<1>11. \A a \in Attempt : Recorded(a) /\ age[a] < Window /\ a \notin fg =>
         /\ MapWithout(gone)[key[a]] # None
         /\ a \in FailuresWithout(gone)[MapWithout(gone)[key[a]]]
  <2> SUFFICES ASSUME NEW a \in Attempt, Recorded(a), age[a] < Window, a \notin fg
               PROVE  /\ MapWithout(gone)[key[a]] # None
                      /\ a \in FailuresWithout(gone)[MapWithout(gone)[key[a]]]
    OBVIOUS
  <2>1. key[a] \in Client /\ map[key[a]] # None /\ a \in failures[map[key[a]]]
    BY <1>1 DEF NoLostFailure
  <2>2. \A d \in gone : map[d] # map[key[a]]
    BY <2>1
  <2> QED
    BY <2>1, <2>2
<1> QED
  BY <1>3, <1>4, <1>5, <1>6, <1>7, <1>8, <1>9, <1>10, <1>11 DEF InShape

\* Looking an entry up or inserting it (get_or_insert) keeps the shape; the
\* calling attempt then holds the entry on the map.
LEMMA GetOrInsertShape ==
  ASSUME Shape,
         NEW a \in Attempt, NEW c \in Client,
         pc[a] \in BeforeInsert,
         GetOrInsert(a, c)
  PROVE  /\ InShape(map', failures', forgotten')
         /\ \A b \in Attempt \ {a} : ~Mapped(b) => \A d \in Client : map'[d] # b
         /\ map'[c] \in Attempt
         /\ entry' = [entry EXCEPT ![a] = map'[c]]
<1> USE DEF Shape, TypeOK
<1>a. a # None
  BY ConstantsAssumption
<1>b. \A b \in Attempt : Recorded(b) => key[b] \in Client
  BY DEF PcConsistent, Recorded
<1>c. \A b \in Attempt : entry[b] # None => key[b] \in Client /\ map[key[b]] = entry[b]
  BY DEF PcConsistent, HeldIsMapped
<1>d. ~Mapped(a)
  BY DEF PcConsistent
<1>e. failures[a] = {} /\ inFlight[a] = 0
  BY <1>d DEF UnmappedEmpty
<1>1. CASE /\ map[c] # None
           /\ entry' = [entry EXCEPT ![a] = map[c]]
           /\ UNCHANGED <<map, failures, forgotten>>
  BY <1>1, <1>b, <1>c
     DEF MapInjective, Mapped, UnmappedEmpty, OwnFailures, ForgottenRecorded,
         NoLostFailure, InShape, HeldIsMapped
<1>2. CASE map[c] = None
  <2> DEFINE P(gone) == /\ Droppable(gone, forgotten')
                        /\ map' = [MapWithout(gone) EXCEPT ![c] = a]
                        /\ failures' = FailuresWithout(gone)
                        /\ entry' = [entry EXCEPT ![a] = a]
  <2>1. \E gone : P(gone)
    <3>1. CASE /\ map' = [map EXCEPT ![c] = a]
               /\ entry' = [entry EXCEPT ![a] = a]
               /\ UNCHANGED <<failures, forgotten>>
      <4>1. MapWithout({}) = map /\ FailuresWithout({}) = failures
        BY DEF MapWithout, FailuresWithout
      <4>2. P({})
        BY <3>1, <4>1 DEF Droppable
      <4> QED
        BY <4>2
    <3>2. ASSUME NEW evicted \in Evictions,
                 map' = [d \in Client |-> IF d = c THEN a
                                          ELSE IF d \in StaleClients \cup evicted
                                               THEN None ELSE map[d]],
                 DropEntries(StaleClients \cup evicted),
                 forgotten' = forgotten \cup UNION {Pruned(map[d]) : d \in evicted},
                 entry' = [entry EXCEPT ![a] = a]
          PROVE  P(StaleClients \cup evicted)
      <4>1. \A d \in StaleClients \cup evicted :
              /\ d \in Client
              /\ map[d] \in Attempt
              /\ inFlight[map[d]] = 0
              /\ \A b \in Attempt : entry[b] # map[d]
        BY GoneUnused
      <4>2. \A d \in StaleClients : \A f \in failures[map[d]] : ~(age[f] < Window)
        <5> TAKE d \in StaleClients
        <5> TAKE f \in failures[map[d]]
        <5>1. age[f] >= Window /\ f \in Attempt
          BY <4>1 DEF StaleClients, IsStale
        <5> QED
          BY <5>1, ConstantsAssumption
      <4>3. \A d \in evicted : \A f \in failures[map[d]] :
              age[f] < Window => f \in forgotten'
        BY <3>2 DEF Pruned
      <4>4. \A f \in forgotten' \ forgotten : \E d \in evicted : f \in failures[map[d]]
        BY <3>2 DEF Pruned
      <4>5. forgotten' \in SUBSET Attempt /\ forgotten \subseteq forgotten'
        BY <3>2, <4>1 DEF Pruned
      <4>6. Droppable(StaleClients \cup evicted, forgotten')
        BY <4>1, <4>2, <4>3, <4>4, <4>5 DEF Droppable
      <4> QED
        BY <3>2, <4>6 DEF DropEntries, MapWithout, FailuresWithout
    <3> QED
      BY <1>2, <3>1, <3>2 DEF GetOrInsert
  <2>2. PICK gone : P(gone)
    BY <2>1
  <2>3. /\ InShape(MapWithout(gone), failures', forgotten')
        /\ \A b \in Attempt : ~Mapped(b) => \A d \in Client : MapWithout(gone)[d] # b
    <3> HIDE DEF Shape, TypeOK
    <3> QED
      BY <2>2, DropShape
  <2>4. MapWithout(gone)[c] = None /\ failures'[a] = {}
    BY <1>2, <1>e, <2>2 DEF MapWithout, FailuresWithout
  <2>5. /\ map'[c] = a
        /\ \A d \in Client : d # c => map'[d] = MapWithout(gone)[d] /\ map'[d] # a
        /\ map' \in [Client -> Attempt \cup {None}]
    BY <1>d, <2>2, <2>3 DEF InShape
  <2>6. \A b \in Attempt \ {a} : ~Mapped(b) => \A d \in Client : map'[d] # b
    BY <2>3, <2>5
  <2>7. InShape(map', failures', forgotten')
    <3> USE DEF InShape
    <3>1. \A d, e \in Client : map'[d] # None /\ map'[d] = map'[e] => d = e
      BY <2>3, <2>5
    <3>2. \A b \in Attempt : entry[b] # None => map'[key[b]] = entry[b]
      BY <1>c, <2>3, <2>4, <2>5
    <3>3. \A e \in Attempt : (\A d \in Client : map'[d] # e)
                               => failures'[e] = {} /\ inFlight[e] = 0
      BY ConstantsAssumption, <1>e, <2>3, <2>4, <2>5
    <3>4. \A d \in Client : map'[d] # None =>
            \A f \in failures'[map'[d]] :
              Recorded(f) /\ key[f] = d /\ f \notin forgotten'
      BY <2>3, <2>4, <2>5
    <3>5. \A b \in Attempt : Recorded(b) /\ age[b] < Window /\ b \notin forgotten' =>
            map'[key[b]] # None /\ b \in failures'[map'[key[b]]]
      BY <1>b, <2>3, <2>4, <2>5
    <3> QED
      BY <2>3, <2>5, <3>1, <3>2, <3>3, <3>4, <3>5
  <2> QED
    BY <2>2, <2>5, <2>6, <2>7
<1> QED
  BY <1>1, <1>2 DEF GetOrInsert

\* Every action keeps the shape. The two that look an entry up rest on
\* GetOrInsertShape, the cleanup on DropShape.
LEMMA ShapeStep == Shape /\ [Next]_vars => Shape'
<1> SUFFICES ASSUME Shape, [Next]_vars PROVE Shape'
  OBVIOUS
<1> USE DEF Goto, Resting, UsesEntry, BeforeInsert
<1>k. \A b \in Attempt : Recorded(b) => key[b] \in Client
  BY DEF Shape, TypeOK, PcConsistent, Recorded
<1>1. ASSUME NEW a \in Attempt, Bypass(a) PROVE Shape'
  BY <1>1 DEF Bypass, Shape, TypeOK, PC, MapInjective, PcConsistent, HeldIsMapped,
              UnmappedEmpty, OwnFailures, ForgottenRecorded, NoLostFailure,
              Mapped, Recorded
<1>2. ASSUME NEW a \in Attempt, NEW c \in Client, StartStrict(a, c) PROVE Shape'
  <2>1. /\ InShape(map', failures', forgotten')
        /\ \A b \in Attempt \ {a} : ~Mapped(b) => \A d \in Client : map'[d] # b
        /\ map'[c] \in Attempt
        /\ entry' = [entry EXCEPT ![a] = map'[c]]
    BY <1>2, GetOrInsertShape DEF StartStrict
  <2> QED
    BY <1>2, <1>k, <2>1, ConstantsAssumption
       DEF InShape, StartStrict, Shape, TypeOK, PC, MapInjective, PcConsistent,
           HeldIsMapped, UnmappedEmpty, OwnFailures, ForgottenRecorded,
           NoLostFailure, Mapped, Recorded
<1>3. ASSUME NEW a \in Attempt, Arm(a) PROVE Shape'
  BY <1>3 DEF Arm, Shape, TypeOK, PC, MapInjective, PcConsistent, HeldIsMapped,
              UnmappedEmpty, OwnFailures, ForgottenRecorded, NoLostFailure,
              Mapped, Recorded
<1>4. ASSUME NEW a \in Attempt, Reserve(a) PROVE Shape'
  <2> DEFINE e == entry[a]
             live == Pruned(e)
  <2>1. e \in Attempt /\ key[a] \in Client /\ map[key[a]] = e
    BY <1>4 DEF Reserve, Shape, TypeOK, PcConsistent, HeldIsMapped
  <2>2. live \subseteq failures[e] /\ failures' = [failures EXCEPT ![e] = live]
    BY <1>4 DEF Reserve, Pruned
  <2>3. /\ pc' \in [Attempt -> PC]
        /\ inFlight' \in [Attempt -> Nat]
        /\ entry' \in [Attempt -> Attempt \cup {None}]
        /\ waitsFor' \in [Attempt -> Attempt \cup {None}]
        /\ \A b \in Attempt : /\ entry'[b] = entry[b] \/ entry'[b] = None
                              /\ b # a => entry'[b] = entry[b] /\ pc'[b] = pc[b]
        /\ \/ pc'[a] \in {"running", "waiting"} /\ entry'[a] = e
           \/ pc'[a] = "refused" /\ entry'[a] = None
        /\ \A d \in Attempt : d # e => inFlight'[d] = inFlight[d]
    BY <1>4, <2>1, <2>2 DEF Reserve, Shape, TypeOK, PC
  <2>4. UNCHANGED <<disabled, map, age, key, strict, woken, forgotten>> /\ pc[a] = "armed"
    BY <1>4 DEF Reserve
  <2>5. \A b \in Attempt : Recorded(b) <=> Recorded(b)'
    BY <2>3, <2>4 DEF Recorded
  <2> HIDE DEF live, e
  <2>6. TypeOK'
    BY <2>1, <2>2, <2>3, <2>4 DEF Shape, TypeOK
  <2>7. MapInjective' /\ HeldIsMapped'
    BY <2>3, <2>4 DEF Shape, MapInjective, HeldIsMapped
  <2>8. PcConsistent'
    BY <2>1, <2>3, <2>4, ConstantsAssumption DEF Shape, PcConsistent, Mapped
  <2>9. UnmappedEmpty'
    BY <2>1, <2>2, <2>3, <2>4 DEF Shape, TypeOK, UnmappedEmpty, Mapped
  <2>10. OwnFailures' /\ ForgottenRecorded'
    BY <2>1, <2>2, <2>4, <2>5 DEF Shape, TypeOK, OwnFailures, ForgottenRecorded
  <2>11. NoLostFailure'
    BY <1>k, <2>1, <2>2, <2>4, <2>5
       DEF Shape, TypeOK, NoLostFailure, Pruned, live, e
  <2> QED
    BY <2>6, <2>7, <2>8, <2>9, <2>10, <2>11 DEF Shape
<1>5. ASSUME NEW a \in Attempt, Wake(a) PROVE Shape'
  BY <1>5 DEF Wake, Shape, TypeOK, PC, MapInjective, PcConsistent, HeldIsMapped,
              UnmappedEmpty, OwnFailures, ForgottenRecorded, NoLostFailure,
              Mapped, Recorded
<1>6. ASSUME NEW a \in Attempt, Release(a) PROVE Shape'
  BY <1>6 DEF Release, GiveBack, Shape, TypeOK, PC, MapInjective, PcConsistent,
              HeldIsMapped,
              UnmappedEmpty, OwnFailures, ForgottenRecorded, NoLostFailure,
              Mapped, Recorded
<1>7. ASSUME NEW a \in Attempt, Fail(a) PROVE Shape'
  BY <1>7, <1>k, ConstantsAssumption DEF Fail, GiveBack, PushFailure, Pruned, Shape,
     TypeOK, PC, MapInjective, PcConsistent, HeldIsMapped,
              UnmappedEmpty, OwnFailures, ForgottenRecorded, NoLostFailure,
              Mapped, Recorded
<1>8. ASSUME NEW a \in Attempt, NotifyWaiters(a) PROVE Shape'
  BY <1>8 DEF NotifyWaiters, Shape, TypeOK, PC, MapInjective, PcConsistent,
              HeldIsMapped,
              UnmappedEmpty, OwnFailures, ForgottenRecorded, NoLostFailure,
              Mapped, Recorded
<1>9. ASSUME NEW a \in Attempt, NEW c \in Client, StartLenient(a, c) PROVE Shape'
  BY <1>9, <1>k DEF StartLenient, Shape, TypeOK, PC, MapInjective, PcConsistent,
                    HeldIsMapped,
              UnmappedEmpty, OwnFailures, ForgottenRecorded, NoLostFailure,
              Mapped, Recorded
<1>10. ASSUME NEW a \in Attempt, Check(a) PROVE Shape'
  BY <1>10, <1>k DEF Check, Pruned, Shape, TypeOK, PC, MapInjective, PcConsistent,
                     HeldIsMapped,
              UnmappedEmpty, OwnFailures, ForgottenRecorded, NoLostFailure,
              Mapped, Recorded
<1>11. ASSUME NEW a \in Attempt, AttemptFails(a) PROVE Shape'
  BY <1>11 DEF AttemptFails, Shape, TypeOK, PC, MapInjective, PcConsistent,
               HeldIsMapped,
              UnmappedEmpty, OwnFailures, ForgottenRecorded, NoLostFailure,
              Mapped, Recorded
<1>12. ASSUME NEW a \in Attempt, LookUpAgain(a) PROVE Shape'
  <2>0. key[a] \in Client
    BY <1>12 DEF LookUpAgain, Shape, PcConsistent
  <2>1. /\ InShape(map', failures', forgotten')
        /\ \A b \in Attempt \ {a} : ~Mapped(b) => \A d \in Client : map'[d] # b
        /\ map'[key[a]] \in Attempt
        /\ entry' = [entry EXCEPT ![a] = map'[key[a]]]
    BY <1>12, <2>0, GetOrInsertShape DEF LookUpAgain
  <2> QED
    BY <1>12, <1>k, <2>0, <2>1, ConstantsAssumption
       DEF InShape, LookUpAgain, Shape, TypeOK, PC, MapInjective, PcConsistent,
           HeldIsMapped, UnmappedEmpty, OwnFailures, ForgottenRecorded,
           NoLostFailure, Mapped, Recorded
<1>13. ASSUME NEW a \in Attempt, RecordFailure(a) PROVE Shape'
  BY <1>13, <1>k, ConstantsAssumption DEF RecordFailure, PushFailure, Pruned, Shape,
     TypeOK, PC, MapInjective, PcConsistent, HeldIsMapped,
              UnmappedEmpty, OwnFailures, ForgottenRecorded, NoLostFailure,
              Mapped, Recorded
<1>14. ASSUME NEW a \in Attempt, Leave(a) PROVE Shape'
  BY <1>14 DEF Leave, Shape, TypeOK, PC, MapInjective, PcConsistent, HeldIsMapped,
              UnmappedEmpty, OwnFailures, ForgottenRecorded, NoLostFailure,
              Mapped, Recorded
<1>15. CASE Cleanup
  <2>1. \A d \in StaleClients :
          /\ d \in Client
          /\ map[d] \in Attempt
          /\ inFlight[map[d]] = 0
          /\ \A b \in Attempt : entry[b] # map[d]
    BY DEF Shape, TypeOK, StaleClients, Tracked, IsStale, Held
  <2>2. \A d \in StaleClients : \A f \in failures[map[d]] : ~(age[f] < Window)
    <3> TAKE d \in StaleClients
    <3> TAKE f \in failures[map[d]]
    <3>1. age[f] >= Window /\ age[f] \in 0..Window
      BY <2>1 DEF StaleClients, IsStale, Shape, TypeOK
    <3> QED
      BY <3>1, ConstantsAssumption
  <2>3. Droppable(StaleClients, forgotten)
    BY <2>1, <2>2 DEF Droppable, Shape, TypeOK
  <2>4. /\ InShape(MapWithout(StaleClients), FailuresWithout(StaleClients), forgotten)
        /\ \A b \in Attempt : ~Mapped(b) =>
             \A d \in Client : MapWithout(StaleClients)[d] # b
    BY <2>3, DropShape
  <2>5. map' = MapWithout(StaleClients) /\ failures' = FailuresWithout(StaleClients)
    BY <1>15 DEF Cleanup, DropEntries, MapWithout, FailuresWithout
  <2> QED
    BY <1>15, <1>k, <2>4, <2>5
       DEF InShape, Cleanup, Shape, TypeOK, PC, MapInjective, PcConsistent,
           HeldIsMapped, UnmappedEmpty, OwnFailures, ForgottenRecorded,
           NoLostFailure, Mapped, Recorded
<1>16. CASE Tick
  BY <1>16, ConstantsAssumption DEF Tick, Shape, TypeOK, PC, MapInjective,
     PcConsistent, HeldIsMapped,
              UnmappedEmpty, OwnFailures, ForgottenRecorded, NoLostFailure,
              Mapped, Recorded
<1>17. CASE UNCHANGED vars
  BY <1>17 DEF vars, Shape, TypeOK, PC, MapInjective, PcConsistent, HeldIsMapped,
              UnmappedEmpty, OwnFailures, ForgottenRecorded, NoLostFailure,
              Mapped, Recorded
<1> QED
  BY <1>1, <1>2, <1>3, <1>4, <1>5, <1>6, <1>7, <1>8, <1>9, <1>10, <1>11, <1>12,
     <1>13, <1>14, <1>15, <1>16, <1>17 DEF Next, Step, Outcome

----------------------------------------------------------------------------
(* Counting *)

StrictCounting(c) == {a \in Counting(c) : strict[a]}

\* The attempts that count are finitely many (push_failure and reserve only
\* ever add attempts that were made), so their cardinalities add up.
LEMMA FiniteCounts ==
  ASSUME NEW c
  PROVE  /\ IsFiniteSet(Running(c)) /\ Cardinality(Running(c)) \in Nat
         /\ IsFiniteSet(Counting(c)) /\ Cardinality(Counting(c)) \in Nat
         /\ IsFiniteSet(StrictCounting(c)) /\ Cardinality(StrictCounting(c)) \in Nat
<1>1. /\ Running(c) \subseteq Attempt
      /\ Counting(c) \subseteq Attempt
      /\ StrictCounting(c) \subseteq Attempt
  BY DEF Running, Counting, StrictCounting
<1> QED
  BY <1>1, ConstantsAssumption, FS_Subset, FS_CardinalityType

\* The same after a step.
LEMMA FiniteCountsNext ==
  ASSUME NEW c
  PROVE  /\ IsFiniteSet(Running(c)') /\ Cardinality(Running(c)') \in Nat
         /\ IsFiniteSet(StrictCounting(c)') /\ Cardinality(StrictCounting(c)') \in Nat
<1>1. Running(c)' \subseteq Attempt /\ StrictCounting(c)' \subseteq Attempt
  BY DEF Running, Counting, StrictCounting
<1> QED
  BY <1>1, ConstantsAssumption, FS_Subset, FS_CardinalityType

\* Reserve sees every failure that counts: the pruned failures of the
\* client's entry are exactly them.
LEMMA PrunedIsCounting ==
  ASSUME Shape, NEW c \in Client, map[c] # None
  PROVE  Pruned(map[c]) = Counting(c)
  BY DEF Shape, TypeOK, OwnFailures, NoLostFailure, Pruned, Counting

\* A client without an entry has no attempt in flight and no failure.
LEMMA UntrackedIsIdle ==
  ASSUME Shape, NEW c \in Client, map[c] = None
  PROVE  Running(c) = {} /\ Counting(c) = {}
  BY DEF Shape, TypeOK, PcConsistent, HeldIsMapped, NoLostFailure, Running, Counting,
         UsesEntry

\* Steps that neither start nor end a strict attempt keep both counts.
LEMMA CountKept ==
  ASSUME IInv, Shape',
         inFlight' = inFlight,
         \A c \in Client : Running(c)' = Running(c),
         \A c \in Client : StrictCounting(c)' \subseteq StrictCounting(c),
         \A c \in Client : \/ map'[c] = None
                           \/ map'[c] = map[c]
                           \/ map[c] = None /\ inFlight[map'[c]] = 0
  PROVE  InFlightExact' /\ StrictBound'
<1>1. InFlightExact'
  <2> SUFFICES ASSUME NEW c \in Client, map'[c] # None
               PROVE  inFlight'[map'[c]] = Cardinality(Running(c)')
    BY DEF InFlightExact
  <2>1. CASE map'[c] = map[c]
    BY <2>1 DEF IInv, InFlightExact
  <2>2. CASE map[c] = None /\ inFlight[map'[c]] = 0
    BY <2>2, UntrackedIsIdle, FS_EmptySet DEF IInv
  <2> QED
    BY <2>1, <2>2
<1>2. StrictBound'
  <2> SUFFICES ASSUME NEW c \in Client
               PROVE  Cardinality(StrictCounting(c)') + Cardinality(Running(c)')
                        <= MaxAttempts
    BY DEF StrictBound, StrictCounting
  <2>1. Cardinality(StrictCounting(c)') <= Cardinality(StrictCounting(c))
    BY FiniteCounts, FS_Subset
  <2>2. Cardinality(StrictCounting(c)) + Cardinality(Running(c)) <= MaxAttempts
    BY DEF IInv, StrictBound, StrictCounting
  <2> QED
    BY <2>1, <2>2, FiniteCounts, FiniteCountsNext, ConstantsAssumption
<1> QED
  BY <1>1, <1>2

\* The budget moves with the reservation: reserve takes one of what is left.
LEMMA CountReserve ==
  ASSUME IInv, Shape', NEW a \in Attempt, Reserve(a)
  PROVE  InFlightExact' /\ StrictBound'
<1>0. PICK k \in Client : k = key[a]
  BY DEF Reserve, IInv, Shape, TypeOK, PcConsistent, HeldIsMapped, UsesEntry
<1> DEFINE e == entry[a]
<1>1. /\ e \in Attempt /\ e # None /\ map[k] = e
      /\ key[a] = k /\ pc[a] = "armed"
  BY <1>0 DEF Reserve, IInv, Shape, TypeOK, PcConsistent, HeldIsMapped, UsesEntry
<1>2. /\ UNCHANGED <<map, age, key, strict, forgotten>>
      /\ \A b \in Attempt : b # a => pc'[b] = pc[b]
      /\ pc'[a] \in {"running", "waiting", "refused"}
  BY DEF Reserve, Goto, IInv, Shape, TypeOK
<1>3. \A c \in Client : StrictCounting(c)' = StrictCounting(c)
  BY <1>1, <1>2 DEF StrictCounting, Counting, Recorded
<1>4. CASE pc'[a] # "running"
  <2>1. \A c \in Client : Running(c)' = Running(c)
    BY <1>1, <1>2, <1>4 DEF Running
  <2>2. inFlight' = inFlight
    BY <1>4 DEF Reserve, Goto, IInv, Shape, TypeOK
  <2> QED
    BY <1>2, <1>3, <2>1, <2>2, CountKept
<1>5. CASE pc'[a] = "running"
  <2>a. Cardinality(Pruned(e)) \in Nat
    BY <1>1, PrunedIsCounting, FiniteCounts DEF IInv
  <2>b. ~Taken(e, Pruned(e)) /\ inFlight' = [inFlight EXCEPT ![e] = @ + 1]
    BY <1>5 DEF Reserve, Goto, IInv, Shape, TypeOK
  <2>c. inFlight[e] \in Nat
    BY <1>1 DEF IInv, Shape, TypeOK
  <2>1. /\ Cardinality(Pruned(e)) + inFlight[e] < MaxAttempts
        /\ inFlight' = [inFlight EXCEPT ![e] = @ + 1]
    BY <2>a, <2>b, <2>c, ConstantsAssumption DEF Taken
  <2>2. /\ Running(k)' = Running(k) \cup {a}
        /\ a \notin Running(k)
        /\ \A c \in Client : c # k => Running(c)' = Running(c)
    BY <1>1, <1>2, <1>5 DEF Running
  <2>3. Cardinality(Running(k)') = Cardinality(Running(k)) + 1
    BY <2>2, FiniteCounts, FS_AddElement
  <2>4. inFlight[e] = Cardinality(Running(k))
    BY <1>1 DEF IInv, InFlightExact
  <2>5. Cardinality(StrictCounting(k)) <= Cardinality(Pruned(e))
    <3>1. StrictCounting(k) \subseteq Counting(k)
      BY DEF StrictCounting
    <3>2. Counting(k) = Pruned(e)
      BY <1>1, PrunedIsCounting DEF IInv
    <3> QED
      BY <3>1, <3>2, FiniteCounts, FS_Subset
  <2>7. InFlightExact'
    <3> SUFFICES ASSUME NEW c \in Client, map[c] # None
                 PROVE  inFlight'[map[c]] = Cardinality(Running(c)')
      BY <1>2 DEF InFlightExact
    <3>1. CASE c = k
      BY <3>1, <1>1, <2>1, <2>3, <2>4 DEF IInv, Shape, TypeOK
    <3>2. CASE c # k
      <4>1. map[c] # e /\ map[c] \in Attempt
        BY <3>2, <1>1 DEF IInv, Shape, TypeOK, MapInjective
      <4> QED
        BY <3>2, <4>1, <1>1, <2>1, <2>2 DEF IInv, InFlightExact, Shape, TypeOK
    <3> QED
      BY <3>1, <3>2
  <2>8. StrictBound'
    <3> SUFFICES ASSUME NEW c \in Client
                 PROVE  Cardinality(StrictCounting(c)') + Cardinality(Running(c)')
                          <= MaxAttempts
      BY DEF StrictBound, StrictCounting
    <3>1. CASE c = k
      BY <3>1, <1>3, <2>1, <2>3, <2>4, <2>5, <2>a, FiniteCounts, ConstantsAssumption
    <3>2. CASE c # k
      BY <3>2, <1>3, <2>2 DEF IInv, StrictBound, StrictCounting
    <3> QED
      BY <3>1, <3>2
  <2> QED
    BY <2>7, <2>8
<1> QED
  BY <1>4, <1>5

\* Giving a reservation back (Reservation::drop), and passing it to a failure
\* in the same critical section (Reservation::fail), keep the sum bounded.
LEMMA CountGiveBack ==
  ASSUME IInv, Shape', NEW a \in Attempt, Release(a) \/ Fail(a)
  PROVE  InFlightExact' /\ StrictBound'
<1>0. PICK k \in Client : k = key[a]
  BY DEF Release, Fail, IInv, Shape, TypeOK, PcConsistent, HeldIsMapped, UsesEntry
<1> DEFINE e == entry[a]
<1>1. /\ e \in Attempt /\ e # None /\ map[k] = e
      /\ key[a] = k /\ pc[a] = "running"
  BY <1>0 DEF Release, Fail, IInv, Shape, TypeOK, PcConsistent, HeldIsMapped, UsesEntry
<1>2. /\ UNCHANGED <<map, key, strict, forgotten>>
      /\ \A b \in Attempt : b # a => pc'[b] = pc[b] /\ age'[b] = age[b]
      /\ pc'[a] \in {"notify", "notifyFailed"}
      /\ inFlight' = [inFlight EXCEPT ![e] = IF @ > 0 THEN @ - 1 ELSE 0]
  BY DEF Release, Fail, Goto, GiveBack, PushFailure, IInv, Shape, TypeOK
<1>3. \A c \in Client : StrictCounting(c)' \subseteq StrictCounting(c) \cup {a}
  BY <1>1, <1>2 DEF StrictCounting, Counting, Recorded
<1>4. \A c \in Client : c # k => StrictCounting(c)' = StrictCounting(c)
  BY <1>1, <1>2 DEF StrictCounting, Counting, Recorded
<1>5. /\ Running(k)' = Running(k) \ {a}
      /\ a \in Running(k)
      /\ \A c \in Client : c # k => Running(c)' = Running(c)
  BY <1>1, <1>2 DEF Running
<1>6. Cardinality(Running(k)') = Cardinality(Running(k)) - 1
  BY <1>5, FiniteCounts, FS_RemoveElement
<1>7. inFlight[e] = Cardinality(Running(k))
  BY <1>1 DEF IInv, InFlightExact
<1>8. Cardinality(StrictCounting(k)') <= Cardinality(StrictCounting(k)) + 1
  <2>1. /\ IsFiniteSet(StrictCounting(k) \cup {a})
        /\ Cardinality(StrictCounting(k) \cup {a}) <= Cardinality(StrictCounting(k)) + 1
    <3>1. IsFiniteSet(StrictCounting(k)) /\ Cardinality(StrictCounting(k)) \in Nat
      BY FiniteCounts
    <3>2. /\ IsFiniteSet(StrictCounting(k) \cup {a})
          /\ Cardinality(StrictCounting(k) \cup {a}) =
               IF a \in StrictCounting(k) THEN Cardinality(StrictCounting(k))
                                          ELSE Cardinality(StrictCounting(k)) + 1
      BY <3>1, FS_AddElement
    <3> QED
      BY <3>1, <3>2
  <2>2. Cardinality(StrictCounting(k)') <= Cardinality(StrictCounting(k) \cup {a})
    <3>1. StrictCounting(k)' \in SUBSET (StrictCounting(k) \cup {a})
      BY <1>3
    <3> QED
      BY <2>1, <3>1, FS_Subset
  <2>3. Cardinality(StrictCounting(k) \cup {a}) \in Nat
    BY <2>1, FS_CardinalityType
  <2> QED
    BY <2>1, <2>2, <2>3, FiniteCounts, FiniteCountsNext
<1>9. InFlightExact'
  <2> SUFFICES ASSUME NEW c \in Client, map[c] # None
               PROVE  inFlight'[map[c]] = Cardinality(Running(c)')
    BY <1>2 DEF InFlightExact
  <2>1. CASE c = k
    <3>1. Cardinality(Running(k)') \in Nat
      BY FiniteCountsNext
    <3> QED
      BY <2>1, <3>1, <1>1, <1>2, <1>6, <1>7, FiniteCounts DEF IInv, Shape, TypeOK
  <2>2. CASE c # k
    <3>1. map[c] # e /\ map[c] \in Attempt
      BY <2>2, <1>1 DEF IInv, Shape, TypeOK, MapInjective
    <3> QED
      BY <2>2, <3>1, <1>1, <1>2, <1>5 DEF IInv, InFlightExact, Shape, TypeOK
  <2> QED
    BY <2>1, <2>2
<1>10. StrictBound'
  <2> SUFFICES ASSUME NEW c \in Client
               PROVE  Cardinality(StrictCounting(c)') + Cardinality(Running(c)')
                        <= MaxAttempts
    BY DEF StrictBound, StrictCounting
  <2>0. Cardinality(StrictCounting(c)) + Cardinality(Running(c)) <= MaxAttempts
    BY DEF IInv, StrictBound, StrictCounting
  <2>1. CASE c = k
    BY <2>0, <2>1, <1>6, <1>8, FiniteCounts, FiniteCountsNext, ConstantsAssumption
  <2>2. CASE c # k
    BY <2>0, <2>2, <1>4, <1>5
  <2> QED
    BY <2>1, <2>2
<1> QED
  BY <1>9, <1>10

\* Every step keeps in_flight exact and the strict failures bounded: only
\* reserve, Reservation::drop and Reservation::fail move either count.
LEMMA CountStep == IInv /\ Shape' /\ [Next]_vars => InFlightExact' /\ StrictBound'
<1> SUFFICES ASSUME IInv, Shape', [Next]_vars PROVE InFlightExact' /\ StrictBound'
  OBVIOUS
<1> USE DEF Goto
<1>1. ASSUME NEW a \in Attempt, Reserve(a) PROVE InFlightExact' /\ StrictBound'
  BY <1>1, CountReserve
<1>2. ASSUME NEW a \in Attempt, Release(a) \/ Fail(a) PROVE InFlightExact' /\ StrictBound'
  BY <1>2, CountGiveBack
\* The steps of one attempt that leave the map alone.
<1>3. ASSUME NEW a \in Attempt,
             \/ Bypass(a) \/ Arm(a) \/ Wake(a) \/ NotifyWaiters(a)
             \/ Check(a) \/ AttemptFails(a) \/ Leave(a)
             \/ \E c \in Client : StartLenient(a, c)
      PROVE  InFlightExact' /\ StrictBound'
  <2>1. map' = map /\ inFlight' = inFlight
    BY <1>3 DEF Bypass, Arm, Wake, NotifyWaiters, Check, AttemptFails, Leave,
                StartLenient
  <2>2. \A c \in Client : Running(c)' = Running(c)
    BY <1>3 DEF Running, Bypass, Arm, Wake, NotifyWaiters, Check, AttemptFails, Leave,
                StartLenient, IInv, Shape, TypeOK
  <2>3. \A c \in Client : StrictCounting(c)' = StrictCounting(c)
    BY <1>3 DEF StrictCounting, Counting, Recorded, Bypass, Arm, Wake, NotifyWaiters,
                Check, AttemptFails, Leave, StartLenient, IInv, Shape, TypeOK
  <2> QED
    BY <2>1, <2>2, <2>3, CountKept
\* A lenient failure is not a strict one.
<1>4. ASSUME NEW a \in Attempt, RecordFailure(a) PROVE InFlightExact' /\ StrictBound'
  <2>1. ~strict[a]
    BY <1>4 DEF RecordFailure, IInv, Shape, PcConsistent
  <2>2. map' = map /\ inFlight' = inFlight
    BY <1>4 DEF RecordFailure
  <2>3. \A c \in Client : Running(c)' = Running(c)
    BY <1>4 DEF Running, RecordFailure, IInv, Shape, TypeOK
  <2>4. \A c \in Client : StrictCounting(c)' = StrictCounting(c)
    BY <1>4, <2>1 DEF StrictCounting, Counting, Recorded, RecordFailure, PushFailure,
                      IInv, Shape, TypeOK
  <2> QED
    BY <2>2, <2>3, <2>4, CountKept
\* A new entry starts from nothing, and nobody runs on a removed one.
<1>5. ASSUME NEW a \in Attempt, NEW c \in Client,
             StartStrict(a, c) \/ (LookUpAgain(a) /\ c = key[a])
      PROVE  InFlightExact' /\ StrictBound'
  <2>1. pc[a] \in BeforeInsert /\ GetOrInsert(a, c) /\ inFlight' = inFlight
    BY <1>5 DEF StartStrict, LookUpAgain, BeforeInsert
  <2>2. inFlight[a] = 0
    BY <2>1 DEF IInv, Shape, PcConsistent, UnmappedEmpty
  <2>3. \A d \in Client : \/ map'[d] = None
                          \/ map'[d] = map[d]
                          \/ map[d] = None /\ map'[d] = a
    <3>1. /\ map \in [Client -> Attempt \cup {None}]
          /\ \/ map' = map
             \/ map[c] = None /\ map' = [map EXCEPT ![c] = a]
             \/ /\ map[c] = None
                /\ \E gone : map' = [d \in Client |-> IF d = c THEN a
                                                      ELSE IF d \in gone THEN None
                                                      ELSE map[d]]
      BY <2>1, Zenon DEF GetOrInsert, IInv, Shape, TypeOK
    <3> QED
      BY <3>1
  <2>4. forgotten \subseteq forgotten'
    BY <2>1 DEF GetOrInsert
  <2>5. \A d \in Client : Running(d)' = Running(d)
    BY <1>5 DEF Running, StartStrict, LookUpAgain, IInv, Shape, TypeOK
  <2>6. \A d \in Client : StrictCounting(d)' \subseteq StrictCounting(d)
    BY <1>5, <2>4 DEF StrictCounting, Counting, Recorded, StartStrict, LookUpAgain,
                      IInv, Shape, TypeOK
  <2> QED
    BY <2>1, <2>2, <2>3, <2>5, <2>6, CountKept
<1>6. CASE Cleanup
  <2>1. inFlight' = inFlight /\ \A c \in Client : map'[c] = None \/ map'[c] = map[c]
    BY <1>6 DEF Cleanup
  <2>2. \A c \in Client : Running(c)' = Running(c) /\ StrictCounting(c)' = StrictCounting(c)
    BY <1>6 DEF Cleanup, Running, StrictCounting, Counting, Recorded
  <2> QED
    BY <2>1, <2>2, CountKept
<1>7. CASE Tick
  <2>1. \A c \in Client : Running(c)' = Running(c)
    BY <1>7 DEF Tick, Running
  <2>2. \A b \in Attempt : age'[b] < Window => age[b] < Window
    BY <1>7, ConstantsAssumption DEF Tick, IInv, Shape, TypeOK
  <2>3. \A c \in Client : StrictCounting(c)' \subseteq StrictCounting(c)
    BY <1>7, <2>2 DEF Tick, StrictCounting, Counting, Recorded
  <2>4. map' = map /\ inFlight' = inFlight
    BY <1>7 DEF Tick
  <2> QED
    BY <2>1, <2>3, <2>4, CountKept
<1>8. CASE UNCHANGED vars
  <2>1. map' = map /\ inFlight' = inFlight
    BY <1>8 DEF vars
  <2>2. \A c \in Client : Running(c)' = Running(c) /\ StrictCounting(c)' = StrictCounting(c)
    BY <1>8 DEF vars, Running, StrictCounting, Counting, Recorded
  <2> QED
    BY <2>1, <2>2, CountKept
<1>9. ASSUME NEW a \in Attempt, LookUpAgain(a) PROVE InFlightExact' /\ StrictBound'
  <2>1. PICK c \in Client : c = key[a]
    BY <1>9 DEF LookUpAgain, IInv, Shape, PcConsistent
  <2> QED
    BY <1>5, <1>9, <2>1
<1>10. ASSUME NEW a \in Attempt, NEW c \in Client, StartStrict(a, c)
       PROVE  InFlightExact' /\ StrictBound'
  BY <1>5, <1>10
<1> QED
  <2>1. CASE \E a \in Attempt :
               \/ Bypass(a)
               \/ \E c \in Client : StartStrict(a, c) \/ StartLenient(a, c)
               \/ Step(a)
               \/ Outcome(a)
    BY <2>1, <1>1, <1>2, <1>3, <1>4, <1>9, <1>10 DEF Step, Outcome
  <2> QED
    BY <2>1, <1>6, <1>7, <1>8 DEF Next

\* A limiter fresh from its builder satisfies the inductive invariant.
LEMMA IInvInit == Init => IInv
<1> SUFFICES ASSUME Init PROVE IInv
  OBVIOUS
<1>1. Shape
  BY ShapeInit
<1>2. \A c \in Client : Running(c) = {} /\ StrictCounting(c) = {}
  BY DEF Init, Running, StrictCounting, Counting, Recorded
<1>3. InFlightExact
  BY DEF Init, InFlightExact
<1>4. StrictBound
  BY <1>2, FS_EmptySet, ConstantsAssumption DEF StrictBound, StrictCounting
<1> QED
  BY <1>1, <1>3, <1>4 DEF IInv

\* The inductive invariant of the limiter.
THEOREM Invariance == Spec => []IInv
<1>1. IInv /\ [Next]_vars => IInv'
  BY ShapeStep, CountStep DEF IInv
<1> QED
  BY IInvInit, <1>1, PTL DEF Spec

----------------------------------------------------------------------------
(* What the limiter guarantees *)

\* The state of the limiter stays well formed.
THEOREM TypeCorrect == Spec => []TypeOK
<1>1. IInv => TypeOK
  BY DEF IInv, Shape
<1> QED
  BY Invariance, <1>1, PTL

\* is_stale and make_room never remove an entry an attempt still refers to.
THEOREM HeldEntriesStayMapped == Spec => []HeldIsMapped
<1>1. IInv => HeldIsMapped
  BY DEF IInv, Shape
<1> QED
  BY Invariance, <1>1, PTL

\* No failure inside the window is lost, except to make_room's eviction.
THEOREM FailuresAreKept == Spec => []NoLostFailure
<1>1. IInv => NoLostFailure
  BY DEF IInv, Shape
<1> QED
  BY Invariance, <1>1, PTL

\* in_flight is exactly the number of reservations that are out.
THEOREM ReservationsAreExact == Spec => []InFlightExact
<1>1. IInv => InFlightExact
  BY DEF IInv
<1> QED
  BY Invariance, <1>1, PTL

\* Together: the map agrees with the attempts that use it, for every number of
\* clients and attempts and every interleaving of them.
THEOREM LimiterStaysConsistent == Spec => []LimiterConsistent
<1>1. IInv => LimiterConsistent
  BY DEF IInv, Shape, LimiterConsistent
<1> QED
  BY Invariance, <1>1, PTL

\* The documented bound of the strict method: however many attempts a client
\* sends at once, at most max_attempts fail or may still fail in a window.
THEOREM StrictFailuresBounded == Spec => []StrictBound
<1>1. IInv => StrictBound
  BY DEF IInv
<1> QED
  BY Invariance, <1>1, PTL

\* Only recorded failures refuse an attempt, never attempts in flight.
THEOREM RefusalMeansSpent == Spec => RefusedOnlyWhenSpent
<1>1. ASSUME IInv, [Next]_vars
      PROVE  [\A a \in Attempt : pc[a] # "refused" /\ pc'[a] = "refused" =>
                Cardinality(Counting(key[a])) >= MaxAttempts]_vars
  <2> SUFFICES ASSUME Next, NEW a \in Attempt, pc[a] # "refused", pc'[a] = "refused"
               PROVE  Cardinality(Counting(key[a])) >= MaxAttempts
    BY <1>1
  <2>1. pc \in [Attempt -> PC] /\ entry \in [Attempt -> Attempt \cup {None}]
    BY <1>1 DEF IInv, Shape, TypeOK
  <2>2. Reserve(a) \/ Check(a)
    BY <2>1 DEF Next, Step, Outcome, Goto, Bypass, StartStrict, Arm, Reserve, Wake,
                Release, Fail, NotifyWaiters, StartLenient, Check, AttemptFails,
                LookUpAgain, RecordFailure, Leave, Cleanup, Tick
  <2>3. key[a] \in Client /\ (entry[a] # None => map[key[a]] = entry[a])
    BY <1>1, <2>2 DEF Reserve, Check, IInv, Shape, PcConsistent, HeldIsMapped
  <2>4. CASE entry[a] # None
    <3>1. Cardinality(Pruned(entry[a])) >= MaxAttempts
      BY <2>1, <2>2, <2>4 DEF Reserve, Check, Spent, Goto
    <3>2. Pruned(entry[a]) = Counting(key[a])
      BY <1>1, <2>3, <2>4, PrunedIsCounting DEF IInv
    <3> QED
      BY <3>1, <3>2
  <2>5. CASE entry[a] = None
    <3>1. Cardinality({}) >= MaxAttempts
      BY <1>1, <2>1, <2>2, <2>5
         DEF Reserve, Check, Spent, Goto, IInv, Shape, PcConsistent, UsesEntry
    <3>2. MaxAttempts = 0
      BY <3>1, FS_EmptySet, ConstantsAssumption
    <3> QED
      BY <3>2, FiniteCounts
  <2> QED
    BY <2>4, <2>5
<1> QED
  BY Invariance, <1>1, PTL DEF Spec, RefusedOnlyWhenSpent

\* The instance's Cardinality is the one of FiniteSets.
LEMMA BudgetCardinality == ASSUME NEW X PROVE Budget!Cardinality(X) = Cardinality(X)
  BY DEF Budget!Cardinality, Cardinality

\* The limiter implements the abstract failure budget: reserving takes a free
\* token, failing passes it to the failure in one step, and a failure only
\* ever lapses by leaving the window or by eviction.
THEOREM ImplementsBudget == Spec => BudgetSpec
<1> DEFINE R == [c \in Client |-> Running(c)]
           S == [c \in Client |-> Counting(c)]
<1>1. Init => Budget!Init
  BY DEF Init, Budget!Init, Running, Counting, Recorded
<1>2. ASSUME IInv, [Next]_vars
      PROVE  [Budget!Next]_(Budget!vars)
  <2> USE DEF Goto
  <2>t. TypeOK
    BY <1>2 DEF IInv, Shape
  <2>1. ASSUME NEW a \in Attempt, Reserve(a) PROVE [Budget!Next]_(Budget!vars)
    <3>0. PICK k \in Client : k = key[a]
      BY <1>2, <2>1 DEF Reserve, IInv, Shape, TypeOK, PcConsistent
    <3>1. /\ entry[a] \in Attempt /\ entry[a] # None /\ map[k] = entry[a]
          /\ pc[a] = "armed"
      BY <1>2, <2>1, <3>0 DEF Reserve, IInv, Shape, TypeOK, PcConsistent, HeldIsMapped,
                              UsesEntry
    <3>2. S' = S
      BY <2>1, <2>t DEF Reserve, Counting, Recorded, TypeOK
    <3>3. CASE pc'[a] # "running"
      <4>1. R' = R
        BY <2>1, <2>t, <3>3 DEF Reserve, Running, TypeOK
      <4> QED
        BY <3>2, <4>1 DEF Budget!vars
    <3>4. CASE pc'[a] = "running"
      <4>1. ~Taken(map[k], Pruned(map[k]))
        BY <2>1, <2>t, <3>1, <3>4 DEF Reserve, TypeOK
      <4>2. Cardinality(Running(k)) + Cardinality(Counting(k)) < MaxAttempts
        <5>1. Pruned(map[k]) = Counting(k)
          BY <1>2, <3>1, PrunedIsCounting DEF IInv
        <5>2. inFlight[map[k]] = Cardinality(Running(k))
          BY <1>2, <3>1 DEF IInv, InFlightExact
        <5> QED
          BY <4>1, <5>1, <5>2, FiniteCounts, ConstantsAssumption DEF Taken
      <4>3. R' = [R EXCEPT ![k] = @ \cup {a}]
        <5>1. /\ UNCHANGED key
              /\ \A b \in Attempt \ {a} : pc'[b] = pc[b]
          BY <2>1, <2>t DEF Reserve, TypeOK
        <5>2. \A c \in Client : Running(c)' = IF c = k THEN Running(c) \cup {a}
                                                       ELSE Running(c)
          BY <3>0, <3>1, <3>4, <5>1 DEF Running
        <5> QED
          BY <5>2
      <4>4. Budget!Cardinality(R[k]) + Budget!Cardinality(S[k]) < MaxAttempts
        <5>1. R[k] = Running(k) /\ S[k] = Counting(k)
          OBVIOUS
        <5> HIDE DEF R, S
        <5> QED
          BY <4>2, <5>1, BudgetCardinality
      <4>5. Budget!Begin(a, k)
        BY <3>2, <4>3, <4>4 DEF Budget!Begin
      <4> QED
        BY <4>5 DEF Budget!Next
    <3> QED
      BY <3>3, <3>4
  <2>2. ASSUME NEW a \in Attempt, Release(a) PROVE [Budget!Next]_(Budget!vars)
    <3>0. PICK k \in Client : k = key[a]
      BY <1>2, <2>2 DEF Release, IInv, Shape, TypeOK, PcConsistent
    <3>1. R' = [R EXCEPT ![k] = @ \ {a}] /\ a \in R[k]
      <4>1. pc[a] = "running" /\ key' = key /\ pc' = [pc EXCEPT ![a] = "notify"]
        BY <2>2, Zenon DEF Release, Goto
      <4>2. pc \in [Attempt -> PC]
        BY <2>t DEF TypeOK
      <4>3. \A c \in Client : Running(c)' = IF c = k THEN Running(c) \ {a} ELSE Running(c)
        BY <3>0, <4>1, <4>2 DEF Running
      <4>4. a \in Running(k)
        BY <3>0, <4>1 DEF Running
      <4> QED
        BY <4>3, <4>4
    <3>2. S' = S
      BY <2>2, <2>t DEF Release, Counting, Recorded, TypeOK
    <3>3. Budget!Return(a, k)
      BY <3>1, <3>2 DEF Budget!Return
    <3> QED
      BY <3>3 DEF Budget!Next
  <2>3. ASSUME NEW a \in Attempt, Fail(a) PROVE [Budget!Next]_(Budget!vars)
    <3>0. PICK k \in Client : k = key[a]
      BY <1>2, <2>3 DEF Fail, IInv, Shape, TypeOK, PcConsistent
    <3>1. R' = [R EXCEPT ![k] = @ \ {a}] /\ a \in R[k]
      <4>1. pc[a] = "running" /\ key' = key /\ pc' = [pc EXCEPT ![a] = "notifyFailed"]
        BY <2>3, Zenon DEF Fail, Goto
      <4>2. pc \in [Attempt -> PC]
        BY <2>t DEF TypeOK
      <4>3. \A c \in Client : Running(c)' = IF c = k THEN Running(c) \ {a} ELSE Running(c)
        BY <3>0, <4>1, <4>2 DEF Running
      <4>4. a \in Running(k)
        BY <3>0, <4>1 DEF Running
      <4> QED
        BY <4>3, <4>4
    <3>2. a \notin forgotten
      BY <1>2, <2>3 DEF Fail, IInv, Shape, ForgottenRecorded, Recorded
    <3>3. S' = [S EXCEPT ![k] = @ \cup {a}]
      <4>1. /\ UNCHANGED <<key, forgotten>>
            /\ age'[a] = 0 /\ pc'[a] \in {"notifyFailed", "failed"}
            /\ \A b \in Attempt \ {a} : pc'[b] = pc[b] /\ age'[b] = age[b]
        BY <2>3, <2>t DEF Fail, PushFailure, TypeOK
      <4>2. \A c \in Client : Counting(c)' = IF c = k THEN Counting(c) \cup {a}
                                                      ELSE Counting(c)
        <5>1. \A c \in Client : a \notin Counting(c)
          BY <2>3 DEF Fail, Counting, Recorded
        <5>2. \A b \in Attempt \ {a} : Recorded(b)' <=> Recorded(b)
          BY <4>1 DEF Recorded
        <5>3. Recorded(a)'
          BY <4>1 DEF Recorded
        <5> QED
          BY <3>0, <3>2, <4>1, <5>1, <5>2, <5>3, ConstantsAssumption DEF Counting
      <4> QED
        BY <4>2
    <3>4. Budget!Fail(a, k)
      BY <3>1, <3>3 DEF Budget!Fail
    <3> QED
      BY <3>4 DEF Budget!Next
  <2>4. ASSUME NEW a \in Attempt, RecordFailure(a) PROVE [Budget!Next]_(Budget!vars)
    <3>0. PICK k \in Client : k = key[a]
      BY <1>2, <2>4 DEF RecordFailure, IInv, Shape, TypeOK, PcConsistent
    <3>1. R' = R /\ a \notin R[k]
      BY <2>4, <2>t, <3>0 DEF RecordFailure, Running, TypeOK
    <3>2. a \notin forgotten
      BY <1>2, <2>4 DEF RecordFailure, IInv, Shape, ForgottenRecorded, Recorded
    <3>3. S' = [S EXCEPT ![k] = @ \cup {a}]
      <4>1. /\ UNCHANGED <<key, forgotten>>
            /\ age'[a] = 0 /\ pc'[a] \in {"notifyFailed", "failed"}
            /\ \A b \in Attempt \ {a} : pc'[b] = pc[b] /\ age'[b] = age[b]
        BY <2>4, <2>t DEF RecordFailure, PushFailure, TypeOK
      <4>2. \A c \in Client : Counting(c)' = IF c = k THEN Counting(c) \cup {a}
                                                      ELSE Counting(c)
        <5>1. \A c \in Client : a \notin Counting(c)
          BY <2>4 DEF RecordFailure, Counting, Recorded
        <5>2. \A b \in Attempt \ {a} : Recorded(b)' <=> Recorded(b)
          BY <4>1 DEF Recorded
        <5>3. Recorded(a)'
          BY <4>1 DEF Recorded
        <5> QED
          BY <3>0, <3>2, <4>1, <5>1, <5>2, <5>3, ConstantsAssumption DEF Counting
      <4> QED
        BY <4>2
    <3>4. Budget!FailUnreserved(a, k)
      BY <3>1, <3>3 DEF Budget!FailUnreserved
    <3> QED
      BY <3>4 DEF Budget!Next
  <2>5. ASSUME R' = R, \A c \in Client : S'[c] \subseteq S[c]
        PROVE  [Budget!Next]_(Budget!vars)
    <3>1. S' \in [Client -> SUBSET Attempt]
      BY DEF Counting
    <3>2. Budget!Lapse
      BY <2>5, <3>1 DEF Budget!Lapse
    <3> QED
      BY <3>2 DEF Budget!Next
  <2>6. ASSUME NEW a \in Attempt,
               \/ Bypass(a) \/ Arm(a) \/ Wake(a) \/ NotifyWaiters(a)
               \/ Check(a) \/ AttemptFails(a) \/ Leave(a)
               \/ \E c \in Client : StartLenient(a, c)
        PROVE  [Budget!Next]_(Budget!vars)
    <3>1. R' = R
      BY <2>6, <2>t DEF Running, Bypass, Arm, Wake, NotifyWaiters, Check, AttemptFails,
                        Leave, StartLenient, TypeOK
    <3>2. \A c \in Client : S'[c] \subseteq S[c]
      BY <2>6, <2>t DEF Counting, Recorded, Bypass, Arm, Wake, NotifyWaiters,
                        Check, AttemptFails, Leave, StartLenient, TypeOK
    <3> QED
      BY <2>5, <3>1, <3>2
  <2>7. ASSUME NEW a \in Attempt, LookUpAgain(a) \/ \E c \in Client : StartStrict(a, c)
        PROVE  [Budget!Next]_(Budget!vars)
    <3>1. forgotten \subseteq forgotten'
      BY <2>7 DEF LookUpAgain, StartStrict, GetOrInsert
    <3>2. R' = R
      BY <2>7, <2>t DEF Running, LookUpAgain, StartStrict, TypeOK
    <3>3. \A c \in Client : S'[c] \subseteq S[c]
      BY <2>7, <2>t, <3>1 DEF Counting, Recorded, LookUpAgain, StartStrict, TypeOK
    <3> QED
      BY <2>5, <3>2, <3>3
  <2>8. CASE Cleanup
    <3>1. R' = R /\ S' = S
      BY <2>8 DEF Cleanup, Running, Counting, Recorded
    <3> QED
      BY <3>1 DEF Budget!vars
  <2>9. CASE Tick
    <3>1. \A b \in Attempt : age'[b] < Window => age[b] < Window
      BY <2>9, <2>t, ConstantsAssumption DEF Tick, TypeOK
    <3>2. R' = R
      BY <2>9 DEF Tick, Running
    <3>3. \A c \in Client : S'[c] \subseteq S[c]
      BY <2>9, <3>1 DEF Tick, Counting, Recorded
    <3> QED
      BY <2>5, <3>2, <3>3
  <2>10. CASE UNCHANGED vars
    <3>1. R' = R /\ S' = S
      BY <2>10 DEF vars, Running, Counting, Recorded
    <3> QED
      BY <3>1 DEF Budget!vars
  <2>11. CASE \E a \in Attempt :
                \/ Bypass(a)
                \/ \E c \in Client : StartStrict(a, c) \/ StartLenient(a, c)
                \/ Step(a)
                \/ Outcome(a)
    BY <2>11, <2>1, <2>2, <2>3, <2>4, <2>6, <2>7 DEF Step, Outcome
  <2> QED
    BY <1>2, <2>8, <2>9, <2>10, <2>11 DEF Next
<1> QED
  BY Invariance, <1>1, <1>2, PTL DEF Spec, BudgetSpec, Budget!Spec

----------------------------------------------------------------------------
(* make_room *)

\* Reservations are held by attempts that hold their entry.
LEMMA ReservedIsHeld ==
  ASSUME IInv, NEW c \in Tracked, inFlight[map[c]] # 0
  PROVE  Held(map[c])
<1>1. Running(c) # {}
  BY FS_EmptySet DEF IInv, InFlightExact, Tracked
<1>2. PICK b \in Attempt : pc[b] = "running" /\ key[b] = c
  BY <1>1 DEF Running
<1>3. entry[b] = map[c]
  BY <1>2 DEF IInv, Shape, PcConsistent, HeldIsMapped, UsesEntry
<1> QED
  BY <1>3 DEF Held

\* When what is left after an eviction still fills the map, everything that
\* could be evicted was.
LEMMA RoomOrAllInUse ==
  ASSUME IInv, NEW evicted \in Evictions,
         ~(Cardinality((Tracked \ StaleClients) \ evicted) < MaxEntries)
  PROVE  \A d \in (Tracked \ StaleClients) \ evicted : Held(map[d])
<1> DEFINE kept == Tracked \ StaleClients
           excess == Cardinality(kept) - Target
<1>1. /\ IsFiniteSet(kept) /\ Cardinality(kept) \in Nat
      /\ IsFiniteSet(Removable) /\ Cardinality(Removable) \in Nat
      /\ Removable \subseteq kept
  <2>1. kept \subseteq Client /\ Removable \subseteq kept
    BY DEF Tracked, Removable
  <2> QED
    BY <2>1, ConstantsAssumption, FS_Subset, FS_CardinalityType
<1>2. /\ evicted \subseteq Removable
      /\ Cardinality(evicted) = IF excess <= 0 THEN 0
                                ELSE IF excess <= Cardinality(Removable) THEN excess
                                                                     ELSE Cardinality(Removable)
  BY DEF Evictions
<1>3. Target \in Int /\ Target < MaxEntries
  BY ConstantsAssumption DEF Target
<1>4. /\ IsFiniteSet(evicted) /\ Cardinality(evicted) \in Nat
      /\ Cardinality(kept \ evicted) = Cardinality(kept) - Cardinality(evicted)
  <2>1. evicted \subseteq kept /\ kept \cap evicted = evicted
    BY <1>1, <1>2
  <2>2. IsFiniteSet(evicted) /\ Cardinality(evicted) \in Nat
    BY <1>1, <2>1, FS_Subset, FS_CardinalityType
  <2>3. Cardinality(kept \ evicted) = Cardinality(kept) - Cardinality(kept \cap evicted)
    <3> HIDE DEF kept
    <3> QED BY <1>1, FS_Difference
  <2> QED
    BY <2>1, <2>2, <2>3
<1>5. Cardinality(evicted) = Cardinality(Removable)
  <2> HIDE DEF kept
  <2> QED BY <1>1, <1>2, <1>3, <1>4, ConstantsAssumption DEF kept
<1>6. evicted = Removable
  BY <1>1, <1>2, <1>5, FS_Subset
<1>7. \A d \in kept \ Removable : Held(map[d]) \/ inFlight[map[d]] # 0
  BY DEF Removable
<1> QED
  BY <1>6, <1>7, ReservedIsHeld

\* Where the map grows past its bound, all its clients are in use.
LEMMA GrowsOnlyInUse ==
  ASSUME IInv, NEW a \in Attempt, NEW c \in Client, GetOrInsert(a, c),
         map[c] = None => entry[a] = None,
         Cardinality(Tracked') > Cardinality(Tracked), Cardinality(Tracked') > MaxEntries
  PROVE  \A d \in Tracked' : Held(map[d])'
<1>0. /\ IsFiniteSet(Tracked) /\ Cardinality(Tracked) \in Nat /\ MaxEntries \in Nat
      /\ a # None /\ map \in [Client -> Attempt \cup {None}]
      /\ entry \in [Attempt -> Attempt \cup {None}]
  <2>1. Tracked \subseteq Client
    BY DEF Tracked
  <2> QED
    BY <2>1, ConstantsAssumption, FS_Subset, FS_CardinalityType DEF IInv, Shape, TypeOK
<1>1. map' # map /\ map[c] = None
  <2>1. map' = map => Tracked' = Tracked
    BY DEF Tracked
  <2> QED
    BY <1>0, <2>1 DEF GetOrInsert
<1>2. Cardinality(Tracked) >= MaxEntries
  <2> SUFFICES ASSUME Cardinality(Tracked) < MaxEntries PROVE FALSE
    BY <1>0
  <2>1. map' = [map EXCEPT ![c] = a]
    BY <1>0, <1>1 DEF GetOrInsert
  <2>2. Tracked' = Tracked \cup {c}
    BY <1>0, <2>1 DEF Tracked
  <2>3. Cardinality(Tracked \cup {c}) = IF c \in Tracked THEN Cardinality(Tracked)
                                        ELSE Cardinality(Tracked) + 1
    BY <1>0, FS_AddElement, Zenon
  <2> QED
    BY <1>0, <2>2, <2>3
<1>3. PICK evicted \in Evictions :
        map' = [d \in Client |-> IF d = c THEN a
                                 ELSE IF d \in StaleClients \cup evicted THEN None
                                 ELSE map[d]]
  <2>1. ~(Cardinality(Tracked) < MaxEntries)
    BY <1>0, <1>2
  <2> QED
    BY <1>1, <2>1, Zenon DEF GetOrInsert
<1>4. entry' = [entry EXCEPT ![a] = a]
  BY <1>0, <1>1, <1>2 DEF GetOrInsert
<1> DEFINE left == (Tracked \ StaleClients) \ evicted
<1>5. Tracked' = left \cup {c} /\ c \notin left /\ left \subseteq Tracked
  BY <1>0, <1>1, <1>3 DEF Tracked
<1>6. ~(Cardinality(left) < MaxEntries)
  <2>1. IsFiniteSet(left) /\ Cardinality(left) \in Nat
    BY <1>0, <1>5, FS_Subset, FS_CardinalityType
  <2>2. Cardinality(left \cup {c}) = Cardinality(left) + 1
    <3> HIDE DEF left
    <3>1. Cardinality(left \cup {c}) = IF c \in left THEN Cardinality(left)
                                       ELSE Cardinality(left) + 1
      BY <2>1, FS_AddElement, Zenon
    <3> QED BY <1>5, <3>1
  <2> QED
    BY <1>0, <1>5, <2>1, <2>2
<1>7. \A d \in left : Held(map[d])
  BY <1>6, RoomOrAllInUse
<1>8. \A d \in left : map'[d] = map[d] /\ map[d] # None
  BY <1>3, <1>5 DEF Tracked
<1>9. ASSUME NEW d \in left PROVE \E b \in Attempt : entry'[b] = map'[d]
  <2>1. PICK b \in Attempt : entry[b] = map[d]
    BY <1>7 DEF Held
  <2>2. b # a
    BY <1>1, <1>8, <2>1
  <2> QED
    BY <1>0, <1>4, <1>8, <2>1, <2>2
<1>10. map'[c] = a /\ entry'[a] = a
  BY <1>0, <1>3, <1>4
<1> QED
  BY <1>5, <1>9, <1>10 DEF Held

\* make_room: the map outgrows max_entries only when every client on it is in
\* use, for any number of clients and any bound.
THEOREM RoomUnlessInUse == Spec => OverFullOnlyInUse
<1>1. ASSUME IInv, [Next]_vars
      PROVE  [Cardinality(Tracked') > Cardinality(Tracked)
                /\ Cardinality(Tracked') > MaxEntries
              => \A c \in Tracked' : Held(map[c])']_vars
  <2> SUFFICES ASSUME Next, Cardinality(Tracked') > Cardinality(Tracked),
                      Cardinality(Tracked') > MaxEntries
               PROVE  \A c \in Tracked' : Held(map[c])'
    BY <1>1
  <2>0. Cardinality(Tracked) \in Nat /\ ~(Tracked' \subseteq Tracked)
    <3>1. Tracked \subseteq Client /\ Tracked' \subseteq Client
      BY DEF Tracked
    <3>2. IsFiniteSet(Tracked) /\ Cardinality(Tracked) \in Nat /\ Cardinality(Tracked') \in Nat
      BY <3>1, ConstantsAssumption, FS_Subset, FS_CardinalityType
    <3>3. Tracked' \subseteq Tracked => Cardinality(Tracked') <= Cardinality(Tracked)
      BY <3>2, FS_Subset
    <3> QED BY <3>2, <3>3
  <2>1. map' # map
    BY <2>0 DEF Tracked
  <2>2. ~Cleanup
    BY <1>1, <2>0 DEF Cleanup, Tracked, StaleClients
  <2>3. \/ \E a \in Attempt, c \in Client : StartStrict(a, c)
        \/ \E a \in Attempt : LookUpAgain(a)
    BY <2>1, <2>2 DEF Next, Step, Outcome, Bypass, Arm, Reserve, Wake, Release, Fail,
                      NotifyWaiters, StartLenient, Check, AttemptFails, RecordFailure,
                      Leave, Tick
  <2>4. ASSUME NEW a \in Attempt, NEW c \in Client, StartStrict(a, c)
        PROVE  GetOrInsert(a, c) /\ entry[a] = None
    BY <1>1, <2>4 DEF StartStrict, IInv, Shape, PcConsistent, Resting
  <2>5. ASSUME NEW a \in Attempt, LookUpAgain(a)
        PROVE  /\ key[a] \in Client /\ GetOrInsert(a, key[a])
               /\ map[key[a]] = None => entry[a] = None
    BY <1>1, <2>5 DEF LookUpAgain, IInv, Shape, PcConsistent, HeldIsMapped
  <2> QED
    BY <1>1, <2>3, <2>4, <2>5, GrowsOnlyInUse
<1> QED
  BY Invariance, <1>1, PTL DEF Spec, OverFullOnlyInUse
=============================================================================
