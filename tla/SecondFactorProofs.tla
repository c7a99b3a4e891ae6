------------------------- MODULE SecondFactorProofs -------------------------
(***************************************************************************)
(* The guarantees of the second factor codes for any number of attempts,   *)
(* users and codes, any budget, window and sweep interval, any number of   *)
(* restarts. The argument has three layers:                                *)
(*   Shape   the attempts map and the requests on it, with the exact       *)
(*           counts: an inductive invariant on its own. A user can leave   *)
(*           the map only because in_flight is exact, and the mutex of a   *)
(*           user is unique only because users in flight do not leave;     *)
(*   Codes   what is known of the stored recovery codes while the mutex is *)
(*           held, preserved because Shape makes it exclusive;             *)
(*   Totp    what ACCEPTED_TOTP_STEPS remembers of the accepted steps.     *)
(* Enrolling a factor in the first place has an invariant of its own,      *)
(* EnrollInv: whose enrollment every record and every request carries.     *)
(***************************************************************************)
EXTENDS SecondFactor, Enrollment, FiniteSetTheorems, SequenceTheorems, TLAPS

\* What an attempt's program counter says about its other variables.
PcConsistent ==
  \A a \in Attempt :
    /\ pc[a] # "idle" => user[a] \in User
    /\ epochOf[a] <= epoch
    /\ pc[a] \in InFlight => epochOf[a] = epoch

\* Only who sent a TOTP step gets to the steps, and only who sent a recovery
\* code to the list.
OnStep == {"checkTotp", "consume"}
OnList == {"lock"} \cup Locked

SentKind ==
  \A a \in Attempt : /\ pc[a] \in OnStep => code[a] \in Steps \ Code
                     /\ pc[a] \in OnList => code[a] \in Code

\* The mutex of a user is the one an attempt of theirs inserted.
MutexOwn ==
  \A u \in User : mutexOf[u] # None =>
    pc[mutexOf[u]] # "idle" /\ user[mutexOf[u]] = u

\* An attempt has locked its mutex from lock_recovery_codes on; nobody else has.
LocksConsistent ==
  /\ \A a \in Attempt : pc[a] \in Locked => owner[mutex[a]] = a
  /\ \A m \in Attempt : owner[m] # None =>
       pc[owner[m]] \in Locked /\ mutex[owner[m]] = m

\* The map keeps failures of the user only, and every one that counts.
FailuresExact ==
  \A u \in User :
    /\ \A f \in failures[u] : pc[f] = "failed" /\ user[f] = u /\ epochOf[f] = epoch
    /\ Counting(u) \subseteq failures[u]

Shape == /\ TypeOK
         /\ PcConsistent
         /\ SentKind
         /\ MutexOwn
         /\ OneMutexPerUser
         /\ LocksConsistent
         /\ FailuresExact
         /\ MappedForAReason
         /\ InFlightExact
         /\ GuessesBounded

\* What an attempt read of the list is still what is stored.
ListsCurrent ==
  \A a \in Attempt :
    /\ pc[a] \in {"find", "write"} => loaded[a] = codes[user[a]]
    /\ pc[a] \in {"read", "write"} => code[a] \in codes[user[a]]

Codes == ListsCurrent /\ CodesStayUsed

\* No accepted step of this process is later than the one remembered.
StepsRemembered ==
  \A a \in Attempt :
    Accepted(a) /\ code[a] \notin Code =>
      code[a] \in Steps /\ (epochOf[a] = epoch => code[a] <= lastStep[user[a]])

Totp == StepsRemembered /\ TotpStepOnce

IInv == Shape /\ Codes /\ Totp

----------------------------------------------------------------------------
(* Counting *)

\* The sets that are counted are finite.
LEMMA FiniteCounts ==
  \A u : /\ IsFiniteSet(Running(u)) /\ Cardinality(Running(u)) \in Nat
        /\ IsFiniteSet(Counting(u)) /\ Cardinality(Counting(u)) \in Nat
<1> TAKE u
<1>1. Running(u) \in SUBSET Attempt /\ Counting(u) \in SUBSET Attempt
  BY DEF Running, Counting
<1> QED
  BY <1>1, ConstantsAssumption, FS_Subset, FS_CardinalityType

\* in_flight tells whether an attempt of the user is in flight, and whether
\* there is another one.
LEMMA InFlightTells ==
  ASSUME InFlightExact, NEW u \in User
  PROVE  /\ inFlight[u] = 0 => Running(u) = {}
         /\ \A a \in Running(u) : inFlight[u] > 0
         /\ \A a, b \in Running(u) : a # b => inFlight[u] > 1
<1>1. inFlight[u] = Cardinality(Running(u))
  BY DEF InFlightExact
<1>2. inFlight[u] = 0 => Running(u) = {}
  BY <1>1, FiniteCounts, FS_EmptySet
<1>3. ASSUME NEW a \in Running(u)
      PROVE  inFlight[u] > 0
  BY <1>1, <1>2, <1>3, FiniteCounts
<1>4. ASSUME NEW a \in Running(u), NEW b \in Running(u), a # b
      PROVE  inFlight[u] > 1
  <2>1. /\ IsFiniteSet(Running(u) \ {a})
        /\ Cardinality(Running(u) \ {a}) = Cardinality(Running(u)) - 1
    BY <1>4, FiniteCounts, FS_RemoveElement
  <2>2. Cardinality(Running(u) \ {a}) # 0
    BY <2>1, <1>4, FS_EmptySet
  <2>3. Cardinality(Running(u) \ {a}) \in Nat
    BY <2>1, FS_CardinalityType
  <2> QED
    BY <1>1, <2>1, <2>2, <2>3, FiniteCounts
<1> QED
  BY <1>2, <1>3, <1>4

\* Who has an attempt in flight is on the map.
LEMMA RunningMapped ==
  ASSUME Shape, NEW a \in Attempt, pc[a] \in InFlight
  PROVE  /\ user[a] \in User
         /\ mutexOf[user[a]] \in Attempt
         /\ mutex[a] = mutexOf[user[a]]
         /\ inFlight[user[a]] > 0
<1>1. user[a] \in User
  BY DEF Shape, PcConsistent, InFlight, AtAwait, Ending
<1>2. a \in Running(user[a])
  BY DEF Running
<1>3. inFlight[user[a]] > 0
  BY <1>1, <1>2, InFlightTells DEF Shape
<1> QED
  BY <1>1, <1>3 DEF Shape, MappedForAReason, OneMutexPerUser, TypeOK

\* Nothing is pruned that still counts: what begin compares with the budget
\* is what the budget is about.
LEMMA PrunedIsCounting ==
  ASSUME Shape, NEW u \in User
  PROVE  Pruned(u) = Counting(u)
<1>1. Pruned(u) \subseteq Counting(u)
  BY DEF Pruned, Counting, Shape, TypeOK, FailuresExact
<1>2. Counting(u) \subseteq Pruned(u)
  BY DEF Pruned, Counting, Shape, FailuresExact
<1> QED
  BY <1>1, <1>2

\* Two attempts that hold the recovery codes of one user are the same.
LEMMA CodesExclusive ==
  ASSUME Shape, NEW a \in Attempt, NEW b \in Attempt,
         pc[a] \in Locked, pc[b] \in Locked, user[a] = user[b]
  PROVE  a = b
<1>1. mutex[a] = mutex[b]
  BY DEF Shape, OneMutexPerUser, InFlight, AtAwait, Locked
<1> QED
  BY <1>1 DEF Shape, LocksConsistent

\* begin adds the attempt to those in flight, unless the budget is used up.
LEMMA BeginCounts ==
  ASSUME Shape, NEW a \in Attempt, NEW u \in User, NEW c \in Steps \cup Code,
         Begin(a, u, c)
  PROVE  \A v \in User :
           /\ Counting(v)' = Counting(v)
           /\ Running(v)' = IF v = u /\ ~Refuses(u) THEN Running(v) \cup {a} ELSE Running(v)
<1>t. TypeOK
  BY DEF Shape
<1>1. PICK l \in {"refused", "lock", "checkTotp"} :
        /\ pc[a] = "idle"
        /\ pc' = [pc EXCEPT ![a] = l]
        /\ l = "refused" <=> Refuses(u)
        /\ user' = [user EXCEPT ![a] = u]
        /\ epochOf' = [epochOf EXCEPT ![a] = epoch]
        /\ UNCHANGED <<now, epoch, failedAt>>
  BY DEF Begin, Goto, world
<1>2. /\ \A b \in Attempt : b # a =>
           pc'[b] = pc[b] /\ user'[b] = user[b] /\ epochOf'[b] = epochOf[b]
      /\ pc'[a] = l /\ user'[a] = u
  BY <1>1, <1>t DEF TypeOK
<1>3. /\ pc[a] \notin InFlight /\ pc[a] # "failed" /\ l # "failed"
      /\ l \in InFlight <=> ~Refuses(u)
  BY <1>1 DEF InFlight, AtAwait, Ending
<1>4. \A v \in User : Counting(v)' = Counting(v)
  BY <1>1, <1>2, <1>3 DEF Counting
<1>5. \A v \in User : Running(v)' = IF v = u /\ ~Refuses(u) THEN Running(v) \cup {a}
                                                            ELSE Running(v)
  BY <1>2, <1>3 DEF Running
<1> QED
  BY <1>4, <1>5

\* end takes the attempt from those in flight, and a failure counts at once.
LEMMA EndCounts ==
  ASSUME Shape, NEW a \in Attempt, End(a)
  PROVE  \A v \in User :
           /\ Running(v)' = IF v = user[a] THEN Running(v) \ {a} ELSE Running(v)
           /\ Counting(v)' = IF v = user[a] /\ pc[a] = "endFailed"
                             THEN Counting(v) \cup {a} ELSE Counting(v)
<1>t. TypeOK
  BY DEF Shape
<1>1. PICK l \in {"loggedIn", "failed", "gone"} :
        /\ pc[a] \in Ending
        /\ pc' = [pc EXCEPT ![a] = l]
        /\ l = "failed" <=> pc[a] = "endFailed"
        /\ failedAt' = [failedAt EXCEPT ![a] = IF pc[a] = "endFailed" THEN now ELSE @]
        /\ UNCHANGED <<now, epoch, user, epochOf>>
  BY DEF End, Goto, world, Ending
<1>2. /\ \A b \in Attempt : b # a => pc'[b] = pc[b] /\ failedAt'[b] = failedAt[b]
      /\ pc'[a] = l /\ (l = "failed" => failedAt'[a] = now)
  BY <1>1, <1>t DEF TypeOK
<1>3. /\ l \notin InFlight /\ pc[a] \in InFlight /\ pc[a] # "failed"
      /\ epochOf[a] = epoch
  BY <1>1 DEF InFlight, AtAwait, Ending, Shape, PcConsistent
<1>4. \A v \in User : Running(v)' = IF v = user[a] THEN Running(v) \ {a} ELSE Running(v)
  BY <1>1, <1>2, <1>3 DEF Running
<1>5. now - now < Window
  BY <1>t, ConstantsAssumption DEF TypeOK
<1>6. \A v \in User : Counting(v)' = IF v = user[a] /\ pc[a] = "endFailed"
                                     THEN Counting(v) \cup {a} ELSE Counting(v)
  BY <1>1, <1>2, <1>3, <1>5 DEF Counting
<1> QED
  BY <1>4, <1>6

\* A failure only ever stops counting as time goes on.
LEMMA TickCounts ==
  ASSUME Shape, Tick
  PROVE  \A v \in User : Running(v)' = Running(v) /\ Counting(v)' \subseteq Counting(v)
  BY ConstantsAssumption DEF Tick, budget, request, Running, Counting, Shape, TypeOK

\* A restart starts the counts over: they are of this process only.
LEMMA RestartCounts ==
  ASSUME Shape, Restart
  PROVE  \A v \in User : Running(v)' = {} /\ Counting(v)' = {}
<1>1. /\ UNCHANGED epochOf /\ epoch' = epoch + 1
      /\ pc' = [a \in Attempt |-> IF pc[a] \in InFlight THEN "gone" ELSE pc[a]]
  BY DEF Restart
<1>2. \A a \in Attempt : pc'[a] \notin InFlight
  BY <1>1 DEF InFlight, AtAwait, Ending
<1>3. \A a \in Attempt : epochOf'[a] # epoch'
  BY <1>1, ConstantsAssumption DEF Shape, PcConsistent, TypeOK
<1> QED
  BY <1>2, <1>3 DEF Running, Counting

\* Every other step is one of an attempt that stays in flight, or of nobody.
LEMMA OtherCounts ==
  ASSUME Shape, NEW a \in Attempt, \/ CheckTotp(a) \/ ConsumeStep(a) \/ Finish(a) \/ Lock(a)
                                   \/ LoadCodes(a) \/ FindCode(a) \/ RemoveRead(a)
                                   \/ RemoveWrite(a) \/ Cancel(a)
  PROVE  \A v \in User : Running(v)' = Running(v) /\ Counting(v)' = Counting(v)
<1> USE DEF CheckTotp, ConsumeStep, Finish, Lock, LoadCodes, FindCode, RemoveRead, RemoveWrite,
            Cancel
<1>1. UNCHANGED <<now, epoch, user, epochOf, failedAt>>
  BY DEF budget, request, world
<1>2. pc[a] \in AtAwait
  BY DEF AtAwait
<1>3. \E l \in InFlight : pc' = [pc EXCEPT ![a] = l]
  BY DEF Goto, InFlight, AtAwait, Ending
<1>4. \A b \in Attempt : /\ pc'[b] \in InFlight <=> pc[b] \in InFlight
                         /\ pc'[b] = "failed" <=> pc[b] = "failed"
  BY <1>2, <1>3 DEF Shape, TypeOK, InFlight, AtAwait, Ending
<1> QED
  BY <1>1, <1>4 DEF Running, Counting

----------------------------------------------------------------------------
(* Shape is inductive *)

\* A fresh process.
LEMMA ShapeInit == Init => Shape
<1> SUFFICES ASSUME Init PROVE Shape
  OBVIOUS
<1> USE DEF Init
<1>1. TypeOK
  <2>1. now \in 0..MaxTime /\ epoch \in 0..MaxRestarts
    BY ConstantsAssumption
  <2>2. /\ inFlight \in [User -> Nat]
        /\ failedAt \in [Attempt -> 0..MaxTime]
        /\ epochOf \in [Attempt -> 0..MaxRestarts]
    BY ConstantsAssumption
  <2>3. /\ mutexOf \in [User -> Attempt \cup {None}]
        /\ failures \in [User -> SUBSET Attempt]
        /\ lastStep \in [User -> Steps \cup {-1}]
        /\ codes \in [User -> SUBSET Code]
    OBVIOUS
  <2>4. /\ pc \in [Attempt -> {"idle"} \cup InFlight \cup Over]
        /\ user \in [Attempt -> User \cup {None}]
        /\ code \in [Attempt -> Steps \cup Code \cup {None}]
        /\ mutex \in [Attempt -> Attempt \cup {None}]
        /\ owner \in [Attempt -> Attempt \cup {None}]
        /\ loaded \in [Attempt -> SUBSET Code]
    OBVIOUS
  <2> QED
    BY <2>1, <2>2, <2>3, <2>4 DEF TypeOK
<1>2. PcConsistent /\ SentKind /\ MutexOwn /\ OneMutexPerUser /\ LocksConsistent
  <2>1. \A a \in Attempt : pc[a] = "idle" /\ pc[a] \notin InFlight /\ pc[a] \notin Locked
                           /\ pc[a] \notin OnStep /\ pc[a] \notin OnList
    BY DEF InFlight, AtAwait, Ending, Locked, OnStep, OnList
  <2>2. PcConsistent /\ SentKind
    BY <2>1 DEF PcConsistent, SentKind
  <2> QED
    BY <2>1, <2>2 DEF MutexOwn, OneMutexPerUser, LocksConsistent
<1>3. \A u \in User : Running(u) = {} /\ Counting(u) = {}
  BY DEF Running, Counting, InFlight, AtAwait, Ending
<1>4. FailuresExact /\ MappedForAReason
  BY <1>3 DEF FailuresExact, MappedForAReason
<1>5. InFlightExact /\ GuessesBounded
  <2>1. Cardinality({}) = 0
    BY FS_EmptySet
  <2>2. \A u \in User : Cardinality(Running(u)) = 0 /\ Cardinality(Counting(u)) = 0
    BY <1>3, <2>1
  <2> QED
    BY <2>2, ConstantsAssumption DEF InFlightExact, GuessesBounded
<1> QED
  BY <1>1, <1>2, <1>4, <1>5 DEF Shape

\* An attempt in flight goes on: the map and the counts do not notice.
LEMMA GoOnShape ==
  ASSUME Shape, NEW a \in Attempt, NEW l \in InFlight, pc[a] \in InFlight,
         Goto(a, l), UNCHANGED <<budget, world, request>>,
         l \in OnStep => pc[a] \in OnStep, l \in OnList => pc[a] \in OnList,
         TypeOK', LocksConsistent'
  PROVE  Shape'
<1> USE DEF Shape, TypeOK, Goto, budget, world, request
<1>0. l \notin {"idle", "failed"} /\ pc[a] \notin {"idle", "failed"}
  BY DEF InFlight, AtAwait, Ending
<1>1. \A b \in Attempt : /\ pc'[b] \in InFlight <=> pc[b] \in InFlight
                         /\ pc'[b] = "idle" <=> pc[b] = "idle"
                         /\ pc'[b] = "failed" <=> pc[b] = "failed"
  BY <1>0
<1>2. \A u : Running(u)' = Running(u) /\ Counting(u)' = Counting(u)
  BY <1>1 DEF Running, Counting
<1>3. PcConsistent' /\ SentKind' /\ MutexOwn' /\ OneMutexPerUser'
  BY <1>1 DEF PcConsistent, SentKind, MutexOwn, OneMutexPerUser
<1>4. FailuresExact' /\ MappedForAReason'
  BY <1>1, <1>2 DEF FailuresExact, MappedForAReason
<1>5. InFlightExact' /\ GuessesBounded'
  BY <1>2 DEF InFlightExact, GuessesBounded
<1> QED
  BY <1>3, <1>4, <1>5

\* begin: the sweep, the user's entry and, unless refused, the reservation.
LEMMA BeginShape ==
  ASSUME Shape, NEW a \in Attempt, NEW u \in User, NEW c \in Steps \cup Code,
         Begin(a, u, c)
  PROVE  Shape'
<1> USE DEF Shape
<1> DEFINE m == IF mutexOf[u] = None \/ Swept(u) THEN a ELSE mutexOf[u]
           began == ~Refuses(u)
<1>a. /\ pc[a] = "idle"
      /\ user' = [user EXCEPT ![a] = u]
      /\ code' = [code EXCEPT ![a] = c]
      /\ epochOf' = [epochOf EXCEPT ![a] = epoch]
      /\ lastSweep' = IF SweepDue THEN now ELSE lastSweep
      /\ mutexOf' = [v \in User |-> IF v = u THEN m
                                    ELSE IF Swept(v) THEN None ELSE mutexOf[v]]
      /\ failures' = [v \in User |-> IF v = u \/ SweepDue THEN Pruned(v)
                                                          ELSE failures[v]]
      /\ UNCHANGED <<lastStep, codes, now, epoch, owner, loaded, failedAt>>
  BY DEF Begin, world
<1>b. /\ ~began => /\ pc' = [pc EXCEPT ![a] = "refused"]
                   /\ UNCHANGED <<inFlight, mutex>>
      /\ began => /\ inFlight' = [inFlight EXCEPT ![u] = @ + 1]
                  /\ mutex' = [mutex EXCEPT ![a] = m]
                  /\ pc' = [pc EXCEPT ![a] = IF c \in Code THEN "lock" ELSE "checkTotp"]
  BY DEF Begin, Goto
<1>c. /\ m \in Attempt /\ m # None
      /\ \A v \in User : Pruned(v) \subseteq failures[v] /\ Pruned(v) \in SUBSET Attempt
  BY ConstantsAssumption DEF TypeOK, Pruned
<1>d. PICK l \in {"refused", "lock", "checkTotp"} :
        /\ pc' = [pc EXCEPT ![a] = l]
        /\ l = "refused" <=> ~began
        /\ l = "lock" => c \in Code
        /\ l = "checkTotp" => c \notin Code
  BY <1>b
<1>e. /\ l \in InFlight <=> began
      /\ l \notin Locked /\ l \notin {"idle", "failed"} /\ l \in InFlight \cup Over
  BY <1>d DEF InFlight, AtAwait, Ending, Locked, Over
<1>f. \A v \in User : mutexOf[v] # a
  BY <1>a, ConstantsAssumption DEF MutexOwn
<1>g. \A b \in Attempt : pc[b] \in InFlight =>
        /\ user[b] \in User /\ mutexOf[user[b]] \in Attempt
        /\ inFlight[user[b]] > 0 /\ mutex[b] = mutexOf[user[b]]
        /\ ~Swept(user[b]) /\ b # a
  BY RunningMapped, <1>a DEF Swept, InFlight, AtAwait, Ending
<1> HIDE DEF m, began
<1>1. TypeOK'
  <2>1. mutexOf' \in [User -> Attempt \cup {None}]
    BY <1>a, <1>c DEF TypeOK
  <2>2. failures' \in [User -> SUBSET Attempt]
    BY <1>a, <1>c DEF TypeOK
  <2>3. inFlight' \in [User -> Nat]
    BY <1>b DEF TypeOK
  <2>4. lastSweep' \in (0..MaxTime) \cup {None}
    BY <1>a DEF TypeOK
  <2>5. pc' \in [Attempt -> {"idle"} \cup InFlight \cup Over]
    BY <1>d, <1>e DEF TypeOK
  <2>6. mutex' \in [Attempt -> Attempt \cup {None}]
    BY <1>b, <1>c DEF TypeOK
  <2>7. /\ user' \in [Attempt -> User \cup {None}]
        /\ code' \in [Attempt -> Steps \cup Code \cup {None}]
        /\ epochOf' \in [Attempt -> 0..MaxRestarts]
    BY <1>a DEF TypeOK
  <2> QED
    BY <2>1, <2>2, <2>3, <2>4, <2>5, <2>6, <2>7, <1>a DEF TypeOK
<1>2. PcConsistent' /\ SentKind'
  <2>1. PcConsistent'
    BY <1>a, <1>d, <1>e DEF PcConsistent, TypeOK
  <2>2. SentKind'
    BY <1>a, <1>d, <1>e DEF SentKind, TypeOK, OnStep, OnList
  <2> QED
    BY <2>1, <2>2
<1>3. MutexOwn'
  <2> SUFFICES ASSUME NEW v \in User, mutexOf'[v] # None
               PROVE  pc'[mutexOf'[v]] # "idle" /\ user'[mutexOf'[v]] = v
    BY DEF MutexOwn
  <2>1. CASE mutexOf'[v] = a
    BY <2>1, <1>a, <1>d, <1>e, <1>f DEF TypeOK
  <2>2. CASE mutexOf'[v] # a
    <3>1. mutexOf'[v] = mutexOf[v]
      BY <2>2, <1>a DEF m
    <3> QED
      BY <2>2, <3>1, <1>a, <1>d DEF MutexOwn, TypeOK
  <2> QED
    BY <2>1, <2>2
<1>4. OneMutexPerUser'
  <2> SUFFICES ASSUME NEW b \in Attempt, pc'[b] \in InFlight
               PROVE  mutex'[b] = mutexOf'[user'[b]]
    BY DEF OneMutexPerUser
  <2>1. CASE b = a
    BY <2>1, <1>a, <1>b, <1>d, <1>e DEF TypeOK
  <2>2. CASE b # a
    <3>1. pc[b] \in InFlight /\ user'[b] = user[b] /\ mutex'[b] = mutex[b]
      BY <2>2, <1>a, <1>b, <1>d DEF TypeOK
    <3>2. mutexOf'[user[b]] = mutexOf[user[b]]
      BY <3>1, <1>g, <1>a, ConstantsAssumption DEF m
    <3> QED
      BY <3>1, <3>2, <1>g
  <2> QED
    BY <2>1, <2>2
<1>5. LocksConsistent'
  <2>1. \A b \in Attempt : pc'[b] \in Locked => pc[b] \in Locked /\ b # a
    BY <1>d, <1>e DEF TypeOK
  <2>2. \A b \in Attempt : pc[b] \in Locked => pc'[b] = pc[b] /\ mutex'[b] = mutex[b]
    BY <1>a, <1>b, <1>d DEF TypeOK, Locked
  <2> QED
    BY <2>1, <2>2, <1>a DEF LocksConsistent, TypeOK
<1>6. \A v \in User : /\ Counting(v)' = Counting(v)
                      /\ Running(v)' = IF v = u /\ began THEN Running(v) \cup {a}
                                                        ELSE Running(v)
  BY BeginCounts DEF began
<1>7. FailuresExact'
  <2>1. \A v \in User : Counting(v) \subseteq Pruned(v)
    BY PrunedIsCounting
  <2>2. \A v \in User : failures'[v] \subseteq failures[v]
                        /\ Counting(v) \subseteq failures'[v]
    BY <2>1, <1>a, <1>c DEF FailuresExact
  <2>3. \A v \in User : \A f \in failures[v] : f \in Attempt /\ f # a
    BY <1>a DEF FailuresExact, TypeOK
  <2>4. \A v \in User : \A f \in failures[v] :
          pc'[f] = "failed" /\ user'[f] = v /\ epochOf'[f] = epoch'
    BY <2>3, <1>a, <1>d DEF FailuresExact, TypeOK
  <2> QED
    BY <2>2, <2>4, <1>6 DEF FailuresExact
<1>8. Refuses(u) => inFlight[u] > 0 \/ Pruned(u) # {}
  <2> SUFFICES ASSUME Refuses(u), Pruned(u) = {}
               PROVE  inFlight[u] > 0
    BY DEF TypeOK
  <2>1. Cardinality(Pruned(u)) = 0
    BY FS_EmptySet
  <2> QED
    BY <2>1, ConstantsAssumption DEF Refuses, TypeOK
<1>9. MappedForAReason'
  <2> SUFFICES ASSUME NEW v \in User
               PROVE  mutexOf'[v] # None <=> inFlight'[v] > 0 \/ failures'[v] # {}
    BY DEF MappedForAReason
  <2>1. CASE v = u
    <3>1. mutexOf'[v] # None
      BY <2>1, <1>a, <1>c
    <3>2. CASE began
      BY <3>1, <3>2, <2>1, <1>b DEF TypeOK
    <3>3. CASE ~began
      BY <3>1, <3>3, <2>1, <1>a, <1>b, <1>8 DEF TypeOK, began
    <3> QED
      BY <3>2, <3>3
  <2>2. CASE v # u
    <3>1. inFlight'[v] = inFlight[v] /\ inFlight[v] \in Nat
      BY <2>2, <1>b DEF TypeOK
    <3>2. mutexOf[v] # None <=> inFlight[v] > 0 \/ failures[v] # {}
      BY DEF MappedForAReason
    <3>3. mutexOf'[v] = IF Swept(v) THEN None ELSE mutexOf[v]
      BY <2>2, <1>a
    <3>4. failures'[v] = IF SweepDue THEN Pruned(v) ELSE failures[v]
      BY <2>2, <1>a
    <3>5. CASE SweepDue
      BY <3>1, <3>2, <3>3, <3>4, <3>5, <1>c DEF Swept
    <3>6. CASE ~SweepDue
      BY <3>1, <3>2, <3>3, <3>4, <3>6 DEF Swept
    <3> QED
      BY <3>5, <3>6
  <2> QED
    BY <2>1, <2>2
<1>10. InFlightExact' /\ GuessesBounded'
  <2>1. CASE ~began
    <3>1. \A v \in User : Running(v)' = Running(v) /\ Counting(v)' = Counting(v)
      BY <2>1, <1>6
    <3> QED
      BY <2>1, <3>1, <1>b DEF InFlightExact, GuessesBounded
  <2>2. CASE began
    <3>1. a \notin Running(u)
      BY <1>a DEF Running, InFlight, AtAwait, Ending
    <3>2. Cardinality(Running(u) \cup {a}) = Cardinality(Running(u)) + 1
      BY <3>1, FiniteCounts, FS_AddElement
    <3>3. \A v \in User : inFlight'[v] = IF v = u THEN inFlight[v] + 1 ELSE inFlight[v]
      BY <2>2, <1>b DEF TypeOK
    <3>4. InFlightExact'
      BY <2>2, <3>2, <3>3, <1>6 DEF InFlightExact
    <3>5. Cardinality(Counting(u)) + Cardinality(Running(u)) < MaxFailures
      BY <2>2, PrunedIsCounting, FiniteCounts, ConstantsAssumption
         DEF began, Refuses, InFlightExact
    <3>6. GuessesBounded'
      BY <2>2, <3>2, <3>5, <1>6, FiniteCounts, ConstantsAssumption DEF GuessesBounded
    <3> QED
      BY <3>4, <3>6
  <2> QED
    BY <2>1, <2>2
<1> QED
  BY <1>1, <1>2, <1>3, <1>4, <1>5, <1>7, <1>9, <1>10

\* end: the reservation is given back, a failure is recorded, and the user
\* leaves the map when that was the last reason to be there.
LEMMA EndShape ==
  ASSUME Shape, NEW a \in Attempt, End(a)
  PROVE  Shape'
<1> USE DEF Shape
<1> DEFINE u == user[a]
           fails == pc[a] = "endFailed"
           left == inFlight[u] - 1
           live == IF fails THEN Pruned(u) \cup {a} ELSE Pruned(u)
<1>a. /\ pc[a] \in Ending /\ pc[a] \in InFlight
      /\ failedAt' = [failedAt EXCEPT ![a] = IF fails THEN now ELSE @]
      /\ mutex' = [mutex EXCEPT ![a] = None]
      /\ loaded' = [loaded EXCEPT ![a] = {}]
      /\ UNCHANGED <<lastSweep, lastStep, codes, now, epoch, user, code, epochOf, owner>>
  BY DEF End, world, InFlight
<1>b. /\ u \in User /\ mutexOf[u] \in Attempt /\ mutex[a] = mutexOf[u]
      /\ inFlight[u] > 0 /\ epochOf[a] = epoch
  BY <1>a, RunningMapped DEF PcConsistent
<1>c. /\ left \in Nat
      /\ inFlight' = [inFlight EXCEPT ![u] = left]
      /\ failures' = [failures EXCEPT ![u] = live]
      /\ mutexOf' = [mutexOf EXCEPT ![u] = IF left = 0 /\ live = {} THEN None ELSE @]
  <2>1. inFlight[u] \in Nat /\ mutexOf[u] # None
    BY <1>b, ConstantsAssumption DEF TypeOK
  <2>2. left \in Nat
    BY <1>b, <2>1
  <2>3. (IF inFlight[u] > 0 THEN inFlight[u] - 1 ELSE 0) = left
    BY <1>b
  <2> QED
    BY <2>1, <2>2, <2>3 DEF End, Unused
<1>d. PICK l \in {"loggedIn", "failed", "gone"} :
        /\ pc' = [pc EXCEPT ![a] = l]
        /\ l = "failed" <=> fails
  BY <1>a DEF End, Goto, Ending
<1>e. /\ l \notin InFlight /\ l \notin Locked /\ l # "idle"
      /\ pc[a] \notin Locked \cup {"idle", "failed"}
  BY <1>a, <1>d DEF InFlight, AtAwait, Ending, Locked
<1>f. \A v \in User : Pruned(v) \subseteq failures[v] /\ Pruned(v) \in SUBSET Attempt
  BY DEF TypeOK, Pruned
<1> HIDE DEF u, left, fails, live
<1>1. TypeOK'
  <2>1. mutexOf' \in [User -> Attempt \cup {None}]
    BY <1>c DEF TypeOK
  <2>2. failures' \in [User -> SUBSET Attempt]
    <3>1. live \in SUBSET Attempt
      BY <1>b, <1>f DEF live
    <3> QED
      BY <3>1, <1>c DEF TypeOK
  <2>3. inFlight' \in [User -> Nat]
    BY <1>c DEF TypeOK
  <2>4. pc' \in [Attempt -> {"idle"} \cup InFlight \cup Over]
    BY <1>d DEF TypeOK, Over
  <2>5. /\ mutex' \in [Attempt -> Attempt \cup {None}]
        /\ loaded' \in [Attempt -> SUBSET Code]
        /\ failedAt' \in [Attempt -> 0..MaxTime]
    BY <1>a DEF TypeOK
  <2> QED
    BY <2>1, <2>2, <2>3, <2>4, <2>5, <1>a DEF TypeOK
<1>2. PcConsistent' /\ SentKind'
  <2>1. PcConsistent'
    BY <1>a, <1>b, <1>d, <1>e DEF PcConsistent, TypeOK, u
  <2>2. SentKind'
    BY <1>a, <1>d, <1>e DEF SentKind, TypeOK, OnStep, OnList
  <2> QED
    BY <2>1, <2>2
<1>3. MutexOwn'
  BY <1>a, <1>c, <1>d, <1>e DEF MutexOwn, TypeOK
<1>4. OneMutexPerUser'
  <2> SUFFICES ASSUME NEW b \in Attempt, pc'[b] \in InFlight
               PROVE  mutex'[b] = mutexOf'[user'[b]]
    BY DEF OneMutexPerUser
  <2>1. b # a /\ pc[b] \in InFlight /\ mutex'[b] = mutex[b] /\ user'[b] = user[b]
    BY <1>a, <1>d, <1>e DEF TypeOK
  <2>2. CASE user[b] = u
    <3>1. a \in Running(u) /\ b \in Running(u)
      BY <2>1, <2>2, <1>a DEF Running, u
    <3>2. left # 0
      BY <3>1, <2>1, <1>b, InFlightTells DEF left, TypeOK
    <3> QED
      BY <2>1, <2>2, <3>2, <1>b, <1>c DEF OneMutexPerUser, TypeOK
  <2>3. CASE user[b] # u
    BY <2>1, <2>3, <1>c DEF OneMutexPerUser, TypeOK
  <2> QED
    BY <2>2, <2>3
<1>5. LocksConsistent'
  <2>1. \A b \in Attempt : pc'[b] \in Locked <=> pc[b] \in Locked
    BY <1>d, <1>e DEF TypeOK
  <2>2. \A b \in Attempt : pc[b] \in Locked => mutex'[b] = mutex[b]
    BY <1>a, <1>e DEF TypeOK
  <2> QED
    BY <2>1, <2>2, <1>a DEF LocksConsistent, TypeOK
<1>6. \A v \in User :
        /\ Running(v)' = IF v = u THEN Running(v) \ {a} ELSE Running(v)
        /\ Counting(v)' = IF v = u /\ fails THEN Counting(v) \cup {a} ELSE Counting(v)
  BY EndCounts DEF u, fails
<1>7. FailuresExact'
  <2>1. \A v \in User : Counting(v) = Pruned(v)
    BY PrunedIsCounting
  <2>2. \A v \in User : failures'[v] = IF v = u THEN live ELSE failures[v]
    BY <1>c DEF TypeOK
  <2>3. \A v \in User : Counting(v)' \subseteq failures'[v]
    BY <2>1, <2>2, <1>6 DEF FailuresExact, live
  <2>4. \A v \in User : \A f \in failures'[v] :
          f \in failures[v] \/ (f = a /\ v = u /\ fails)
    BY <2>2, <1>f DEF live
  <2>5. \A v \in User : \A f \in failures[v] : f \in Attempt /\ f # a
    BY <1>e DEF FailuresExact, TypeOK
  <2>6. \A v \in User : \A f \in failures'[v] :
          pc'[f] = "failed" /\ user'[f] = v /\ epochOf'[f] = epoch'
    <3> SUFFICES ASSUME NEW v \in User, NEW f \in failures'[v]
                 PROVE  pc'[f] = "failed" /\ user'[f] = v /\ epochOf'[f] = epoch'
      OBVIOUS
    <3>1. CASE f \in failures[v]
      BY <3>1, <2>5, <1>a, <1>d DEF FailuresExact, TypeOK
    <3>2. CASE f = a /\ v = u /\ fails
      BY <3>2, <1>a, <1>b, <1>d DEF TypeOK, u
    <3> QED
      BY <2>4, <3>1, <3>2
  <2> QED
    BY <2>3, <2>6 DEF FailuresExact
<1>8. MappedForAReason'
  <2> SUFFICES ASSUME NEW v \in User
               PROVE  mutexOf'[v] # None <=> inFlight'[v] > 0 \/ failures'[v] # {}
    BY DEF MappedForAReason
  <2>1. CASE v = u
    BY <2>1, <1>b, <1>c, ConstantsAssumption DEF TypeOK
  <2>2. CASE v # u
    BY <2>2, <1>c DEF MappedForAReason, TypeOK
  <2> QED
    BY <2>1, <2>2
<1>9. InFlightExact' /\ GuessesBounded'
  <2>1. a \in Running(u) /\ a \notin Counting(u)
    BY <1>a, <1>e DEF Running, Counting, u
  <2>2. Cardinality(Running(u) \ {a}) = Cardinality(Running(u)) - 1
    BY <2>1, FiniteCounts, FS_RemoveElement
  <2>3. Cardinality(Counting(u) \cup {a}) = Cardinality(Counting(u)) + 1
    BY <2>1, FiniteCounts, FS_AddElement
  <2>4. \A v \in User : inFlight'[v] = IF v = u THEN inFlight[u] - 1 ELSE inFlight[v]
    BY <1>c DEF TypeOK, left
  <2>5. InFlightExact'
    BY <2>2, <2>4, <1>6 DEF InFlightExact
  <2>6. GuessesBounded'
    <3> SUFFICES ASSUME NEW v \in User
                 PROVE  Cardinality(Counting(v)') + Cardinality(Running(v)') <= MaxFailures
      BY DEF GuessesBounded
    <3>1. Cardinality(Counting(v)) + Cardinality(Running(v)) <= MaxFailures
      BY DEF GuessesBounded
    <3>2. /\ Cardinality(Running(v)) \in Nat /\ Cardinality(Counting(v)) \in Nat
          /\ Cardinality(Running(u)) \in Nat /\ Cardinality(Counting(u)) \in Nat
      BY FiniteCounts
    <3>3. CASE v = u /\ fails
      <4>1. Counting(v)' = Counting(u) \cup {a} /\ Running(v)' = Running(u) \ {a}
        BY <3>3, <1>6
      <4> QED
        BY <3>1, <3>2, <3>3, <4>1, <2>2, <2>3, ConstantsAssumption
    <3>4. CASE v = u /\ ~fails
      BY <3>1, <3>2, <3>4, <2>2, <1>6, ConstantsAssumption
    <3>5. CASE v # u
      BY <3>1, <3>5, <1>6
    <3> QED
      BY <3>3, <3>4, <3>5
  <2> QED
    BY <2>5, <2>6
<1> QED
  BY <1>1, <1>2, <1>3, <1>4, <1>5, <1>7, <1>8, <1>9

\* A lock is taken, kept, or given back wherever the function returns.
LEMMA LocksStep ==
  ASSUME Shape, NEW a \in Attempt, NEW l \in InFlight, pc[a] \in InFlight,
         Goto(a, l), UNCHANGED mutex,
         \/ (l \in Locked <=> pc[a] \in Locked) /\ owner' = owner
         \/ /\ l \in Locked /\ pc[a] \notin Locked
            /\ owner[mutex[a]] = None /\ owner' = [owner EXCEPT ![mutex[a]] = a]
         \/ l \notin Locked /\ Unlock(a)
  PROVE  LocksConsistent' /\ owner' \in [Attempt -> Attempt \cup {None}]
<1> USE DEF Shape, Goto
<1>0. mutex[a] \in Attempt
  BY RunningMapped
<1>1. CASE (l \in Locked <=> pc[a] \in Locked) /\ owner' = owner
  BY <1>1 DEF LocksConsistent, TypeOK
<1>2. CASE /\ l \in Locked /\ pc[a] \notin Locked
           /\ owner[mutex[a]] = None /\ owner' = [owner EXCEPT ![mutex[a]] = a]
  <2>1. \A m \in Attempt : owner'[m] = IF m = mutex[a] THEN a ELSE owner[m]
    BY <1>2 DEF TypeOK
  <2>2. \A b \in Attempt : pc'[b] = IF b = a THEN l ELSE pc[b]
    BY DEF TypeOK
  <2>3. \A b \in Attempt : b # a /\ pc[b] \in Locked =>
          mutex[b] # mutex[a] /\ mutex[b] \in Attempt
    <3>1. \A b \in Attempt : pc[b] \in Locked => owner[mutex[b]] = b /\ b # None
      BY ConstantsAssumption DEF LocksConsistent
    <3>2. \A b \in Attempt : pc[b] \in Locked => mutex[b] \in Attempt
      BY RunningMapped DEF Locked, InFlight, AtAwait
    <3> QED
      BY <3>1, <3>2, <1>2
  <2>4. \A b \in Attempt : pc'[b] \in Locked => owner'[mutex'[b]] = b
    BY <2>1, <2>2, <2>3, <1>0 DEF LocksConsistent
  <2>5. \A m \in Attempt : owner'[m] # None =>
          pc'[owner'[m]] \in Locked /\ mutex'[owner'[m]] = m
    BY <2>1, <2>2, <1>2 DEF LocksConsistent, TypeOK
  <2> QED
    BY <2>4, <2>5, <1>2 DEF LocksConsistent, TypeOK
<1>3. CASE l \notin Locked /\ Unlock(a)
  <2>1. \A m \in Attempt : owner'[m] = IF owner[m] = a THEN None ELSE owner[m]
    BY <1>3 DEF Unlock
  <2>2. \A b \in Attempt : pc'[b] = IF b = a THEN l ELSE pc[b]
    BY DEF TypeOK
  <2>3. \A b \in Attempt : pc[b] \in Locked => mutex[b] \in Attempt
    BY RunningMapped DEF Locked, InFlight, AtAwait
  <2>4. owner' \in [Attempt -> Attempt \cup {None}]
    BY <1>3 DEF TypeOK, Unlock
  <2>5. \A b \in Attempt : pc'[b] \in Locked => owner'[mutex'[b]] = b
    BY <2>1, <2>2, <2>3, <1>3 DEF LocksConsistent
  <2>6. \A m \in Attempt : owner'[m] # None =>
          pc'[owner'[m]] \in Locked /\ mutex'[owner'[m]] = m
    BY <2>1, <2>2, <1>3 DEF LocksConsistent, TypeOK
  <2> QED
    BY <2>4, <2>5, <2>6 DEF LocksConsistent
<1> QED
  BY <1>1, <1>2, <1>3

\* One step of the process.
LEMMA ShapeStep == Shape /\ [Next]_vars => Shape'
<1> SUFFICES ASSUME Shape, [Next]_vars PROVE Shape'
  OBVIOUS
<1> USE DEF Shape
<1>1. ASSUME NEW a \in Attempt, NEW u \in User, NEW c \in Steps \cup Code, Begin(a, u, c)
      PROVE  Shape'
  BY <1>1, BeginShape
<1>2. ASSUME NEW a \in Attempt, End(a)
      PROVE  Shape'
  BY <1>2, EndShape
<1>3. ASSUME NEW a \in Attempt, NEW l \in InFlight, pc[a] \in InFlight, Goto(a, l),
             UNCHANGED <<budget, world, request>>,
             l \in OnStep => pc[a] \in OnStep, l \in OnList => pc[a] \in OnList,
             lastStep' \in [User -> Steps \cup {-1}],
             codes' \in [User -> SUBSET Code],
             loaded' \in [Attempt -> SUBSET Code],
             \/ (l \in Locked <=> pc[a] \in Locked) /\ owner' = owner
             \/ /\ l \in Locked /\ pc[a] \notin Locked
                /\ owner[mutex[a]] = None /\ owner' = [owner EXCEPT ![mutex[a]] = a]
             \/ l \notin Locked /\ Unlock(a)
      PROVE  Shape'
  <2>1. LocksConsistent' /\ owner' \in [Attempt -> Attempt \cup {None}]
    BY <1>3, LocksStep DEF request
  <2>2. pc' \in [Attempt -> {"idle"} \cup InFlight \cup Over]
    BY <1>3 DEF Goto, TypeOK
  <2>3. TypeOK'
    BY <1>3, <2>1, <2>2 DEF TypeOK, budget, world, request
  <2> QED
    BY <1>3, <2>1, <2>3, GoOnShape
<1>4. ASSUME NEW a \in Attempt, CheckTotp(a)
      PROVE  Shape'
  <2>1. PICK l \in {"consume", "endFailed", "endError"} :
          pc[a] = "checkTotp" /\ Goto(a, l)
          /\ UNCHANGED <<budget, lastStep, codes, world, request, owner, loaded>>
    BY <1>4 DEF CheckTotp
  <2>2. l \in InFlight /\ pc[a] \in InFlight /\ l \notin Locked /\ pc[a] \notin Locked
        /\ (l \in OnStep => pc[a] \in OnStep) /\ l \notin OnList
    BY <2>1 DEF InFlight, AtAwait, Ending, Locked, OnStep, OnList
  <2> QED
    BY <2>1, <2>2, <1>3 DEF TypeOK
<1>5. ASSUME NEW a \in Attempt, ConsumeStep(a)
      PROVE  Shape'
  <2>1. PICK l \in {"finish", "endFailed"} :
          /\ pc[a] = "consume" /\ Goto(a, l)
          /\ \/ l = "finish" /\ code[a] > lastStep[user[a]]
                /\ lastStep' = [lastStep EXCEPT ![user[a]] = code[a]]
             \/ l = "endFailed" /\ UNCHANGED lastStep
          /\ UNCHANGED <<budget, codes, world, request, owner, loaded>>
    BY <1>5 DEF ConsumeStep
  <2>2. l \in InFlight /\ pc[a] \in InFlight /\ l \notin Locked /\ pc[a] \notin Locked
        /\ (l \in OnStep => pc[a] \in OnStep) /\ l \notin OnList
    BY <2>1 DEF InFlight, AtAwait, Ending, Locked, OnStep, OnList
  <2>3. lastStep' \in [User -> Steps \cup {-1}]
    BY <2>1 DEF TypeOK, SentKind, OnStep
  <2> QED
    BY <2>1, <2>2, <2>3, <1>3 DEF TypeOK
<1>6. ASSUME NEW a \in Attempt, Finish(a)
      PROVE  Shape'
  <2>1. PICK l \in Ending :
          pc[a] = "finish" /\ Goto(a, l)
          /\ UNCHANGED <<budget, lastStep, codes, world, request, owner, loaded>>
    BY <1>6 DEF Finish
  <2>2. l \in InFlight /\ pc[a] \in InFlight /\ l \notin Locked /\ pc[a] \notin Locked
        /\ (l \in OnStep => pc[a] \in OnStep) /\ l \notin OnList
    BY <2>1 DEF InFlight, AtAwait, Ending, Locked, OnStep, OnList
  <2> QED
    BY <2>1, <2>2, <1>3 DEF TypeOK
<1>7. ASSUME NEW a \in Attempt, Lock(a)
      PROVE  Shape'
  <2>1. "load" \in InFlight /\ pc[a] \in InFlight /\ "load" \in Locked /\ pc[a] \notin Locked
        /\ "load" \notin OnStep /\ pc[a] \in OnList
    BY <1>7 DEF InFlight, AtAwait, Ending, Locked, OnStep, OnList, Lock
  <2> QED
    BY <2>1, <1>7, <1>3 DEF TypeOK, Lock
<1>8. ASSUME NEW a \in Attempt, LoadCodes(a)
      PROVE  Shape'
  <2>1. pc[a] \in InFlight /\ pc[a] \in Locked /\ user[a] \in User
    BY <1>8, RunningMapped DEF LoadCodes, InFlight, AtAwait, Locked
  <2>2. PICK l \in {"find", "endFailed", "endError"} :
          /\ Goto(a, l)
          /\ \/ l = "find" /\ owner' = owner
                /\ loaded' = [loaded EXCEPT ![a] = codes[user[a]]]
             \/ l # "find" /\ Unlock(a) /\ loaded' = loaded
          /\ UNCHANGED <<budget, lastStep, codes, world, request>>
    BY <1>8 DEF LoadCodes
  <2>3. l \in InFlight /\ (l \in Locked <=> l = "find")
        /\ l \notin OnStep /\ pc[a] \in OnList
    BY <2>1, <2>2 DEF InFlight, AtAwait, Ending, Locked, OnStep, OnList
  <2>4. loaded' \in [Attempt -> SUBSET Code]
    BY <2>1, <2>2 DEF TypeOK
  <2> QED
    BY <2>1, <2>2, <2>3, <2>4, <1>3 DEF TypeOK
<1>9. ASSUME NEW a \in Attempt, FindCode(a)
      PROVE  Shape'
  <2>1. pc[a] \in InFlight /\ pc[a] \in Locked
    BY <1>9 DEF FindCode, InFlight, AtAwait, Locked
  <2>2. PICK l \in {"read", "endFailed", "endError"} :
          /\ Goto(a, l)
          /\ \/ l = "read" /\ owner' = owner
             \/ l # "read" /\ Unlock(a)
          /\ UNCHANGED <<budget, lastStep, codes, world, request, loaded>>
    BY <1>9 DEF FindCode
  <2>3. l \in InFlight /\ (l \in Locked <=> l = "read")
        /\ l \notin OnStep /\ pc[a] \in OnList
    BY <2>1, <2>2 DEF InFlight, AtAwait, Ending, Locked, OnStep, OnList
  <2> QED
    BY <2>1, <2>2, <2>3, <1>3 DEF TypeOK
<1>10. ASSUME NEW a \in Attempt, RemoveRead(a)
       PROVE  Shape'
  <2>1. /\ pc[a] \in InFlight /\ pc[a] \in Locked /\ user[a] \in User
        /\ "write" \in InFlight /\ "write" \in Locked
        /\ "write" \notin OnStep /\ pc[a] \in OnList
    BY <1>10, RunningMapped DEF RemoveRead, InFlight, AtAwait, Locked, OnStep, OnList
  <2>2. loaded' \in [Attempt -> SUBSET Code]
    BY <1>10, <2>1 DEF TypeOK, RemoveRead
  <2> QED
    BY <2>1, <2>2, <1>10, <1>3 DEF TypeOK, RemoveRead
<1>11. ASSUME NEW a \in Attempt, RemoveWrite(a)
       PROVE  Shape'
  <2>1. pc[a] \in InFlight /\ pc[a] \in Locked /\ user[a] \in User
    BY <1>11, RunningMapped DEF RemoveWrite, InFlight, AtAwait, Locked
  <2>2. PICK l \in {"finish", "endError"} :
          /\ Goto(a, l) /\ Unlock(a)
          /\ \/ codes' = [codes EXCEPT ![user[a]] = loaded[a] \ {code[a]}]
             \/ codes' = codes
          /\ UNCHANGED <<budget, lastStep, world, request, loaded>>
    BY <1>11 DEF RemoveWrite
  <2>3. l \in InFlight /\ l \notin Locked /\ l \notin OnStep /\ l \notin OnList
    BY <2>2 DEF InFlight, AtAwait, Ending, Locked, OnStep, OnList
  <2>4. codes' \in [User -> SUBSET Code]
    BY <2>1, <2>2 DEF TypeOK
  <2> QED
    BY <2>1, <2>2, <2>3, <2>4, <1>3 DEF TypeOK
<1>12. ASSUME NEW a \in Attempt, Cancel(a)
       PROVE  Shape'
  <2>1. pc[a] \in InFlight /\ "endError" \in InFlight /\ "endError" \notin Locked
        /\ "endError" \notin OnStep /\ "endError" \notin OnList
    BY <1>12 DEF Cancel, InFlight, AtAwait, Ending, Locked, OnStep, OnList
  <2> QED
    BY <2>1, <1>12, <1>3 DEF TypeOK, Cancel
<1>13. ASSUME Restart
       PROVE  Shape'
  <2>0. "gone" \notin InFlight \cup Locked \cup {"idle", "failed"} /\ "gone" \in Over
        /\ Locked \subseteq InFlight
    BY DEF InFlight, AtAwait, Ending, Locked, Over
  <2>r. /\ epoch' = epoch + 1 /\ epoch < MaxRestarts
        /\ mutexOf' = [u \in User |-> None]
        /\ failures' = [u \in User |-> {}]
        /\ inFlight' = [u \in User |-> 0]
        /\ lastSweep' = None
        /\ lastStep' = [u \in User |-> -1]
        /\ owner' = [m \in Attempt |-> None]
        /\ pc' = [a \in Attempt |-> IF pc[a] \in InFlight THEN "gone" ELSE pc[a]]
        /\ mutex' = [a \in Attempt |-> None]
        /\ loaded' = [a \in Attempt |-> {}]
        /\ UNCHANGED <<codes, now, user, code, epochOf, failedAt>>
    BY <1>13 DEF Restart
  <2>1. TypeOK'
    <3>1. epoch' \in 0..MaxRestarts
      BY <2>r, ConstantsAssumption DEF TypeOK
    <3>2. pc' \in [Attempt -> {"idle"} \cup InFlight \cup Over]
      BY <2>r, <2>0 DEF TypeOK
    <3>3. /\ mutexOf' \in [User -> Attempt \cup {None}]
          /\ failures' \in [User -> SUBSET Attempt]
          /\ inFlight' \in [User -> Nat]
          /\ lastStep' \in [User -> Steps \cup {-1}]
          /\ owner' \in [Attempt -> Attempt \cup {None}]
          /\ mutex' \in [Attempt -> Attempt \cup {None}]
          /\ loaded' \in [Attempt -> SUBSET Code]
      BY <2>r
    <3> QED
      BY <3>1, <3>2, <3>3, <2>r DEF TypeOK
  <2>2. \A a \in Attempt : /\ pc'[a] \notin InFlight
                           /\ pc'[a] = "idle" <=> pc[a] = "idle"
    BY <2>0, <2>r DEF InFlight, AtAwait, Ending
  <2>4. PcConsistent' /\ SentKind' /\ MutexOwn' /\ OneMutexPerUser' /\ LocksConsistent'
    <3>1. PcConsistent'
      BY <2>2, <2>r, ConstantsAssumption DEF PcConsistent, TypeOK
    <3>2. SentKind'
      BY <2>0, <2>r DEF SentKind, TypeOK, OnStep, OnList
    <3> QED
      BY <3>1, <3>2, <2>0, <2>2, <2>r DEF MutexOwn, OneMutexPerUser, LocksConsistent
  <2>5. \A u \in User : Running(u)' = {} /\ Counting(u)' = {}
    BY <1>13, RestartCounts
  <2>6. FailuresExact' /\ MappedForAReason'
    BY <2>5, <2>r DEF FailuresExact, MappedForAReason
  <2>7. InFlightExact' /\ GuessesBounded'
    <3>1. Cardinality({}) = 0
      BY FS_EmptySet
    <3>2. \A u \in User : Cardinality(Running(u)') = 0 /\ Cardinality(Counting(u)') = 0
      BY <2>5, <3>1
    <3> QED
      BY <3>2, <2>r, ConstantsAssumption DEF InFlightExact, GuessesBounded
  <2> QED
    BY <2>1, <2>4, <2>6, <2>7
<1>14. ASSUME Tick
       PROVE  Shape'
  <2> USE <1>14 DEF Tick, budget, request
  <2>1. TypeOK'
    BY ConstantsAssumption DEF TypeOK
  <2>2. PcConsistent' /\ SentKind' /\ MutexOwn' /\ OneMutexPerUser' /\ LocksConsistent'
    BY DEF PcConsistent, SentKind, MutexOwn, OneMutexPerUser, LocksConsistent
  <2>3. \A u \in User : Running(u)' = Running(u) /\ Counting(u)' \subseteq Counting(u)
    BY TickCounts
  <2>4. FailuresExact' /\ MappedForAReason'
    BY <2>3 DEF FailuresExact, MappedForAReason
  <2>5. InFlightExact'
    BY <2>3 DEF InFlightExact
  <2>6. GuessesBounded'
    <3> SUFFICES ASSUME NEW u \in User
                 PROVE  Cardinality(Counting(u)') + Cardinality(Running(u)') <= MaxFailures
      BY DEF GuessesBounded
    <3>1. /\ Cardinality(Counting(u)') <= Cardinality(Counting(u))
          /\ Cardinality(Counting(u)') \in Nat
      BY <2>3, FiniteCounts, FS_Subset, FS_CardinalityType
    <3>2. Cardinality(Counting(u)) + Cardinality(Running(u)) <= MaxFailures
      BY DEF GuessesBounded
    <3>3. Running(u)' = Running(u)
      BY <2>3
    <3> QED
      BY <3>1, <3>2, <3>3, FiniteCounts, ConstantsAssumption
  <2> QED
    BY <2>1, <2>2, <2>4, <2>5, <2>6
<1>15. ASSUME UNCHANGED vars
       PROVE  Shape'
  BY <1>15 DEF vars, budget, request, world, TypeOK, PcConsistent, SentKind, MutexOwn, OneMutexPerUser,
       LocksConsistent, FailuresExact, MappedForAReason, InFlightExact, GuessesBounded,
       Running, Counting
<1> QED
  BY <1>1, <1>2, <1>4, <1>5, <1>6, <1>7, <1>8, <1>9, <1>10, <1>11, <1>12, <1>13, <1>14,
     <1>15 DEF Next, Step

----------------------------------------------------------------------------
(* The recovery codes *)

\* Full lists, and nobody in.
LEMMA CodesInit == Init => Codes
<1> SUFFICES ASSUME Init PROVE Codes
  OBVIOUS
<1>1. \A a \in Attempt : pc[a] = "idle"
  BY DEF Init
<1> QED
  BY <1>1 DEF Codes, ListsCurrent, CodesStayUsed, RecoveryCodeOnce, RemovalNotUndone, Accepted

\* A step that leaves the lists alone and lets nobody in who sent a recovery
\* code: every attempt stays where it was, leaves the list, or is one that
\* goes on with what it knows.
LEMMA CodesKept ==
  ASSUME Shape, Codes, UNCHANGED codes,
         \A b \in Attempt :
           /\ pc'[b] \in {"find", "read", "write"} =>
                /\ pc'[b] = pc[b] /\ loaded'[b] = loaded[b]
                /\ code'[b] = code[b] /\ user'[b] = user[b]
           /\ Accepted(b)' =>
                /\ user'[b] = user[b] /\ code'[b] = code[b] /\ user[b] \in User
                /\ Accepted(b) \/ code[b] \notin Code
  PROVE  Codes'
<1> USE DEF Codes
<1>1. ListsCurrent'
  BY DEF ListsCurrent
<1>2. RemovalNotUndone'
  BY DEF RemovalNotUndone, CodesStayUsed, Shape, TypeOK
<1>3. RecoveryCodeOnce'
  BY DEF RecoveryCodeOnce, CodesStayUsed
<1> QED
  BY <1>1, <1>2, <1>3 DEF CodesStayUsed

\* Only the holder of the user's mutex writes the list back, and what it
\* writes is the stored list without the code it found there.
LEMMA CodesStep == Shape /\ Codes /\ [Next]_vars => Codes'
<1> SUFFICES ASSUME Shape, Codes, [Next]_vars PROVE Codes'
  OBVIOUS
<1> USE DEF Goto
<1>t. TypeOK /\ PcConsistent /\ SentKind
  BY DEF Shape
<1>a. \A b \in Attempt : Accepted(b) => user[b] \in User
  BY <1>t DEF Accepted, PcConsistent
<1>1. ASSUME NEW a \in Attempt, NEW u \in User, NEW c \in Steps \cup Code, Begin(a, u, c)
      PROVE  Codes'
  <2>1. /\ pc[a] = "idle" /\ UNCHANGED <<codes, loaded>>
        /\ \E l \in {"refused", "lock", "checkTotp"} : pc' = [pc EXCEPT ![a] = l]
        /\ user' = [user EXCEPT ![a] = u] /\ code' = [code EXCEPT ![a] = c]
    BY <1>1 DEF Begin
  <2>2. /\ ~Accepted(a)' /\ pc'[a] \notin {"find", "read", "write"}
        /\ \A b \in Attempt : b # a => /\ pc'[b] = pc[b] /\ user'[b] = user[b]
                                       /\ code'[b] = code[b] /\ (Accepted(b)' <=> Accepted(b))
    BY <2>1, <1>t DEF TypeOK, Accepted
  <2> QED
    BY <2>1, <2>2, <1>a, CodesKept
<1>2. ASSUME NEW a \in Attempt, UNCHANGED <<codes, user, code>>,
             \A b \in Attempt : b # a => pc'[b] = pc[b] /\ loaded'[b] = loaded[b],
             pc'[a] \notin {"find", "read", "write"},
             Accepted(a)' => Accepted(a) \/ (code[a] \notin Code /\ user[a] \in User)
      PROVE  Codes'
  <2>1. \A b \in Attempt : b # a => (Accepted(b)' <=> Accepted(b))
    BY <1>2 DEF Accepted
  <2> QED
    BY <2>1, <1>2, <1>a, CodesKept
<1>3. ASSUME NEW a \in Attempt, End(a)
      PROVE  Codes'
  <2>1. PICK l \in {"loggedIn", "failed", "gone"} :
          pc' = [pc EXCEPT ![a] = l] /\ (l = "loggedIn" => pc[a] = "endOk")
    BY <1>3 DEF End, Ending
  <2> QED
    BY <2>1, <1>2, <1>3, <1>t DEF End, Accepted, TypeOK
<1>4. ASSUME NEW a \in Attempt, CheckTotp(a)
      PROVE  Codes'
  BY <1>2, <1>4, <1>t DEF CheckTotp, request, Accepted, TypeOK
<1>5. ASSUME NEW a \in Attempt, ConsumeStep(a)
      PROVE  Codes'
  BY <1>2, <1>5, <1>t DEF ConsumeStep, request, Accepted, TypeOK, PcConsistent, SentKind, OnStep
<1>6. ASSUME NEW a \in Attempt, Finish(a)
      PROVE  Codes'
  BY <1>2, <1>6, <1>t DEF Finish, request, Accepted, TypeOK, Ending
<1>7. ASSUME NEW a \in Attempt, Lock(a) \/ Cancel(a)
      PROVE  Codes'
  BY <1>2, <1>7, <1>t DEF Lock, Cancel, request, Accepted, TypeOK
<1>8. ASSUME NEW a \in Attempt, pc[a] \in Locked, NEW l \in Locked \cup Ending,
             pc' = [pc EXCEPT ![a] = l],
             ~Accepted(a)', UNCHANGED <<codes, user, code>>,
             \A b \in Attempt : b # a => loaded'[b] = loaded[b],
             l \in {"find", "write"} => loaded'[a] = codes[user[a]],
             l \in {"read", "write"} => code[a] \in codes[user[a]]
      PROVE  Codes'
  <2>1. \A b \in Attempt : b # a => pc'[b] = pc[b] /\ (Accepted(b)' <=> Accepted(b))
    BY <1>8, <1>t DEF Accepted, TypeOK
  <2>2. pc'[a] = l
    BY <1>8, <1>t DEF TypeOK
  <2>3. ListsCurrent'
    BY <2>1, <2>2, <1>8 DEF Codes, ListsCurrent
  <2>4. CodesStayUsed'
    BY <2>1, <1>8 DEF Codes, CodesStayUsed, RecoveryCodeOnce, RemovalNotUndone
  <2> QED
    BY <2>3, <2>4 DEF Codes
<1>9. ASSUME NEW a \in Attempt, LoadCodes(a)
      PROVE  Codes'
  <2>1. PICK l \in {"find", "endFailed", "endError"} :
          /\ pc[a] = "load"
          /\ pc' = [pc EXCEPT ![a] = l]
          /\ l = "find" => loaded' = [loaded EXCEPT ![a] = codes[user[a]]]
          /\ l # "find" => loaded' = loaded
          /\ UNCHANGED <<codes, user, code>>
    BY <1>9 DEF LoadCodes, request
  <2>2. pc[a] \in Locked /\ l \in Locked \cup Ending /\ ~Accepted(a)'
    BY <2>1, <1>t DEF Locked, Ending, Accepted, TypeOK
  <2>3. /\ \A b \in Attempt : b # a => loaded'[b] = loaded[b]
        /\ l = "find" => loaded'[a] = codes[user[a]]
    BY <2>1, <1>t DEF TypeOK
  <2> QED
    BY <2>1, <2>2, <2>3, <1>8
<1>10. ASSUME NEW a \in Attempt, FindCode(a)
       PROVE  Codes'
  <2>1. PICK l \in {"read", "endFailed", "endError"} :
          /\ pc[a] = "find"
          /\ pc' = [pc EXCEPT ![a] = l]
          /\ l = "read" => code[a] \in loaded[a]
          /\ UNCHANGED <<codes, user, code, loaded>>
    BY <1>10 DEF FindCode, request
  <2>2. pc[a] \in Locked /\ l \in Locked \cup Ending /\ ~Accepted(a)'
    BY <2>1, <1>t DEF Locked, Ending, Accepted, TypeOK
  <2>3. loaded[a] = codes[user[a]]
    BY <2>1 DEF Codes, ListsCurrent
  <2> QED
    BY <2>1, <2>2, <2>3, <1>8
<1>11. ASSUME NEW a \in Attempt, RemoveRead(a)
       PROVE  Codes'
  <2>1. /\ pc[a] = "read"
        /\ pc' = [pc EXCEPT ![a] = "write"]
        /\ loaded' = [loaded EXCEPT ![a] = codes[user[a]]]
        /\ UNCHANGED <<codes, user, code>>
    BY <1>11 DEF RemoveRead, request
  <2>2. pc[a] \in Locked /\ "write" \in Locked /\ ~Accepted(a)'
    BY <2>1, <1>t DEF Locked, Accepted, TypeOK
  <2>3. /\ \A b \in Attempt : b # a => loaded'[b] = loaded[b]
        /\ loaded'[a] = codes[user[a]]
        /\ code[a] \in codes[user[a]]
    BY <2>1, <1>t DEF TypeOK, Codes, ListsCurrent
  <2> QED
    BY <2>1, <2>2, <2>3, <1>8
<1>12. ASSUME NEW a \in Attempt, RemoveWrite(a)
       PROVE  Codes'
  <2>0. pc[a] = "write" /\ pc[a] \in Locked /\ user[a] \in User /\ UNCHANGED <<user, code, loaded>>
        /\ code[a] \in Code /\ loaded[a] = codes[user[a]] /\ code[a] \in codes[user[a]]
    BY <1>12, <1>t DEF RemoveWrite, request, PcConsistent, SentKind, OnList, Locked,
                       Codes, ListsCurrent
  <2>1. CASE UNCHANGED codes /\ pc' = [pc EXCEPT ![a] = "endError"]
    BY <2>0, <2>1, <1>t, <1>8 DEF Ending, Accepted, TypeOK
  <2>2. CASE /\ codes' = [codes EXCEPT ![user[a]] = loaded[a] \ {code[a]}]
             /\ pc' = [pc EXCEPT ![a] = "finish"]
    <3>1. \A v \in User : codes'[v] = IF v = user[a] THEN codes[v] \ {code[a]} ELSE codes[v]
      BY <2>0, <2>2, <1>t DEF TypeOK
    <3>2. /\ pc'[a] = "finish"
          /\ \A b \in Attempt : b # a => pc'[b] = pc[b] /\ (Accepted(b)' <=> Accepted(b))
      BY <2>2, <1>t DEF TypeOK, Accepted
    <3>3. \A b \in Attempt : b # a /\ pc[b] \in Locked => user[b] # user[a] /\ user[b] \in User
      BY <2>0, <1>t, CodesExclusive DEF PcConsistent, Locked
    <3>4. ListsCurrent'
      <4>1. \A b \in Attempt : b # a /\ pc[b] \in Locked => codes'[user[b]] = codes[user[b]]
        BY <3>1, <3>3
      <4> QED
        BY <4>1, <3>2, <2>0 DEF Codes, ListsCurrent, Locked
    <3>5. RemovalNotUndone'
      BY <3>1, <3>2, <2>0, <1>a DEF Codes, CodesStayUsed, RemovalNotUndone
    <3>6. RecoveryCodeOnce'
      <4>1. \A b \in Attempt : Accepted(b) /\ user[b] = user[a] => code[b] # code[a]
        BY <2>0 DEF Codes, CodesStayUsed, RemovalNotUndone
      <4> QED
        BY <4>1, <3>2, <2>0 DEF Codes, CodesStayUsed, RecoveryCodeOnce
    <3> QED
      BY <3>4, <3>5, <3>6 DEF Codes, CodesStayUsed
  <2> QED
    BY <2>1, <2>2, <1>12 DEF RemoveWrite
<1>13. ASSUME Restart
       PROVE  Codes'
  <2>1. /\ UNCHANGED <<codes, user, code>>
        /\ pc' = [a \in Attempt |-> IF pc[a] \in InFlight THEN "gone" ELSE pc[a]]
    BY <1>13 DEF Restart
  <2>2. \A b \in Attempt : /\ pc'[b] \notin {"find", "read", "write"}
                           /\ Accepted(b)' => Accepted(b)
    BY <2>1 DEF Accepted, InFlight, AtAwait
  <2> QED
    BY <2>1, <2>2, <1>a, CodesKept
<1>14. ASSUME Tick \/ UNCHANGED vars
       PROVE  Codes'
  BY <1>14, <1>a, CodesKept DEF Tick, vars, request, Accepted
<1> QED
  BY <1>1, <1>3, <1>4, <1>5, <1>6, <1>7, <1>9, <1>10, <1>11, <1>12, <1>13, <1>14
     DEF Next, Step

----------------------------------------------------------------------------
(* The TOTP steps *)

LEMMA TotpInit == Init => Totp
<1> SUFFICES ASSUME Init PROVE Totp
  OBVIOUS
<1>1. \A a \in Attempt : ~Accepted(a)
  BY DEF Init, Accepted
<1> QED
  BY <1>1 DEF Totp, StepsRemembered, TotpStepOnce

\* Nobody gets in with a step, and what is remembered stays or the process
\* is a new one.
LEMMA TotpKept ==
  ASSUME Shape, Totp, Codes',
         \/ lastStep' = lastStep /\ epoch' = epoch
         \/ \A b \in Attempt : epochOf'[b] # epoch',
         \A b \in Attempt : Accepted(b)' =>
           /\ Accepted(b) \/ code[b] \in Code
           /\ user'[b] = user[b] /\ code'[b] = code[b] /\ epochOf'[b] = epochOf[b]
  PROVE  Totp'
<1>1. StepsRemembered'
  BY DEF Totp, StepsRemembered
<1>2. TotpStepOnce'
  <2> SUFFICES ASSUME NEW a \in Attempt, NEW b \in Attempt, a # b, Accepted(a)', Accepted(b)',
                      user'[a] = user'[b], epochOf'[a] = epochOf'[b], code'[a] \in Steps,
                      code'[a] = code'[b]
               PROVE  FALSE
    BY DEF TotpStepOnce
  <2>1. CASE code'[a] \in Code
    BY <2>1 DEF Codes, CodesStayUsed, RecoveryCodeOnce
  <2>2. CASE code'[a] \notin Code
    BY <2>2 DEF Totp, TotpStepOnce
  <2> QED
    BY <2>1, <2>2
<1> QED
  BY <1>1, <1>2 DEF Totp

\* consume_totp_step_in_process accepts only a later step than any before.
LEMMA TotpStep == Shape /\ Totp /\ Codes' /\ [Next]_vars => Totp'
<1> SUFFICES ASSUME Shape, Totp, Codes', [Next]_vars PROVE Totp'
  OBVIOUS
<1> USE DEF Goto
<1>t. TypeOK /\ PcConsistent /\ SentKind
  BY DEF Shape
<1>1. ASSUME NEW a \in Attempt, ConsumeStep(a), pc'[a] = "finish"
      PROVE  Totp'
  <2>1. /\ pc[a] = "consume" /\ pc' = [pc EXCEPT ![a] = "finish"]
        /\ code[a] > lastStep[user[a]]
        /\ lastStep' = [lastStep EXCEPT ![user[a]] = code[a]]
        /\ UNCHANGED <<user, code, epochOf, epoch>>
    BY <1>1, <1>t DEF ConsumeStep, request, world, TypeOK
  <2>2. /\ user[a] \in User /\ code[a] \in Steps /\ code[a] \notin Code /\ epochOf[a] = epoch
    BY <2>1, <1>t DEF PcConsistent, SentKind, OnStep, InFlight, AtAwait
  <2>3. /\ \A b \in Attempt : b # a => (Accepted(b)' <=> Accepted(b))
        /\ \A b \in Attempt : Accepted(b) => user[b] \in User
    BY <2>1, <1>t DEF Accepted, TypeOK, PcConsistent
  <2>4. \A v \in User : lastStep'[v] = IF v = user[a] THEN code[a] ELSE lastStep[v]
    BY <2>1, <1>t DEF TypeOK
  <2>5. \A v \in User : lastStep[v] \in Int
    BY <1>t, ConstantsAssumption DEF TypeOK, Steps
  <2>6. code[a] \in Int /\ \A b \in Attempt : code[b] \in Steps => code[b] \in Int
    BY <2>2, ConstantsAssumption DEF Steps
  <2>7. StepsRemembered'
    <3> SUFFICES ASSUME NEW b \in Attempt, Accepted(b)', code[b] \notin Code
                 PROVE  code[b] \in Steps /\ (epochOf[b] = epoch => code[b] <= lastStep'[user[b]])
      BY <2>1 DEF StepsRemembered
    <3>1. CASE b = a
      BY <3>1, <2>2, <2>4, <2>6
    <3>2. CASE b # a
      <4>1. Accepted(b) /\ user[b] \in User
        BY <3>2, <2>3
      <4>2. code[b] \in Steps /\ (epochOf[b] = epoch => code[b] <= lastStep[user[b]])
        BY <4>1 DEF Totp, StepsRemembered
      <4> QED
        BY <4>1, <4>2, <2>1, <2>4, <2>5, <2>6
    <3> QED
      BY <3>1, <3>2
  <2>8. TotpStepOnce'
    <3>1. \A b \in Attempt : b # a /\ Accepted(b)' /\ user[b] = user[a] /\ epochOf[b] = epochOf[a]
                              => code[b] # code[a]
      <4> SUFFICES ASSUME NEW b \in Attempt, b # a, Accepted(b), user[b] = user[a],
                          epochOf[b] = epoch, code[b] = code[a]
                   PROVE  FALSE
        BY <2>2, <2>3
      <4>1. code[b] <= lastStep[user[a]]
        BY <2>2 DEF Totp, StepsRemembered
      <4> QED
        BY <4>1, <2>1, <2>2, <2>5, <2>6
    <3> QED
      BY <3>1, <2>1, <2>3 DEF Totp, TotpStepOnce
  <2> QED
    BY <2>7, <2>8 DEF Totp
<1>2. ASSUME NEW a \in Attempt, UNCHANGED <<user, code, epochOf, epoch, lastStep>>,
             \A b \in Attempt : b # a => pc'[b] = pc[b],
             Accepted(a)' => Accepted(a) \/ code[a] \in Code
      PROVE  Totp'
  <2>1. \A b \in Attempt : b # a => (Accepted(b)' <=> Accepted(b))
    BY <1>2 DEF Accepted
  <2> QED
    BY <2>1, <1>2, TotpKept
<1>3. ASSUME NEW a \in Attempt, NEW u \in User, NEW c \in Steps \cup Code, Begin(a, u, c)
      PROVE  Totp'
  <2>1. /\ pc[a] = "idle" /\ UNCHANGED <<lastStep, epoch>>
        /\ \E l \in {"refused", "lock", "checkTotp"} : pc' = [pc EXCEPT ![a] = l]
        /\ user' = [user EXCEPT ![a] = u] /\ code' = [code EXCEPT ![a] = c]
        /\ epochOf' = [epochOf EXCEPT ![a] = epoch]
    BY <1>3 DEF Begin, world
  <2>2. /\ ~Accepted(a)'
        /\ \A b \in Attempt : b # a => /\ user'[b] = user[b] /\ epochOf'[b] = epochOf[b]
                                       /\ code'[b] = code[b] /\ (Accepted(b)' <=> Accepted(b))
    BY <2>1, <1>t DEF TypeOK, Accepted
  <2> QED
    BY <2>1, <2>2, TotpKept
<1>4. ASSUME NEW a \in Attempt, ConsumeStep(a), pc'[a] # "finish"
      PROVE  Totp'
  BY <1>2, <1>4, <1>t DEF ConsumeStep, request, world, Accepted, TypeOK
<1>5. ASSUME NEW a \in Attempt, End(a)
      PROVE  Totp'
  <2>1. PICK l \in {"loggedIn", "failed", "gone"} :
          pc' = [pc EXCEPT ![a] = l] /\ (l = "loggedIn" => pc[a] = "endOk")
    BY <1>5 DEF End, Ending
  <2> QED
    BY <2>1, <1>2, <1>5, <1>t DEF End, world, Accepted, TypeOK
<1>6. ASSUME NEW a \in Attempt, CheckTotp(a) \/ Lock(a) \/ Cancel(a)
      PROVE  Totp'
  BY <1>2, <1>6, <1>t DEF CheckTotp, Lock, Cancel, request, world, Accepted, TypeOK
<1>7. ASSUME NEW a \in Attempt, Finish(a)
      PROVE  Totp'
  BY <1>2, <1>7, <1>t DEF Finish, request, world, Accepted, TypeOK, Ending
<1>8. ASSUME NEW a \in Attempt, LoadCodes(a) \/ FindCode(a) \/ RemoveRead(a) \/ RemoveWrite(a)
      PROVE  Totp'
  <2>1. code[a] \in Code
    BY <1>8, <1>t DEF LoadCodes, FindCode, RemoveRead, RemoveWrite, SentKind, OnList, Locked
  <2>2. UNCHANGED <<user, code, epochOf, epoch, lastStep>>
    BY <1>8 DEF LoadCodes, FindCode, RemoveRead, RemoveWrite, request, world
  <2>3. \A b \in Attempt : b # a => pc'[b] = pc[b]
    BY <1>8, <1>t DEF LoadCodes, FindCode, RemoveRead, RemoveWrite, TypeOK
  <2> QED
    BY <2>1, <2>2, <2>3, <1>2
<1>9. ASSUME Restart
      PROVE  Totp'
  <2>1. /\ UNCHANGED <<user, code, epochOf>> /\ epoch' = epoch + 1
        /\ pc' = [a \in Attempt |-> IF pc[a] \in InFlight THEN "gone" ELSE pc[a]]
    BY <1>9 DEF Restart
  <2>2. \A b \in Attempt : Accepted(b)' => Accepted(b)
    BY <2>1 DEF Accepted, InFlight, AtAwait
  <2>3. \A b \in Attempt : epochOf'[b] # epoch'
    BY <2>1, <1>t, ConstantsAssumption DEF PcConsistent, TypeOK
  <2> QED
    BY <2>1, <2>2, <2>3, TotpKept
<1>10. ASSUME Tick \/ UNCHANGED vars
       PROVE  Totp'
  BY <1>10, TotpKept DEF Tick, vars, request, world, Accepted
<1> QED
  BY <1>1, <1>3, <1>4, <1>5, <1>6, <1>7, <1>8, <1>9, <1>10 DEF Next, Step

----------------------------------------------------------------------------
(* Theorems *)

LEMMA Invariance == Spec => []IInv
<1>1. Init => IInv
  BY ShapeInit, CodesInit, TotpInit DEF IInv
<1>2. IInv /\ [Next]_vars => IInv'
  BY ShapeStep, CodesStep, TotpStep DEF IInv
<1> QED
  BY <1>1, <1>2, PTL DEF Spec

\* SecondFactorAttempts stays exact through every interleaving of begin, end,
\* drops, sweeps and restarts: in_flight counts the codes being checked, a
\* user's failures and codes in flight never exceed
\* MAX_SECOND_FACTOR_FAILURES, all attempts of a user share one mutex, and
\* users leave the map as soon as nothing keeps them there.
THEOREM AttemptsStayConsistent == Spec => []AttemptsConsistent
<1>1. IInv => AttemptsConsistent
  BY DEF IInv, Shape, AttemptsConsistent
<1> QED
  BY <1>1, Invariance, PTL

\* A recovery code lets one login in, and no write of the whole list brings a
\* used code back, although the storage only reads and writes whole lists:
\* the mutex lock_recovery_codes takes is enough.
THEOREM RecoveryCodesUsedOnce == Spec => []CodesStayUsed
<1>1. IInv => CodesStayUsed
  BY DEF IInv, Codes
<1> QED
  BY <1>1, Invariance, PTL

\* consume_totp_step_in_process lets a TOTP step in once in a process,
\* whatever the order in which concurrent logins consume their steps.
THEOREM TotpStepUsedOnce == Spec => []TotpStepOnce
<1>1. IInv => TotpStepOnce
  BY DEF IInv, Totp
<1> QED
  BY <1>1, Invariance, PTL

\* The instance's Cardinality is the one of FiniteSets.
LEMMA BudgetCardinality == ASSUME NEW X PROVE Budget!Cardinality(X) = Cardinality(X)
  BY DEF Budget!Cardinality, Cardinality

\* Second factor codes implement the abstract failure budget: begin takes a
\* free token, a wrong code turns it into a spent one in the step that ends
\* the attempt, every other end gives it back, and a spent one only lapses
\* with time or a restart.
THEOREM ImplementsBudget == Spec => BudgetSpec
<1> DEFINE R == [u \in User |-> Running(u)]
           S == [u \in User |-> Counting(u)]
<1>1. Init => Budget!Init
  <2> SUFFICES ASSUME Init PROVE Budget!Init
    OBVIOUS
  <2>1. \A u \in User : Running(u) = {} /\ Counting(u) = {}
    BY DEF Init, Running, Counting, InFlight, AtAwait, Ending
  <2> QED
    BY <2>1 DEF Budget!Init
<1>2. ASSUME Shape, [Next]_vars
      PROVE  [Budget!Next]_(Budget!vars)
  <2>1. ASSUME NEW a \in Attempt, NEW u \in User, NEW c \in Steps \cup Code, Begin(a, u, c)
        PROVE  [Budget!Next]_(Budget!vars)
    <3>1. \A v \in User :
            /\ Counting(v)' = Counting(v)
            /\ Running(v)' = IF v = u /\ ~Refuses(u) THEN Running(v) \cup {a} ELSE Running(v)
      BY <1>2, <2>1, BeginCounts
    <3>2. CASE Refuses(u)
      BY <3>1, <3>2 DEF Budget!vars
    <3>3. CASE ~Refuses(u)
      <4>1. R' = [R EXCEPT ![u] = @ \cup {a}] /\ S' = S
        BY <3>1, <3>3
      <4>2. Cardinality(Running(u)) + Cardinality(Counting(u)) < MaxFailures
        BY <1>2, <3>3, PrunedIsCounting, FiniteCounts, ConstantsAssumption
           DEF Refuses, Shape, InFlightExact
      <4>3. Budget!Cardinality(R[u]) + Budget!Cardinality(S[u]) < MaxFailures
        <5>1. R[u] = Running(u) /\ S[u] = Counting(u)
          OBVIOUS
        <5> HIDE DEF R, S
        <5> QED
          BY <4>2, <5>1, BudgetCardinality
      <4>4. Budget!Begin(a, u)
        BY <4>1, <4>3 DEF Budget!Begin
      <4> QED
        BY <4>4 DEF Budget!Next
    <3> QED
      BY <3>2, <3>3
  <2>2. ASSUME NEW a \in Attempt, End(a)
        PROVE  [Budget!Next]_(Budget!vars)
    <3>0. PICK u \in User : u = user[a]
      BY <1>2, <2>2 DEF End, Shape, PcConsistent, Ending
    <3>p. pc[a] \in InFlight
      BY <2>2 DEF End, InFlight
    <3>1. \A v \in User :
            /\ Running(v)' = IF v = u THEN Running(v) \ {a} ELSE Running(v)
            /\ Counting(v)' = IF v = u /\ pc[a] = "endFailed"
                              THEN Counting(v) \cup {a} ELSE Counting(v)
      BY <1>2, <2>2, <3>0, EndCounts
    <3>2. a \in R[u] /\ R' = [R EXCEPT ![u] = @ \ {a}]
      <4>1. a \in Running(u)
        BY <3>0, <3>p DEF Running
      <4> QED
        BY <4>1, <3>1
    <3>3. CASE pc[a] = "endFailed"
      <4>1. S' = [S EXCEPT ![u] = @ \cup {a}]
        BY <3>1, <3>3
      <4>2. Budget!Fail(a, u)
        BY <3>2, <4>1 DEF Budget!Fail
      <4> QED
        BY <4>2 DEF Budget!Next
    <3>4. CASE pc[a] # "endFailed"
      <4>1. S' = S
        BY <3>1, <3>4
      <4>2. Budget!Return(a, u)
        BY <3>2, <4>1 DEF Budget!Return
      <4> QED
        BY <4>2 DEF Budget!Next
    <3> QED
      BY <3>3, <3>4
  <2>3. ASSUME NEW a \in Attempt, \/ CheckTotp(a) \/ ConsumeStep(a) \/ Finish(a) \/ Lock(a)
                                  \/ LoadCodes(a) \/ FindCode(a) \/ RemoveRead(a)
                                  \/ RemoveWrite(a) \/ Cancel(a)
        PROVE  [Budget!Next]_(Budget!vars)
    <3>1. \A v \in User : Running(v)' = Running(v) /\ Counting(v)' = Counting(v)
      BY <1>2, <2>3, OtherCounts
    <3> QED
      BY <3>1 DEF Budget!vars
  <2>4. ASSUME Tick
        PROVE  [Budget!Next]_(Budget!vars)
    <3>1. \A v \in User : Running(v)' = Running(v) /\ Counting(v)' \subseteq Counting(v)
      BY <1>2, <2>4, TickCounts
    <3>2. \A v \in User : Counting(v)' \in SUBSET Attempt
      BY DEF Counting
    <3>3. Budget!Lapse
      BY <3>1, <3>2 DEF Budget!Lapse
    <3> QED
      BY <3>3 DEF Budget!Next
  <2>5. ASSUME Restart
        PROVE  [Budget!Next]_(Budget!vars)
    <3>1. \A v \in User : Running(v)' = {} /\ Counting(v)' = {}
      BY <1>2, <2>5, RestartCounts
    <3>2. Budget!Restart
      BY <3>1 DEF Budget!Restart
    <3> QED
      BY <3>2 DEF Budget!Next
  <2>6. ASSUME UNCHANGED vars
        PROVE  [Budget!Next]_(Budget!vars)
    BY <2>6 DEF vars, budget, request, world, Running, Counting, Budget!vars
  <2> QED
    BY <1>2, <2>1, <2>2, <2>3, <2>4, <2>5, <2>6 DEF Next, Step
<1>3. IInv => Shape
  BY DEF IInv
<1> QED
  BY <1>1, <1>2, <1>3, Invariance, PTL DEF Spec, BudgetSpec, Budget!Spec

----------------------------------------------------------------------------
(* Enrolling and unenrolling a second factor *)

EnrollOp == {"begin", "confirm", "unenroll", "login"}
EnrollSteps == {"sent", "check", "store", "consume", "respond", "end"}
EnrollAnswers == {"ok", "locked", "refused", "invalid", "used", "dropped", "server error",
            "not initiated"}
NoAnswer == ""
Records == [Factor -> Nat]
ManageRequest ==
  [op : EnrollOp, factor : Factor, user : Person, step : EnrollSteps,
   copy : Records \cup {<<>>}, found : Nat, code : Int, answer : EnrollAnswers \cup {NoAnswer}, alone : BOOLEAN]

Refusals == {"refused", "invalid"}

\* The types, and that the plan's requests are below Unlocked.
EnrollShape ==
  /\ manage \in Seq(ManageRequest)
  /\ plan \in Seq([op : EnrollOp, factor : Factor, user : Person])
  /\ Len(manage) + Len(plan) < Unlocked
  /\ kept \in Records /\ factors \in [Person -> Records]
  /\ accepted \in [Person -> Int] /\ lockedSince \in [Person -> Nat]
  /\ totpNow \in Nat
  /\ \A u \in Person : lockedSince[u] <= Unlocked

\* e began an enrollment, of the factor f, which may be on a session record.
IsBegun(e) == e \in Sent /\ manage[e].op = "begin" /\ manage[e].step # "sent"
BegunFor(e, f) == IsBegun(e) /\ manage[e].factor = f
HoldsBegun(record) == \A f \in Factor : record[f] # Nothing => BegunFor(record[f], f)

HasCopy(q) == q.step \in {"check", "store", "respond"} \/ (q.step = "consume" /\ q.op = "confirm")
Confirms(q) == q.step \in {"check", "store"}

\* A request that goes on to store a factor: its user began it, and was not
\* locked when the request was sent.
ConfirmOK(r) ==
  Confirms(manage[r]) =>
    /\ manage[r].op = "confirm" /\ BegunFor(manage[r].found, manage[r].factor)
    /\ manage[manage[r].found].user = manage[r].user
    /\ r <= lockedSince[manage[r].user]

\* What a request carries from step to step.
CarryOK(r) ==
  LET q == manage[r]
  IN /\ q.found \in {Nothing} \cup Sent
     /\ q.step = "sent" => q.found = Nothing /\ q.code = -1
     /\ HasCopy(q) => q.copy \in Records /\ HoldsBegun(q.copy)
     /\ q.step = "check" \/ (q.step = "respond" /\ q.answer \in Refusals) =>
          q.found # Nothing /\ IsBegun(q.found)
            /\ \A f \in Factor : q.copy[f] # q.found

\* The code of a confirm that was answered is used up.
CodeOK(r) ==
  LET q == manage[r]
  IN /\ q.op = "confirm" /\ q.factor = "passkey" => q.code = -1
     /\ q.step = "consume" \/ (q.step = "store" /\ q.factor = "totp") => q.code >= 0
     /\ q.op = "confirm" /\ q.step \in {"respond", "end"} /\ q.answer = "ok" =>
          q.code = -1 \/ q.code <= accepted[q.user]

\* While a request is alone all others have ended.
AloneOK(r) ==
  manage[r].alone /\ manage[r].step # "end" =>
    \A o \in Sent : o # r => manage[o].step = "end"

\* A confirm that was refused alone.
RefusedAlone(q) ==
  q.step = "end" /\ q.alone /\ q.answer \in Refusals /\ q.found # Nothing

\* The enrollment is on no record any more, nor with a request.
Carries(q, e) == \/ HasCopy(q) /\ \E f \in Factor : q.copy[f] = e
                 \/ Confirms(q) /\ q.found = e
IsGone(e) ==
  /\ IsBegun(e) /\ \A f \in Factor : kept[f] # e
  /\ \A o \in Sent : ~Carries(manage[o], e)
GoneOK(r) == RefusedAlone(manage[r]) => IsGone(manage[r].found)

EnrollInv ==
  /\ EnrollShape /\ OwnFactors /\ HoldsBegun(kept)
  /\ \A r \in Sent : ConfirmOK(r)
  /\ \A r \in Sent : CarryOK(r)
  /\ \A r \in Sent : CodeOK(r)
  /\ \A r \in Sent : AloneOK(r)
  /\ \A r \in Sent : GoneOK(r)

----------------------------------------------------------------------------
(* A step of one request *)

LEMMA RequestReplaced ==
  ASSUME EnrollShape, NEW r \in Sent, NEW new \in ManageRequest,
         manage' = [manage EXCEPT ![r] = new]
  PROVE  /\ manage' \in Seq(ManageRequest) /\ Len(manage') = Len(manage) /\ Sent' = Sent
         /\ manage'[r] = new /\ \A o \in Sent : o # r => manage'[o] = manage[o]
<1>1. manage \in Seq(ManageRequest)
  BY DEF EnrollShape
<1>2. manage' \in Seq(ManageRequest) /\ Len(manage') = Len(manage)
  BY <1>1 DEF Sent
<1>3. Sent' = Sent
  BY <1>2 DEF Sent
<1>4. manage'[r] = new /\ \A o \in Sent : o # r => manage'[o] = manage[o]
  BY <1>1 DEF Sent
<1> QED BY <1>2, <1>3, <1>4

LEMMA RequestTypes ==
  ASSUME EnrollShape, NEW r \in Sent
  PROVE  /\ manage[r] \in ManageRequest /\ r \in Nat /\ r >= 1 /\ r <= Len(manage)
         /\ Len(manage) \in Nat
<1>1. manage \in Seq(ManageRequest)
  BY DEF EnrollShape
<1> QED BY <1>1 DEF Sent

\* The request goes from q to new: who sent what stays, it does not end twice,
\* and it holds no enrollment but its own, one that is kept, or one it held.
RequestGoes(r, q, new) ==
  /\ q = manage[r] /\ q.step # "end" /\ new.step # "sent"
  /\ new.op = q.op /\ new.factor = q.factor /\ new.user = q.user /\ new.alone = q.alone
  /\ HasCopy(new) => \A f \in Factor :
       \/ new.copy[f] = Nothing \/ new.copy[f] = kept[f]
       \/ q.step = "sent" /\ new.copy[f] = r
       \/ HasCopy(q) /\ new.copy[f] = q.copy[f]
  /\ Confirms(new) => \/ Confirms(q) /\ new.found = q.found
                      \/ \E f \in Factor : new.found = kept[f]

LEMMA BegunStays ==
  ASSUME EnrollInv, NEW r \in Sent, NEW new \in ManageRequest, NEW q, RequestGoes(r, q, new),
         manage' = [manage EXCEPT ![r] = new]
  PROVE  /\ \A e : IsBegun(e) => IsBegun(e)'
         /\ \A e, f : BegunFor(e, f) => BegunFor(e, f)'
<1> SUFFICES ASSUME NEW e, IsBegun(e)
             PROVE  IsBegun(e)' /\ \A f : BegunFor(e, f) => BegunFor(e, f)'
  BY Zenon DEF BegunFor
<1>1. e \in Sent /\ manage[e].op = "begin" /\ manage[e].step # "sent"
  BY DEF IsBegun
<1>2. Sent' = Sent /\ manage'[r] = new /\ \A o \in Sent : o # r => manage'[o] = manage[o]
  BY RequestReplaced, Zenon DEF EnrollInv
<1>3. CASE e = r
  BY <1>1, <1>2, <1>3, Zenon DEF IsBegun, BegunFor, RequestGoes
<1>4. CASE e # r
  BY <1>1, <1>2, <1>4, Zenon DEF IsBegun, BegunFor
<1> QED BY <1>3, <1>4

\* What a step of one request may do to the rest: store a factor for its user,
\* use up a step, write back the record it has a copy of.
StoresWell ==
  /\ UNCHANGED <<plan, lockedSince, totpNow>>
  /\ accepted' \in [Person -> Int] /\ \A u \in Person : accepted[u] <= accepted'[u]
  /\ factors' \in [Person -> Records]
  /\ \A u \in Person, f \in Factor : factors'[u][f] # Nothing =>
       factors'[u][f] \in Sent /\ manage[factors'[u][f]].user = u
SavesCopy(q) == kept' = kept \/ (HasCopy(q) /\ kept' = q.copy)

\* What a step of one request has to show of itself; all else follows.
LEMMA RequestStep ==
  ASSUME EnrollInv, NEW r \in Sent, NEW new \in ManageRequest, NEW q, RequestGoes(r, q, new),
         manage' = [manage EXCEPT ![r] = new],
         StoresWell, SavesCopy(q), ConfirmOK(r)', CarryOK(r)', CodeOK(r)', GoneOK(r)'
  PROVE  EnrollInv'
<1>1. /\ Sent' = Sent /\ manage'[r] = new /\ \A o \in Sent : o # r => manage'[o] = manage[o]
      /\ manage' \in Seq(ManageRequest) /\ Len(manage') = Len(manage)
  BY RequestReplaced, Zenon DEF EnrollInv
<1>2. q = manage[r] /\ HasCopy(q) => q.copy \in Records /\ HoldsBegun(q.copy)
  BY Zenon DEF EnrollInv, CarryOK
<1>3. q = manage[r] /\ q \in ManageRequest
  BY RequestTypes, Zenon DEF EnrollInv, RequestGoes
<1>4. kept' \in Records /\ HoldsBegun(kept')
  BY <1>2, <1>3, Zenon DEF EnrollInv, EnrollShape, SavesCopy
<1>5. /\ \A e : IsBegun(e) => IsBegun(e)'
      /\ \A e, f : BegunFor(e, f) => BegunFor(e, f)'
  BY BegunStays
<1>6. HoldsBegun(kept)'
  BY <1>4, <1>5, Zenon DEF HoldsBegun
<1>7. EnrollShape'
  BY <1>1, <1>4 DEF EnrollInv, EnrollShape, StoresWell
<1>8. ASSUME NEW o \in Sent, o # r
      PROVE  ConfirmOK(o)' /\ CarryOK(o)' /\ CodeOK(o)' /\ AloneOK(o)' /\ GoneOK(o)'
  <2>1. PICK p : p = manage[o] /\ p = manage'[o]
    BY <1>1, <1>8, Zenon
  <2>2. p \in ManageRequest /\ ConfirmOK(o) /\ CarryOK(o) /\ CodeOK(o) /\ AloneOK(o) /\ GoneOK(o)
    BY <2>1, RequestTypes, Zenon DEF EnrollInv
  <2>3. \A e \in Sent : manage'[e].user = manage[e].user /\ manage'[e].factor = manage[e].factor
    BY <1>1, <1>3, Zenon DEF RequestGoes
  <2>4. ConfirmOK(o)'
    <3> SUFFICES ASSUME Confirms(p)
                 PROVE  /\ p.op = "confirm" /\ BegunFor(p.found, p.factor)'
                        /\ manage'[p.found].user = p.user /\ o <= lockedSince[p.user]
      BY <2>1, Zenon DEF ConfirmOK, StoresWell
    <3>1. /\ p.op = "confirm" /\ BegunFor(p.found, p.factor)
          /\ manage[p.found].user = p.user /\ o <= lockedSince[p.user]
      BY <2>1, <2>2, Zenon DEF ConfirmOK
    <3>2. p.found \in Sent
      BY <3>1 DEF BegunFor, IsBegun
    <3> QED BY <3>1, <3>2, <2>3, <1>5, Zenon
  <2>5. CarryOK(o)'
    <3>1. /\ p.found \in {Nothing} \cup Sent
          /\ p.step = "sent" => p.found = Nothing /\ p.code = -1
          /\ HasCopy(p) => p.copy \in Records /\ HoldsBegun(p.copy)
          /\ p.step = "check" \/ (p.step = "respond" /\ p.answer \in Refusals) =>
               p.found # Nothing /\ IsBegun(p.found)
                 /\ \A f \in Factor : p.copy[f] # p.found
      BY <2>1, <2>2, Zenon DEF CarryOK
    <3>2. \A k : HoldsBegun(k) => \A f \in Factor : k[f] # Nothing => BegunFor(k[f], f)'
      BY <1>5, Zenon DEF HoldsBegun
    <3>3. HasCopy(p) => HoldsBegun(p.copy)'
      BY <3>1, <3>2, Zenon DEF HoldsBegun
    <3> QED BY <3>1, <3>3, <2>1, <1>1, <1>5, Zenon DEF CarryOK
  <2>6. CodeOK(o)'
    <3>1. p.user \in Person /\ accepted[p.user] <= accepted'[p.user] /\ p.code \in Int
          /\ accepted[p.user] \in Int /\ accepted'[p.user] \in Int
      BY <2>2 DEF ManageRequest, EnrollInv, EnrollShape, StoresWell
    <3>2. p.code <= accepted[p.user] => p.code <= accepted'[p.user]
      BY <3>1
    <3> QED BY <2>1, <2>2, <3>2, Zenon DEF CodeOK
  <2>7. AloneOK(o)'
    BY <2>1, <2>2, <1>1, <1>3, <1>8, Zenon DEF AloneOK, RequestGoes
  <2>8. GoneOK(o)'
    <3>1. PICK e : e = p.found
      BY Zenon
    <3> SUFFICES ASSUME RefusedAlone(p) PROVE IsGone(e)'
      BY <2>1, <3>1, Zenon DEF GoneOK
    <3>2. e # Nothing /\ IsGone(e)
      BY <2>1, <2>2, <3>1, Zenon DEF GoneOK, RefusedAlone
    <3>3. IsBegun(e) /\ \A f \in Factor : kept[f] # e
      BY <3>2 DEF IsGone
    <3>4. ~Carries(q, e) /\ \A i \in Sent : ~Carries(manage[i], e)
      BY <3>2, <1>3, Zenon DEF IsGone
    <3>5. \A f \in Factor : kept'[f] # e
      BY <3>3, <3>4, Zenon DEF Carries, SavesCopy
    <3>6. q.step = "sent" => r # e
      BY <3>3, <1>3, Zenon DEF IsBegun
    <3>7. ~Carries(new, e)
      BY <3>2, <3>3, <3>4, <3>6, Zenon DEF RequestGoes, Carries
    <3>8. \A i \in Sent : ~Carries(manage'[i], e)
      BY <3>4, <3>7, <1>1, Zenon
    <3> QED BY <3>3, <3>5, <3>8, <1>1, <1>5, Zenon DEF IsGone
  <2> QED BY <2>4, <2>5, <2>6, <2>7, <2>8
<1>9. AloneOK(r)'
  BY <1>1, <1>3, Zenon DEF AloneOK, RequestGoes, EnrollInv
<1>10. /\ \A o \in Sent : ConfirmOK(o)' /\ CarryOK(o)' /\ CodeOK(o)' /\ AloneOK(o)' /\ GoneOK(o)'
  BY <1>8, <1>9, Zenon
<1>11. OwnFactors'
  <2>1. \A e \in Sent : manage'[e].user = manage[e].user
    BY <1>1, <1>3, Zenon DEF RequestGoes
  <2>2. \A u \in Person, f \in Factor : factors'[u][f] # Nothing =>
          factors'[u][f] \in Sent /\ manage'[factors'[u][f]].user = u
    BY <2>1, Zenon DEF StoresWell
  <2>3. factors' \in [Person -> [Factor -> {Nothing} \cup Sent]]
    BY <2>2 DEF StoresWell, Records
  <2>4. \A f \in Factor : kept'[f] \in {Nothing} \cup Sent
    BY <1>4, Zenon DEF HoldsBegun, BegunFor, IsBegun
  <2>5. kept' \in [Factor -> {Nothing} \cup Sent]
    BY <1>4, <2>4 DEF Records
  <2>6. \A o \in Sent : manage'[o].found \in {Nothing} \cup Sent
    BY <1>10, <1>1, Zenon DEF CarryOK
  <2> QED BY <2>2, <2>3, <2>5, <2>6, <1>1, Zenon DEF OwnFactors, EnrollTypeOK
<1> QED BY <1>1, <1>6, <1>7, <1>10, <1>11, Zenon DEF EnrollInv

LEMMA StoresNothing ==
  ASSUME EnrollInv, UNCHANGED <<plan, factors, lockedSince, totpNow>>,
         accepted' \in [Person -> Int], \A u \in Person : accepted[u] <= accepted'[u]
  PROVE  StoresWell
<1>1. \A u \in Person, f \in Factor : factors[u][f] \in {Nothing} \cup Sent
  BY DEF EnrollInv, OwnFactors, EnrollTypeOK
<1>2. factors' \in [Person -> Records]
  BY DEF EnrollInv, EnrollShape
<1> QED BY <1>1, <1>2, Zenon DEF EnrollInv, OwnFactors, StoresWell

\* The conditions on the accepted steps, when none is used up.
LEMMA AcceptedStay ==
  ASSUME EnrollInv, accepted' = accepted
  PROVE  accepted' \in [Person -> Int] /\ \A u \in Person : accepted[u] <= accepted'[u]
BY DEF EnrollInv, EnrollShape

\* A request that ends: a refusal, unless it found nothing, ends with its save.
LEMMA EndKeeps ==
  ASSUME EnrollInv, NEW r \in Sent, NEW q, q = manage[r], q.step # "end",
         NEW a \in EnrollAnswers \cup {NoAnswer}, Ends(r, a), StoresWell, SavesCopy(q),
         q.op = "confirm" /\ a = "ok" => q.code = -1 \/ q.code <= accepted'[q.user],
         a \in Refusals /\ q.found # Nothing =>
           q.step = "respond" /\ q.answer = a /\ kept' = q.copy
  PROVE  EnrollInv'
<1>1. PICK new : new = [q EXCEPT !.step = "end", !.answer = a, !.copy = <<>>]
  BY Zenon
<1>2. q \in ManageRequest
  BY RequestTypes DEF EnrollInv
<1>3. /\ new \in ManageRequest /\ new.step = "end" /\ new.answer = a
      /\ new.op = q.op /\ new.factor = q.factor /\ new.user = q.user /\ new.alone = q.alone
      /\ new.found = q.found /\ new.code = q.code
  BY <1>1, <1>2 DEF ManageRequest, EnrollSteps
<1>4. manage' = [manage EXCEPT ![r] = new]
  BY <1>1, Zenon DEF Ends
<1>5. ~HasCopy(new) /\ ~Confirms(new) /\ \A e : ~Carries(new, e)
  BY <1>3 DEF HasCopy, Confirms, Carries
<1>6. RequestGoes(r, q, new)
  BY <1>3, <1>5 DEF RequestGoes
<1>7. Sent' = Sent /\ manage'[r] = new /\ \A o \in Sent : o # r => manage'[o] = manage[o]
  BY <1>3, <1>4, RequestReplaced, Zenon DEF EnrollInv
<1>8. CarryOK(r) /\ CodeOK(r) /\ AloneOK(r)
  BY DEF EnrollInv
<1>9. ConfirmOK(r)'
  BY <1>5, <1>7, Zenon DEF ConfirmOK
<1>10. CarryOK(r)'
  BY <1>3, <1>5, <1>7, <1>8, Zenon DEF CarryOK
<1>11. CodeOK(r)'
  BY <1>3, <1>7, <1>8, Zenon DEF CodeOK
<1>12. GoneOK(r)'
  <2>1. PICK e : e = new.found
    BY Zenon
  <2> SUFFICES ASSUME RefusedAlone(new) PROVE IsGone(e)'
    BY <1>7, <2>1, Zenon DEF GoneOK
  <2>2. q.step = "respond" /\ q.answer \in Refusals /\ kept' = q.copy /\ q.alone
    BY <1>3, Zenon DEF RefusedAlone
  <2>3. IsBegun(e) /\ \A f \in Factor : kept'[f] # e
    BY <2>1, <2>2, <1>3, <1>8, Zenon DEF CarryOK
  <2>4. \A o \in Sent : o # r => manage[o].step = "end"
    BY <2>2, <1>8, Zenon DEF AloneOK
  <2>5. \A o \in Sent : ~Carries(manage'[o], e)
    <3>1. \A p : p.step = "end" => ~Carries(p, e)
      BY DEF Carries, HasCopy, Confirms
    <3> QED BY <3>1, <2>4, <1>5, <1>7, Zenon
  <2>6. IsBegun(e)'
    BY <2>3, <1>3, <1>4, <1>6, BegunStays, Zenon
  <2> QED BY <2>3, <2>5, <2>6, <1>7, Zenon DEF IsGone
<1> QED BY <1>3, <1>4, <1>6, <1>9, <1>10, <1>11, <1>12, RequestStep

\* A handler that is done: its copy of the record holds what was on it, or the
\* enrollment the request began.
LEMMA RespondKeeps ==
  ASSUME EnrollInv, NEW r \in Sent, NEW q, q = manage[r], q.step # "end",
         NEW copy \in Records, NEW found \in {Nothing} \cup Sent, NEW a \in EnrollAnswers,
         Responds(r, copy, found, a), StoresWell, kept' = kept,
         \A f \in Factor :
           \/ copy[f] = Nothing \/ copy[f] = kept[f]
           \/ q.step = "sent" /\ copy[f] = r /\ q.op = "begin" /\ q.factor = f
           \/ HasCopy(q) /\ copy[f] = q.copy[f],
         q.op = "confirm" /\ a = "ok" => q.code = -1 \/ q.code <= accepted'[q.user],
         a \in Refusals => IsBegun(found) /\ \A f \in Factor : copy[f] # found
  PROVE  EnrollInv'
<1>1. PICK new : new = [q EXCEPT !.step = "respond", !.copy = copy, !.found = found, !.answer = a]
  BY Zenon
<1>2. q \in ManageRequest /\ r \in Nat /\ \A i \in Sent : i \in Nat /\ i # Nothing
  BY RequestTypes DEF EnrollInv, Nothing
<1>3. /\ new \in ManageRequest /\ new.step = "respond" /\ new.answer = a /\ new.copy = copy
      /\ new.op = q.op /\ new.factor = q.factor /\ new.user = q.user /\ new.alone = q.alone
      /\ new.found = found /\ new.code = q.code
  <2>1. found \in Nat
    BY <1>2 DEF Nothing
  <2>2. copy \in Records \cup {<<>>}
    BY Zenon
  <2> QED BY <1>1, <1>2, <2>1, <2>2 DEF ManageRequest, EnrollSteps
<1>4. manage' = [manage EXCEPT ![r] = new]
  BY <1>1, Zenon DEF Responds
<1>5. HasCopy(new) /\ ~Confirms(new) /\ ~RefusedAlone(new)
  BY <1>3 DEF HasCopy, Confirms, RefusedAlone
<1>6. RequestGoes(r, q, new)
  BY <1>3, <1>5, Zenon DEF RequestGoes
<1>7. Sent' = Sent /\ manage'[r] = new
  BY <1>3, <1>4, RequestReplaced, Zenon DEF EnrollInv
<1>8. CarryOK(r) /\ CodeOK(r) /\ HoldsBegun(kept)
  BY DEF EnrollInv
<1>9. HoldsBegun(copy)'
  <2> SUFFICES ASSUME NEW f \in Factor, copy[f] # Nothing PROVE BegunFor(copy[f], f)'
    BY Zenon DEF HoldsBegun
  <2>1. \A e : BegunFor(e, f) => BegunFor(e, f)'
    BY <1>3, <1>4, <1>6, BegunStays, Zenon
  <2>2. CASE copy[f] = kept[f] \/ (HasCopy(q) /\ copy[f] = q.copy[f])
    BY <2>1, <2>2, <1>8, Zenon DEF HoldsBegun, CarryOK
  <2>3. CASE copy[f] = r /\ q.op = "begin" /\ q.factor = f
    BY <2>3, <1>3, <1>7 DEF BegunFor, IsBegun
  <2> QED BY <2>2, <2>3
<1>10. ConfirmOK(r)' /\ GoneOK(r)'
  BY <1>5, <1>7, Zenon DEF ConfirmOK, GoneOK
<1>11. CarryOK(r)'
  <2>1. a \in Refusals => IsBegun(found)' /\ found # Nothing
    BY <1>2, <1>3, <1>4, <1>6, BegunStays, Zenon DEF IsBegun
  <2>2. new.step # "sent" /\ new.step # "check"
    BY <1>3
  <2> QED BY <2>1, <2>2, <1>3, <1>5, <1>7, <1>9, Zenon DEF CarryOK
<1>12. CodeOK(r)'
  <2>1. new.step # "consume" /\ new.step # "store"
    BY <1>3
  <2> QED BY <2>1, <1>3, <1>7, <1>8, Zenon DEF CodeOK
<1>13. SavesCopy(q)
  BY DEF SavesCopy
<1> QED BY <1>3, <1>4, <1>6, <1>10, <1>11, <1>12, <1>13, RequestStep

\* A handler that goes on.
LEMMA ProceedKeeps ==
  ASSUME EnrollInv, NEW r \in Sent, NEW q, NEW new \in ManageRequest, RequestGoes(r, q, new),
         manage' = [manage EXCEPT ![r] = new], StoresWell, kept' = kept,
         new.step \in {"check", "store", "consume"},
         Confirms(new) => /\ new.op = "confirm" /\ BegunFor(new.found, new.factor)
                          /\ manage[new.found].user = new.user
                          /\ r <= lockedSince[new.user],
         new.found \in {Nothing} \cup Sent,
         HasCopy(new) => new.copy \in Records /\ HoldsBegun(new.copy),
         new.step = "check" => new.found # Nothing /\ \A f \in Factor : new.copy[f] # new.found,
         new.op = "confirm" /\ new.factor = "passkey" => new.code = -1,
         new.step = "consume" \/ (new.step = "store" /\ new.factor = "totp") => new.code >= 0
  PROVE  EnrollInv'
<1>1. Sent' = Sent /\ manage'[r] = new /\ \A o \in Sent : o # r => manage'[o] = manage[o]
  BY RequestReplaced, Zenon DEF EnrollInv
<1>2. new.step # "end" /\ new.step # "sent" /\ new.step # "respond"
  OBVIOUS
<1>3. /\ \A e : IsBegun(e) => IsBegun(e)'
      /\ \A e, f : BegunFor(e, f) => BegunFor(e, f)'
  BY BegunStays
<1>4. ConfirmOK(r)'
  <2>1. \A e \in Sent : manage'[e].user = manage[e].user
    BY <1>1, Zenon DEF RequestGoes
  <2>2. Confirms(new) => new.found \in Sent
    BY Zenon DEF BegunFor, IsBegun
  <2>3. lockedSince' = lockedSince
    BY DEF StoresWell
  <2> QED BY <2>1, <2>2, <2>3, <1>1, <1>3, Zenon DEF ConfirmOK
<1>5. CarryOK(r)'
  <2>1. HasCopy(new) => HoldsBegun(new.copy)'
    BY <1>3, Zenon DEF HoldsBegun
  <2>2. new.step = "check" => IsBegun(new.found)'
    BY <1>3, Zenon DEF Confirms, BegunFor
  <2> QED BY <2>1, <2>2, <1>1, <1>2, Zenon DEF CarryOK
<1>6. CodeOK(r)'
  BY <1>1, <1>2, Zenon DEF CodeOK
<1>7. GoneOK(r)'
  BY <1>1, <1>2, Zenon DEF GoneOK, RefusedAlone
<1>8. SavesCopy(q)
  BY DEF SavesCopy
<1> QED BY <1>4, <1>5, <1>6, <1>7, <1>8, RequestStep

----------------------------------------------------------------------------
(* The actions *)

StepSound == LockedFactorsStay /\ RefusedStartsAgain /\ CodeNotReplayed

LEMMA QuietSound ==
  ASSUME factors' = factors, codeLogins' = codeLogins PROVE StepSound
BY Zenon DEF StepSound, LockedFactorsStay, RefusedStartsAgain, CodeNotReplayed

\* A request that ends and changes nothing but itself: no refusal of something
\* it found, and no confirm that went through.
LEMMA EndsQuietly ==
  ASSUME EnrollInv, NEW r \in Sent, manage[r].step # "end", NEW a \in EnrollAnswers, Ends(r, a),
         UNCHANGED <<plan, kept, factors, accepted, lockedSince, totpNow, codeLogins>>,
         a # "ok", a \in Refusals => manage[r].found = Nothing
  PROVE  EnrollInv' /\ StepSound
<1>1. StoresWell
  BY StoresNothing, AcceptedStay
<1>2. PICK q : q = manage[r]
  BY Zenon
<1>3. SavesCopy(q)
  BY DEF SavesCopy
<1>4. EnrollInv'
  BY <1>1, <1>2, <1>3, EndKeeps, Zenon
<1> QED BY <1>4, QuietSound, Zenon

LEMMA BeginEnrollmentKeeps ==
  ASSUME EnrollInv, NEW r \in Sent, BeginEnrollment(r)
  PROVE  EnrollInv' /\ StepSound
<1>1. /\ manage[r].step = "sent" /\ manage[r].op = "begin"
      /\ UNCHANGED <<plan, kept, factors, accepted, lockedSince, totpNow, codeLogins>>
  BY DEF BeginEnrollment
<1>2. CASE CheckUsernameLocked(r)
  <2>1. PICK a \in EnrollAnswers : a = "locked" /\ a # "ok" /\ a \notin Refusals
    BY DEF Refusals, EnrollAnswers
  <2>2. Ends(r, a)
    BY <2>1, <1>2, Zenon DEF BeginEnrollment
  <2>3. manage[r].step # "end"
    BY <1>1
  <2> QED BY <1>1, <2>1, <2>2, <2>3, EndsQuietly, Zenon
<1>3. CASE ~CheckUsernameLocked(r)
  <2>1. PICK q, copy : q = manage[r] /\ copy = [kept EXCEPT ![q.factor] = r]
    BY Zenon
  <2>2. PICK a \in EnrollAnswers, found \in {Nothing} \cup Sent :
          a = "ok" /\ a \notin Refusals /\ found = Nothing /\ Responds(r, copy, found, a)
    <3>1. PICK a \in EnrollAnswers : a = "ok" /\ a \notin Refusals
      BY DEF Refusals, EnrollAnswers
    <3> QED BY <1>3, <2>1, <3>1, Zenon DEF BeginEnrollment
  <2>3. q \in ManageRequest /\ r \in Nat
    BY <2>1, RequestTypes DEF EnrollInv
  <2>4. copy \in Records /\ \A f \in Factor : copy[f] = IF f = q.factor THEN r ELSE kept[f]
    BY <2>1, <2>3 DEF Records, EnrollInv, EnrollShape
  <2>5. StoresWell
    BY <1>1, StoresNothing, AcceptedStay
  <2>6. \A f \in Factor :
          \/ copy[f] = Nothing \/ copy[f] = kept[f]
          \/ q.step = "sent" /\ copy[f] = r /\ q.op = "begin" /\ q.factor = f
          \/ HasCopy(q) /\ copy[f] = q.copy[f]
    BY <1>1, <2>1, <2>4, Zenon
  <2>7. EnrollInv'
    <3>1. q.op # "confirm" /\ q.step # "end"
      BY <1>1, <2>1
    <3>2. kept' = kept
      BY <1>1
    <3>3. /\ q.op = "confirm" /\ a = "ok" => q.code = -1 \/ q.code <= accepted'[q.user]
          /\ a \in Refusals => IsBegun(found) /\ \A f \in Factor : copy[f] # found
      BY <2>2, <3>1, Zenon
    <3>4. /\ q = manage[r] /\ q.step # "end" /\ copy \in Records
          /\ Responds(r, copy, found, a)
      BY <2>1, <2>2, <2>4, <3>1, Zenon
    <3> QED BY <2>5, <2>6, <3>2, <3>3, <3>4, RespondKeeps
  <2> QED BY <1>1, <2>7, QuietSound, Zenon
<1> QED BY <1>2, <1>3

\* retrieve_totp_enrollment, retrieve_passkey_enrollment: what is found on the
\* session is taken off the copy, and only goes on for the user who began it.
LEMMA RetrieveKeeps ==
  ASSUME EnrollInv, NEW r \in Sent, RetrieveEnrollment(r)
  PROVE  EnrollInv' /\ StepSound
<1>1. /\ manage[r].step = "sent" /\ manage[r].op = "confirm"
      /\ UNCHANGED <<plan, kept, factors, accepted, lockedSince, totpNow, codeLogins>>
  BY DEF RetrieveEnrollment
<1>2. CASE CheckUsernameLocked(r)
  <2>1. PICK a \in EnrollAnswers : a = "locked" /\ a # "ok" /\ a \notin Refusals
    BY DEF Refusals, EnrollAnswers
  <2>2. Ends(r, a)
    BY <2>1, <1>2, Zenon DEF RetrieveEnrollment
  <2>3. manage[r].step # "end"
    BY <1>1
  <2> QED BY <1>1, <2>1, <2>2, <2>3, EndsQuietly, Zenon
<1>3. CASE ~CheckUsernameLocked(r) /\ kept[manage[r].factor] = Nothing
  <2>1. PICK a \in EnrollAnswers : a = "not initiated" /\ a # "ok" /\ a \notin Refusals
    BY DEF Refusals, EnrollAnswers
  <2>2. Ends(r, a)
    BY <2>1, <1>3, Zenon DEF RetrieveEnrollment
  <2>3. manage[r].step # "end"
    BY <1>1
  <2> QED BY <1>1, <2>1, <2>2, <2>3, EndsQuietly, Zenon
<1>4. CASE ~CheckUsernameLocked(r) /\ kept[manage[r].factor] # Nothing
  <2>1. PICK q, found, rest :
          /\ q = manage[r] /\ found = kept[q.factor]
          /\ rest = [kept EXCEPT ![q.factor] = LeftOnSession(found, q.user)]
    BY Zenon
  <2>2. q \in ManageRequest /\ r \in Nat /\ r <= Len(manage) /\ Len(manage) \in Nat
    BY <2>1, RequestTypes DEF EnrollInv
  <2>3. rest \in Records /\ \A f \in Factor : rest[f] = IF f = q.factor THEN Nothing ELSE kept[f]
    BY <2>1, <2>2 DEF Records, EnrollInv, EnrollShape, LeftOnSession, Nothing
  <2>4. q.factor \in Factor /\ found # Nothing /\ BegunFor(found, q.factor)
    BY <1>4, <2>1, <2>2 DEF EnrollInv, HoldsBegun, ManageRequest
  <2>5. IsBegun(found) /\ found \in Sent /\ \A f \in Factor : rest[f] # found
    <3>1. IsBegun(found) /\ found \in Sent /\ manage[found].factor = q.factor
      BY <2>4 DEF BegunFor, IsBegun
    <3>2. \A f \in Factor : kept[f] = found => manage[found].factor = f
      BY <2>4, Zenon DEF EnrollInv, HoldsBegun, BegunFor
    <3> QED BY <3>1, <3>2, <2>3, <2>4, Zenon
  <2>6. StoresWell
    BY <1>1, StoresNothing, AcceptedStay
  <2>7. CASE CheckEnrollmentUser(manage[found].user, q.user)
    <3>1. PICK new : new = [q EXCEPT !.step = "check", !.copy = rest, !.found = found]
      BY Zenon
    <3>2. manage' = [manage EXCEPT ![r] = new]
      BY <1>4, <2>1, <2>7, <3>1, Zenon DEF RetrieveEnrollment
    <3>3. rest \in Records \cup {<<>>} /\ found \in Nat
      BY <2>1, <2>2, <2>3, <2>4 DEF EnrollInv, EnrollShape, Records
    <3>4. /\ new \in ManageRequest /\ new.step = "check" /\ new.copy = rest /\ new.found = found
          /\ new.op = q.op /\ new.factor = q.factor /\ new.user = q.user /\ new.alone = q.alone
          /\ new.code = q.code
      BY <2>2, <3>1, <3>3 DEF ManageRequest, EnrollSteps
    <3>5. RequestGoes(r, q, new)
      <4>1. q.step # "end" /\ new.step # "sent" /\ HasCopy(new) /\ Confirms(new)
        BY <1>1, <2>1, <3>4 DEF HasCopy, Confirms
      <4>2. \A f \in Factor : new.copy[f] = Nothing \/ new.copy[f] = kept[f]
        BY <2>3, <3>4, Zenon
      <4>3. \E f \in Factor : new.found = kept[f]
        BY <2>1, <2>4, <3>4, Zenon
      <4> QED BY <2>1, <3>4, <4>1, <4>2, <4>3, Zenon DEF RequestGoes
    <3>6. r <= lockedSince[q.user]
      BY <1>4, <2>1, <2>2 DEF CheckUsernameLocked, EnrollInv, EnrollShape, Unlocked, ManageRequest
    <3>7. HoldsBegun(rest)
      BY <2>3, Zenon DEF HoldsBegun, EnrollInv
    <3>8. q.code = -1
      BY <1>1, <2>1 DEF EnrollInv, CarryOK
    <3>9. manage[found].user = q.user /\ q.op = "confirm"
      BY <1>1, <2>1, <2>7 DEF CheckEnrollmentUser
    <3>10. new.step # "consume" /\ new.step # "store" /\ new.step \in {"check", "store", "consume"}
           /\ new.found \in {Nothing} \cup Sent
      BY <3>4, <2>5
    <3>11. EnrollInv'
      BY <1>1, <2>3, <2>4, <2>5, <2>6, <3>2, <3>4, <3>5, <3>6, <3>7, <3>8, <3>9, <3>10,
         ProceedKeeps, Zenon
    <3> QED BY <1>1, <3>11, QuietSound, Zenon
  <2>8. CASE ~CheckEnrollmentUser(manage[found].user, q.user)
    <3>1. PICK a \in EnrollAnswers : a = "refused" /\ a # "ok"
      BY DEF EnrollAnswers
    <3>2. q.step # "end" /\ found \in {Nothing} \cup Sent /\ kept' = kept
      BY <1>1, <2>1, <2>5
    <3>4. Responds(r, rest, found, a)
      BY <1>4, <2>1, <2>8, <3>1, Zenon DEF RetrieveEnrollment
    <3>5. /\ q.op = "confirm" /\ a = "ok" => q.code = -1 \/ q.code <= accepted'[q.user]
          /\ a \in Refusals => IsBegun(found) /\ \A f \in Factor : rest[f] # found
      BY <2>5, <3>1, Zenon
    <3>6. \A f \in Factor :
            \/ rest[f] = Nothing \/ rest[f] = kept[f]
            \/ q.step = "sent" /\ rest[f] = r /\ q.op = "begin" /\ q.factor = f
            \/ HasCopy(q) /\ rest[f] = q.copy[f]
      BY <2>3, Zenon
    <3>7. q = manage[r] /\ rest \in Records
      BY <2>1, <2>3, Zenon
    <3>8. EnrollInv'
      BY <2>6, <3>2, <3>4, <3>5, <3>6, <3>7, RespondKeeps
    <3> QED BY <1>1, <3>8, QuietSound, Zenon
  <2> QED BY <2>7, <2>8
<1> QED BY <1>2, <1>3, <1>4

\* A confirm that goes on to store what it found, with its code if it has one.
LEMMA GoesToStore ==
  ASSUME EnrollInv, NEW r \in Sent, NEW q, q = manage[r], q.step = "check",
         NEW totp \in Int, q.factor = "passkey" => totp = -1, q.factor = "totp" => totp >= 0,
         manage' = [manage EXCEPT ![r] = [@ EXCEPT !.step = "store", !.code = totp]],
         UNCHANGED <<plan, kept, factors, accepted, lockedSince, totpNow, codeLogins>>
  PROVE  EnrollInv' /\ StepSound
<1>1. PICK new : new = [q EXCEPT !.step = "store", !.code = totp]
  BY Zenon
<1>2. q \in ManageRequest
  BY RequestTypes DEF EnrollInv
<1>3. /\ new \in ManageRequest /\ new.step = "store" /\ new.copy = q.copy /\ new.found = q.found
      /\ new.op = q.op /\ new.factor = q.factor /\ new.user = q.user /\ new.alone = q.alone
      /\ new.code = totp
  BY <1>1, <1>2 DEF ManageRequest, EnrollSteps
<1>4. manage' = [manage EXCEPT ![r] = new]
  BY <1>1, Zenon
<1>5. HasCopy(q) /\ HasCopy(new) /\ Confirms(q) /\ Confirms(new)
      /\ q.step # "end" /\ new.step # "sent" /\ new.step # "check" /\ new.step # "consume"
  BY <1>3 DEF HasCopy, Confirms
<1>6. RequestGoes(r, q, new)
  BY <1>3, <1>5, Zenon DEF RequestGoes
<1>7. ConfirmOK(r) /\ CarryOK(r)
  BY DEF EnrollInv
<1>8. /\ new.op = "confirm" /\ BegunFor(new.found, new.factor)
      /\ manage[new.found].user = new.user /\ r <= lockedSince[new.user]
  BY <1>3, <1>5, <1>7, Zenon DEF ConfirmOK
<1>9. /\ new.copy \in Records /\ HoldsBegun(new.copy)
      /\ new.found \in {Nothing} \cup Sent
  BY <1>3, <1>5, <1>7, Zenon DEF CarryOK
<1>10. StoresWell
  BY StoresNothing, AcceptedStay
<1>11. /\ new.op = "confirm" /\ new.factor = "passkey" => new.code = -1
       /\ new.step = "store" /\ new.factor = "totp" => new.code >= 0
  BY <1>3
<1>12. kept' = kept /\ new.step \in {"check", "store", "consume"}
  BY <1>3
<1>13. EnrollInv'
  BY <1>3, <1>4, <1>5, <1>6, <1>8, <1>9, <1>10, <1>11, <1>12, ProceedKeeps
<1> QED BY <1>13, QuietSound, Zenon

LEMMA PasskeyKeeps ==
  ASSUME EnrollInv, NEW r \in Sent, FinishPasskeyRegistration(r)
  PROVE  EnrollInv' /\ StepSound
<1>1. /\ manage[r].step = "check" /\ manage[r].factor = "passkey"
      /\ UNCHANGED <<plan, kept, factors, accepted, lockedSince, totpNow, codeLogins>>
  BY DEF FinishPasskeyRegistration
<1>2. CASE Ends(r, "server error")
  <2>1. PICK a \in EnrollAnswers : a = "server error" /\ a # "ok" /\ a \notin Refusals
    BY DEF Refusals, EnrollAnswers
  <2>2. Ends(r, a)
    BY <1>2, <2>1, Zenon
  <2>3. manage[r].step # "end"
    BY <1>1
  <2> QED BY <1>1, <2>1, <2>2, <2>3, EndsQuietly, Zenon
<1>3. CASE Goes(r, "store")
  <2>1. PICK q, totp : q = manage[r] /\ totp = q.code
    BY Zenon
  <2>2. q \in ManageRequest /\ q.code = -1
    <3>1. ConfirmOK(r) /\ CodeOK(r)
      BY DEF EnrollInv
    <3>2. q.op = "confirm"
      BY <1>1, <2>1, <3>1 DEF ConfirmOK, Confirms
    <3> QED BY <1>1, <2>1, <3>1, <3>2, RequestTypes DEF EnrollInv, CodeOK
  <2>3. [q EXCEPT !.step = "store"] = [q EXCEPT !.step = "store", !.code = totp]
    BY <2>1, <2>2 DEF ManageRequest
  <2>4. manage' = [manage EXCEPT ![r] = [@ EXCEPT !.step = "store", !.code = totp]]
    BY <1>3, <2>1, <2>3, Zenon DEF Goes
  <2>5. totp \in Int /\ totp = -1 /\ q.factor # "totp"
    BY <1>1, <2>1, <2>2
  <2> QED BY <1>1, <2>1, <2>4, <2>5, GoesToStore, Zenon
<1> QED BY <1>2, <1>3, Zenon DEF FinishPasskeyRegistration

LEMMA CheckCodeKeeps ==
  ASSUME EnrollInv, NEW r \in Sent, CheckEnrollmentCode(r)
  PROVE  EnrollInv' /\ StepSound
<1>1. /\ manage[r].step = "check" /\ manage[r].factor = "totp"
      /\ UNCHANGED <<plan, kept, factors, accepted, lockedSince, totpNow, codeLogins>>
  BY DEF CheckEnrollmentCode
<1>2. PICK q : q = manage[r]
  BY Zenon
<1>3. CarryOK(r) /\ q.step = "check" /\ HasCopy(q)
  BY <1>1, <1>2 DEF EnrollInv, HasCopy
<1>4. /\ q.copy \in Records /\ q.found \in {Nothing} \cup Sent /\ IsBegun(q.found)
      /\ \A f \in Factor : q.copy[f] # q.found
  BY <1>2, <1>3, Zenon DEF CarryOK
<1>5. CASE Responds(r, q.copy, q.found, "invalid")
  <2>1. PICK a \in EnrollAnswers : a = "invalid" /\ a # "ok"
    BY DEF EnrollAnswers
  <2>2. PICK copy \in Records, found \in {Nothing} \cup Sent : copy = q.copy /\ found = q.found
    BY <1>4, Zenon
  <2>3. Responds(r, copy, found, a)
    BY <1>5, <2>1, <2>2, Zenon
  <2>4. /\ q.op = "confirm" /\ a = "ok" => q.code = -1 \/ q.code <= accepted'[q.user]
        /\ a \in Refusals => IsBegun(found) /\ \A f \in Factor : copy[f] # found
    BY <1>4, <2>1, <2>2, Zenon
  <2>5. \A f \in Factor :
          \/ copy[f] = Nothing \/ copy[f] = kept[f]
          \/ q.step = "sent" /\ copy[f] = r /\ q.op = "begin" /\ q.factor = f
          \/ HasCopy(q) /\ copy[f] = q.copy[f]
    BY <1>3, <2>2, Zenon
  <2>6. StoresWell /\ kept' = kept /\ q.step # "end"
    BY <1>1, <1>2, StoresNothing, AcceptedStay
  <2>7. EnrollInv'
    BY <1>2, <2>3, <2>4, <2>5, <2>6, RespondKeeps
  <2> QED BY <1>1, <2>7, QuietSound, Zenon
<1>6. CASE \E s \in ValidSteps :
             manage' = [manage EXCEPT ![r] = [@ EXCEPT !.step = "store", !.code = s]]
  <2>1. PICK s \in ValidSteps :
          manage' = [manage EXCEPT ![r] = [@ EXCEPT !.step = "store", !.code = s]]
    BY <1>6, Zenon
  <2>2. s \in Int /\ s >= 0 /\ q.factor # "passkey"
    BY <1>1, <1>2 DEF ValidSteps
  <2> QED BY <1>1, <1>2, <1>3, <2>1, <2>2, GoesToStore, Zenon
<1> QED BY <1>2, <1>5, <1>6, Zenon DEF CheckEnrollmentCode

\* What is stored is the user's own enrollment, by a request sent before the
\* user was locked, and none that was refused.
LEMMA StoredIsSound ==
  ASSUME EnrollInv, NEW r \in Sent, NEW q, q = manage[r], q.step = "store",
         factors' = [factors EXCEPT ![q.user][q.factor] = q.found],
         accepted' = accepted, codeLogins' = codeLogins,
         UNCHANGED <<plan, lockedSince, totpNow>>
  PROVE  StoresWell /\ StepSound
<1>1. q \in ManageRequest /\ ConfirmOK(r) /\ CarryOK(r) /\ Confirms(q) /\ r \in Active
  BY RequestTypes DEF EnrollInv, Confirms, Active
<1>2. /\ q.user \in Person /\ q.factor \in Factor /\ q.found \in Nat
  BY <1>1 DEF ManageRequest
<1>3. /\ q.found \in Sent /\ manage[q.found].user = q.user /\ r <= lockedSince[q.user]
  BY <1>1, Zenon DEF ConfirmOK, BegunFor, IsBegun
<1>4. /\ factors' \in [Person -> Records]
      /\ \A u \in Person, f \in Factor :
           \/ u = q.user /\ factors'[u][f] = q.found
           \/ factors'[u][f] = factors[u][f]
      /\ \A u \in Person : u # q.user => factors'[u] = factors[u]
  BY <1>2 DEF EnrollInv, EnrollShape, Records
<1>5. StoresWell
  <2>1. \A u \in Person, f \in Factor : factors[u][f] # Nothing =>
          factors[u][f] \in Sent /\ manage[factors[u][f]].user = u
    <3>1. \A u \in Person, f \in Factor : factors[u][f] \in {Nothing} \cup Sent
      BY DEF EnrollInv, OwnFactors, EnrollTypeOK
    <3> QED BY <3>1, Zenon DEF EnrollInv, OwnFactors
  <2>2. \A u \in Person, f \in Factor : factors'[u][f] # Nothing =>
          factors'[u][f] \in Sent /\ manage[factors'[u][f]].user = u
    <3> SUFFICES ASSUME NEW u \in Person, NEW f \in Factor, factors'[u][f] # Nothing
                 PROVE  factors'[u][f] \in Sent /\ manage[factors'[u][f]].user = u
      BY Zenon
    <3>1. CASE u = q.user /\ factors'[u][f] = q.found
      BY <3>1, <1>3, Zenon
    <3>2. CASE factors'[u][f] = factors[u][f]
      BY <3>2, <2>1, Zenon
    <3> QED BY <3>1, <3>2, <1>4, Zenon
  <2> QED BY <2>2, <1>4, AcceptedStay, Zenon DEF StoresWell
<1>6. LockedFactorsStay
  BY <1>1, <1>3, <1>4, Zenon DEF LockedFactorsStay
<1>7. RefusedStartsAgain
  <2> SUFFICES ASSUME NEW u \in Person, NEW f \in Factor,
                      factors'[u][f] \notin {factors[u][f], Nothing},
                      NEW o \in Sent, manage[o].step = "end", manage[o].alone,
                      manage[o].answer \in Refusals, manage[o].found = factors'[u][f]
               PROVE  FALSE
    BY Zenon DEF RefusedStartsAgain, Refusals
  <2>1. factors'[u][f] = q.found /\ q.found # Nothing
    BY <1>4, Zenon
  <2>2. GoneOK(o) /\ RefusedAlone(manage[o])
    BY <2>1, Zenon DEF EnrollInv, RefusedAlone
  <2>3. ~Carries(q, q.found)
    BY <2>1, <2>2, Zenon DEF GoneOK, IsGone
  <2> QED BY <2>3, <1>1, Zenon DEF Carries
<1>8. CodeNotReplayed
  BY Zenon DEF CodeNotReplayed
<1> QED BY <1>5, <1>6, <1>7, <1>8 DEF StepSound

LEMMA StoreKeeps ==
  ASSUME EnrollInv, NEW r \in Sent, StoreFactor(r)
  PROVE  EnrollInv' /\ StepSound
<1>1. PICK q : q = manage[r]
  BY Zenon
<1>2. /\ q.step = "store"
      /\ UNCHANGED <<plan, kept, accepted, lockedSince, totpNow, codeLogins>>
  BY <1>1 DEF StoreFactor
<1>3. q \in ManageRequest /\ ConfirmOK(r) /\ CarryOK(r) /\ CodeOK(r) /\ HasCopy(q) /\ Confirms(q)
  BY <1>1, <1>2, RequestTypes DEF EnrollInv, Confirms, HasCopy
<1>4. /\ q.op = "confirm" /\ q.copy \in Records /\ HoldsBegun(q.copy)
      /\ q.found \in {Nothing} \cup Sent
  BY <1>1, <1>3, Zenon DEF ConfirmOK, CarryOK
<1>5. CASE Ends(r, "server error") /\ UNCHANGED factors
  <2>1. PICK a \in EnrollAnswers : a = "server error" /\ a # "ok" /\ a \notin Refusals
    BY DEF Refusals, EnrollAnswers
  <2>2. Ends(r, a)
    BY <1>5, <2>1, Zenon
  <2>3. manage[r].step # "end"
       /\ UNCHANGED <<plan, kept, factors, accepted, lockedSince, totpNow, codeLogins>>
    BY <1>1, <1>2, <1>5
  <2> QED BY <2>1, <2>2, <2>3, EndsQuietly, Zenon
<1>6. ASSUME factors' = [factors EXCEPT ![q.user][q.factor] = q.found]
      PROVE  StoresWell /\ StepSound
  BY <1>1, <1>2, <1>6, StoredIsSound, Zenon
<1>7. CASE factors' = [factors EXCEPT ![q.user][q.factor] = q.found]
           /\ q.factor = "totp" /\ Goes(r, "consume")
  <2>1. PICK new : new = [q EXCEPT !.step = "consume"]
    BY Zenon
  <2>2. /\ new \in ManageRequest /\ new.step = "consume" /\ new.copy = q.copy
        /\ new.found = q.found /\ new.op = q.op /\ new.factor = q.factor
        /\ new.user = q.user /\ new.alone = q.alone /\ new.code = q.code
    BY <1>3, <2>1 DEF ManageRequest, EnrollSteps
  <2>3. manage' = [manage EXCEPT ![r] = new]
    BY <1>1, <1>7, <2>1, Zenon DEF Goes
  <2>4. HasCopy(new) /\ ~Confirms(new) /\ new.step # "sent" /\ q.step # "end"
    BY <1>2, <1>4, <2>2 DEF HasCopy, Confirms
  <2>5. RequestGoes(r, q, new)
    BY <1>1, <1>3, <2>2, <2>4, Zenon DEF RequestGoes
  <2>6. new.code >= 0 /\ new.factor # "passkey"
    BY <1>1, <1>2, <1>3, <1>7, <2>2 DEF CodeOK
  <2>7. new.step # "check" /\ new.step \in {"check", "store", "consume"} /\ kept' = kept
    BY <1>2, <2>2
  <2>8. EnrollInv'
    BY <1>4, <1>6, <1>7, <2>2, <2>3, <2>4, <2>5, <2>6, <2>7, ProceedKeeps
  <2> QED BY <1>6, <1>7, <2>8
<1>8. CASE factors' = [factors EXCEPT ![q.user][q.factor] = q.found]
           /\ q.factor # "totp" /\ Responds(r, q.copy, q.found, "ok")
  <2>1. PICK a \in EnrollAnswers : a = "ok" /\ a \notin Refusals
    BY DEF Refusals, EnrollAnswers
  <2>2. PICK copy \in Records, found \in {Nothing} \cup Sent : copy = q.copy /\ found = q.found
    BY <1>4, Zenon
  <2>3. Responds(r, copy, found, a)
    BY <1>8, <2>1, <2>2, Zenon
  <2>4. q.code = -1
    BY <1>1, <1>3, <1>4, <1>8 DEF CodeOK, ManageRequest, Factor
  <2>5. \A f \in Factor :
          \/ copy[f] = Nothing \/ copy[f] = kept[f]
          \/ q.step = "sent" /\ copy[f] = r /\ q.op = "begin" /\ q.factor = f
          \/ HasCopy(q) /\ copy[f] = q.copy[f]
    BY <1>3, <2>2, Zenon
  <2>6. kept' = kept /\ q.step # "end"
    BY <1>2
  <2>7. EnrollInv'
    BY <1>1, <1>6, <1>8, <2>1, <2>3, <2>4, <2>5, <2>6, RespondKeeps
  <2> QED BY <1>6, <1>8, <2>7
<1> QED BY <1>1, <1>5, <1>7, <1>8, Zenon DEF StoreFactor

\* consume_totp_step_in_process: the latest step accepted only grows.
LEMMA StepConsumed ==
  ASSUME EnrollInv, NEW u \in Person, NEW s \in Int, accepted' = ConsumeTotpStep(u, s)
  PROVE  /\ accepted' \in [Person -> Int] /\ \A v \in Person : accepted[v] <= accepted'[v]
         /\ s <= accepted'[u]
BY DEF ConsumeTotpStep, EnrollInv, EnrollShape

LEMMA ConsumeEnrollmentKeeps ==
  ASSUME EnrollInv, NEW r \in Sent, ConsumeEnrollmentStep(r)
  PROVE  EnrollInv' /\ StepSound
<1>1. PICK q : q = manage[r]
  BY Zenon
<1>2. /\ q.step = "consume" /\ q.op = "confirm"
      /\ accepted' = ConsumeTotpStep(q.user, q.code)
      /\ Responds(r, q.copy, q.found, "ok")
      /\ UNCHANGED <<plan, kept, factors, lockedSince, totpNow, codeLogins>>
  BY <1>1 DEF ConsumeEnrollmentStep
<1>3. q \in ManageRequest /\ CarryOK(r) /\ HasCopy(q)
  BY <1>1, <1>2, RequestTypes DEF EnrollInv, HasCopy
<1>4. q.copy \in Records /\ q.found \in {Nothing} \cup Sent
  BY <1>1, <1>3, Zenon DEF CarryOK
<1>5. /\ accepted' \in [Person -> Int] /\ \A v \in Person : accepted[v] <= accepted'[v]
      /\ q.code <= accepted'[q.user]
  <2>1. q.user \in Person /\ q.code \in Int
    BY <1>3 DEF ManageRequest
  <2> QED BY <1>2, <2>1, StepConsumed
<1>6. StoresWell
  BY <1>2, <1>5, StoresNothing, Zenon
<1>7. PICK a \in EnrollAnswers : a = "ok" /\ a \notin Refusals
  BY DEF Refusals, EnrollAnswers
<1>8. PICK copy \in Records, found \in {Nothing} \cup Sent : copy = q.copy /\ found = q.found
  BY <1>4, Zenon
<1>9. Responds(r, copy, found, a)
  BY <1>2, <1>7, <1>8, Zenon
<1>10. \A f \in Factor :
         \/ copy[f] = Nothing \/ copy[f] = kept[f]
         \/ q.step = "sent" /\ copy[f] = r /\ q.op = "begin" /\ q.factor = f
         \/ HasCopy(q) /\ copy[f] = q.copy[f]
  BY <1>3, <1>8, Zenon
<1>11. kept' = kept /\ q.step # "end"
  BY <1>2
<1>12. EnrollInv'
  BY <1>1, <1>5, <1>6, <1>7, <1>9, <1>10, <1>11, RespondKeeps
<1> QED BY <1>2, <1>12, QuietSound, Zenon

LEMMA UnenrollKeeps ==
  ASSUME EnrollInv, NEW r \in Sent, Unenroll(r)
  PROVE  EnrollInv' /\ StepSound
<1>1. PICK q : q = manage[r]
  BY Zenon
<1>2. /\ q.step = "sent" /\ q.op = "unenroll"
      /\ UNCHANGED <<plan, kept, accepted, lockedSince, totpNow, codeLogins>>
  BY <1>1 DEF Unenroll
<1>3. q \in ManageRequest /\ r \in Nat /\ r <= Len(manage) /\ Len(manage) \in Nat
  BY <1>1, RequestTypes DEF EnrollInv
<1>4. CASE CheckUsernameLocked(r)
  <2>1. PICK a \in EnrollAnswers : a = "locked" /\ a # "ok" /\ a \notin Refusals
    BY DEF Refusals, EnrollAnswers
  <2>2. Ends(r, a) /\ UNCHANGED factors
    BY <1>4, <2>1, Zenon DEF Unenroll
  <2>3. manage[r].step # "end"
       /\ UNCHANGED <<plan, kept, factors, accepted, lockedSince, totpNow, codeLogins>>
    BY <1>1, <1>2, <2>2
  <2> QED BY <2>1, <2>2, <2>3, EndsQuietly, Zenon
<1>5. CASE ~CheckUsernameLocked(r)
  <2>1. PICK a \in EnrollAnswers : a = "ok" /\ a \notin Refusals
    BY DEF Refusals, EnrollAnswers
  <2>2. Ends(r, a) /\ factors' = [factors EXCEPT ![q.user][q.factor] = Nothing]
    BY <1>1, <1>5, <2>1, Zenon DEF Unenroll
  <2>3. /\ factors' \in [Person -> Records]
        /\ \A u \in Person, f \in Factor :
             factors'[u][f] = Nothing \/ factors'[u][f] = factors[u][f]
        /\ \A u \in Person : u # q.user => factors'[u] = factors[u]
    BY <1>3, <2>2 DEF EnrollInv, EnrollShape, Records, ManageRequest, Nothing
  <2>4. StoresWell
    <3>1. \A u \in Person, f \in Factor : factors[u][f] \in {Nothing} \cup Sent
      BY DEF EnrollInv, OwnFactors, EnrollTypeOK
    <3>2. \A u \in Person, f \in Factor : factors'[u][f] # Nothing =>
            factors'[u][f] \in Sent /\ manage[factors'[u][f]].user = u
      BY <2>3, <3>1, Zenon DEF EnrollInv, OwnFactors
    <3> QED BY <1>2, <2>3, <3>2, AcceptedStay, Zenon DEF StoresWell
  <2>5. SavesCopy(q) /\ q.step # "end" /\ q.op # "confirm"
    BY <1>2 DEF SavesCopy
  <2>6. EnrollInv'
    BY <1>1, <2>1, <2>2, <2>4, <2>5, EndKeeps
  <2>7. LockedFactorsStay
    <3>1. r <= lockedSince[q.user] /\ r \in Active
      BY <1>1, <1>2, <1>3, <1>5
         DEF CheckUsernameLocked, EnrollInv, EnrollShape, Unlocked, ManageRequest, Active
    <3> QED BY <1>1, <2>3, <3>1, Zenon DEF LockedFactorsStay
  <2>8. RefusedStartsAgain
    BY <2>3, Zenon DEF RefusedStartsAgain
  <2>9. CodeNotReplayed
    BY <1>2, Zenon DEF CodeNotReplayed
  <2> QED BY <2>6, <2>7, <2>8, <2>9 DEF StepSound
<1> QED BY <1>4, <1>5

LEMMA CheckLoginKeeps ==
  ASSUME EnrollInv, NEW r \in Sent, CheckLoginCode(r)
  PROVE  EnrollInv' /\ StepSound
<1>1. PICK q, secret : q = manage[r] /\ secret = factors[q.user]["totp"]
  BY Zenon
<1>2. /\ q.step = "sent" /\ q.op = "login"
      /\ UNCHANGED <<plan, kept, factors, accepted, lockedSince, totpNow, codeLogins>>
  BY <1>1 DEF CheckLoginCode
<1>3. q \in ManageRequest /\ CarryOK(r)
  BY <1>1, RequestTypes DEF EnrollInv
<1>4. CASE Ends(r, "invalid")
  <2>1. PICK a \in EnrollAnswers : a = "invalid" /\ a # "ok"
    BY DEF EnrollAnswers
  <2>2. Ends(r, a)
    BY <1>4, <2>1, Zenon
  <2>3. manage[r].step # "end" /\ manage[r].found = Nothing
    BY <1>1, <1>2, <1>3 DEF CarryOK
  <2> QED BY <1>2, <2>1, <2>2, <2>3, EndsQuietly, Zenon
<1>5. CASE \E s \in ValidSteps :
             manage' = [manage EXCEPT ![r] =
               [@ EXCEPT !.step = "consume", !.found = secret, !.code = s]]
  <2>1. PICK s \in ValidSteps :
          manage' = [manage EXCEPT ![r] =
            [@ EXCEPT !.step = "consume", !.found = secret, !.code = s]]
    BY <1>5, Zenon
  <2>2. s \in Int /\ s >= 0
    BY DEF ValidSteps
  <2>3. secret \in Nat /\ secret \in {Nothing} \cup Sent
    <3>1. q.user \in Person /\ "totp" \in Factor
      BY <1>3 DEF ManageRequest, Factor
    <3> QED BY <1>1, <3>1 DEF EnrollInv, OwnFactors, EnrollTypeOK, EnrollShape, Records
  <2>4. PICK new : new = [q EXCEPT !.step = "consume", !.found = secret, !.code = s]
    BY Zenon
  <2>5. /\ new \in ManageRequest /\ new.step = "consume" /\ new.found = secret
        /\ new.op = q.op /\ new.factor = q.factor /\ new.user = q.user /\ new.alone = q.alone
        /\ new.code = s
    BY <1>3, <2>2, <2>3, <2>4 DEF ManageRequest, EnrollSteps
  <2>6. manage' = [manage EXCEPT ![r] = new]
    BY <1>1, <2>1, <2>4, Zenon
  <2>7. ~HasCopy(new) /\ ~Confirms(new) /\ new.step # "sent" /\ q.step # "end"
        /\ new.op # "confirm" /\ new.step # "check"
    BY <1>2, <2>5 DEF HasCopy, Confirms
  <2>8. RequestGoes(r, q, new)
    BY <1>1, <2>5, <2>7, Zenon DEF RequestGoes
  <2>9. StoresWell /\ kept' = kept
    BY <1>2, StoresNothing, AcceptedStay
  <2>10. EnrollInv'
    BY <2>2, <2>3, <2>5, <2>6, <2>7, <2>8, <2>9, ProceedKeeps
  <2> QED BY <1>2, <2>10, QuietSound, Zenon
<1> QED BY <1>1, <1>4, <1>5, Zenon DEF CheckLoginCode

LEMMA ConsumeLoginKeeps ==
  ASSUME EnrollInv, NEW r \in Sent, ConsumeLoginStep(r)
  PROVE  EnrollInv' /\ StepSound
<1>1. PICK q : q = manage[r]
  BY Zenon
<1>2. /\ q.step = "consume" /\ q.op = "login"
      /\ accepted' = ConsumeTotpStep(q.user, q.code)
      /\ UNCHANGED <<plan, kept, factors, lockedSince, totpNow>>
  BY <1>1 DEF ConsumeLoginStep
<1>3. q \in ManageRequest /\ CodeOK(r) /\ q.user \in Person /\ q.code \in Int
  BY <1>1, RequestTypes DEF EnrollInv, ManageRequest
<1>4. accepted' \in [Person -> Int] /\ \A v \in Person : accepted[v] <= accepted'[v]
  BY <1>2, <1>3, StepConsumed
<1>5. StoresWell
  BY <1>2, <1>4, StoresNothing, Zenon
<1>6. PICK a \in EnrollAnswers : Ends(r, a) /\ a \notin Refusals
  <2>1. PICK a : a = IF q.code > accepted[q.user] THEN "ok" ELSE "used"
    BY Zenon
  <2>2. Ends(r, a)
    BY <1>1, <2>1, Zenon DEF ConsumeLoginStep
  <2>3. a \in EnrollAnswers /\ a \notin Refusals
    BY <2>1 DEF EnrollAnswers, Refusals
  <2> QED BY <2>2, <2>3
<1>7. SavesCopy(q) /\ q.step # "end" /\ q.op # "confirm"
  BY <1>2 DEF SavesCopy
<1>8. EnrollInv'
  BY <1>1, <1>5, <1>6, <1>7, EndKeeps
<1>9. CodeNotReplayed
  <2> SUFFICES ASSUME NEW login \in codeLogins' \ codeLogins, NEW o \in Sent,
                      manage[o].op = "confirm", manage[o].step = "end",
                      manage[o].answer = "ok", manage[o].code = login.code,
                      manage[o].user = login.user
               PROVE  FALSE
    BY Zenon DEF CodeNotReplayed
  <2>1. /\ q.code > accepted[q.user]
        /\ login = [user |-> q.user, secret |-> q.found, code |-> q.code]
    BY <1>1, Zenon DEF ConsumeLoginStep
  <2>2. login.user = q.user /\ login.code = q.code
    BY <2>1
  <2>3. CodeOK(o)
    BY DEF EnrollInv
  <2>4. q.code = -1 \/ q.code <= accepted[q.user]
    BY <2>2, <2>3, Zenon DEF CodeOK
  <2>5. q.code >= 0 /\ accepted[q.user] \in Int
    BY <1>1, <1>2, <1>3 DEF CodeOK, EnrollInv, EnrollShape
  <2> QED BY <2>1, <2>4, <2>5, <1>3
<1>10. LockedFactorsStay /\ RefusedStartsAgain
  BY <1>2, Zenon DEF LockedFactorsStay, RefusedStartsAgain
<1> QED BY <1>8, <1>9, <1>10 DEF StepSound

LEMMA SaveRecordKeeps ==
  ASSUME EnrollInv, NEW r \in Sent, SaveRecord(r)
  PROVE  EnrollInv' /\ StepSound
<1>1. PICK q, a : q = manage[r] /\ a = q.answer
  BY Zenon
<1>2. /\ q.step = "respond" /\ kept' = q.copy /\ Ends(r, a)
      /\ UNCHANGED <<plan, factors, accepted, lockedSince, totpNow, codeLogins>>
  BY <1>1 DEF SaveRecord
<1>3. q \in ManageRequest /\ CodeOK(r) /\ HasCopy(q) /\ q.step # "end"
  BY <1>1, <1>2, RequestTypes DEF EnrollInv, HasCopy
<1>4. a \in EnrollAnswers \cup {NoAnswer}
  BY <1>1, <1>3 DEF ManageRequest
<1>5. StoresWell
  BY <1>2, StoresNothing, AcceptedStay
<1>6. SavesCopy(q)
  BY <1>2, <1>3, Zenon DEF SavesCopy
<1>7. q.op = "confirm" /\ a = "ok" => q.code = -1 \/ q.code <= accepted'[q.user]
  BY <1>1, <1>2, <1>3 DEF CodeOK
<1>8. EnrollInv'
  BY <1>1, <1>2, <1>3, <1>4, <1>5, <1>6, <1>7, EndKeeps, Zenon
<1> QED BY <1>2, <1>8, QuietSound, Zenon

LEMMA DropKeeps ==
  ASSUME EnrollInv, NEW r \in Sent, DropManage(r)
  PROVE  EnrollInv' /\ StepSound
<1>1. /\ manage[r].step # "end"
      /\ UNCHANGED <<plan, kept, factors, accepted, lockedSince, totpNow, codeLogins>>
  BY DEF DropManage
<1>2. PICK a \in EnrollAnswers : a = "dropped" /\ a # "ok" /\ a \notin Refusals
  BY DEF Refusals, EnrollAnswers
<1>3. Ends(r, a)
  BY <1>2, Zenon DEF DropManage
<1> QED BY <1>1, <1>2, <1>3, EndsQuietly, Zenon

----------------------------------------------------------------------------
(* New requests, locks and the clock *)

\* q as it is after another request was sent: it may not be alone any more.
Ages(q, p) ==
  /\ p.op = q.op /\ p.factor = q.factor /\ p.user = q.user /\ p.step = q.step
  /\ p.copy = q.copy /\ p.found = q.found /\ p.code = q.code /\ p.answer = q.answer
  /\ p.alone => q.alone /\ q.step = "end"

LEMMA AgesCarries ==
  ASSUME NEW q, NEW p, Ages(q, p), NEW e, Carries(p, e)
  PROVE  Carries(q, e)
<1>1. /\ p.op = q.op /\ p.step = q.step /\ p.copy = q.copy /\ p.found = q.found
  BY DEF Ages
<1>2. (HasCopy(p) <=> HasCopy(q)) /\ (Confirms(p) <=> Confirms(q))
  BY <1>1, Zenon DEF HasCopy, Confirms
<1> QED BY <1>1, <1>2, Zenon DEF Carries

LEMMA SentAfter ==
  ASSUME EnrollInv, SendManage, NEW n, n = Len(manage) + 1
  PROVE  /\ manage' \in Seq(ManageRequest) /\ Sent' = Sent \cup {n} /\ n \notin Sent
         /\ n \in Nat /\ Len(manage') = n
         /\ \A o \in Sent : Ages(manage[o], manage'[o])
         /\ manage'[n].step = "sent" /\ manage'[n].found = Nothing /\ manage'[n].code = -1
         /\ manage'[n].alone => Active = {}
<1>1. manage \in Seq(ManageRequest) /\ Len(manage) \in Nat /\ n \in Nat /\ n = Len(manage) + 1
      /\ plan \in Seq([op : EnrollOp, factor : Factor, user : Person]) /\ plan # <<>>
  <2>1. plan # <<>>
    BY Zenon DEF SendManage
  <2>2. manage \in Seq(ManageRequest)
        /\ plan \in Seq([op : EnrollOp, factor : Factor, user : Person])
    BY Zenon DEF EnrollInv, EnrollShape
  <2>3. Len(manage) \in Nat
    BY <2>2, LenProperties, Zenon
  <2> QED BY <2>1, <2>2, <2>3
<1>2. PICK alone \in BOOLEAN : alone = (Active = {})
  BY Zenon
<1>2a. PICK asked, no, unanswered : asked = Head(plan) /\ no = <<>> /\ unanswered = ""
  BY Zenon
<1>3. asked \in [op : EnrollOp, factor : Factor, user : Person]
  BY <1>1, <1>2a, HeadTailProperties, Zenon
<1>4. PICK new : new = [op |-> asked.op, factor |-> asked.factor, user |-> asked.user,
                        step |-> "sent", copy |-> no, found |-> Nothing, code |-> -1,
                        answer |-> unanswered, alone |-> alone]
  BY Zenon
<1>5. new \in ManageRequest
  <2>1. no \in Records \cup {<<>>} /\ unanswered \in EnrollAnswers \cup {NoAnswer}
    BY <1>2a, Zenon DEF NoAnswer
  <2>2. Nothing \in Nat /\ -1 \in Int /\ "sent" \in EnrollSteps
    BY DEF Nothing, EnrollSteps
  <2> QED BY <1>3, <1>4, <2>1, <2>2 DEF ManageRequest
<1>6. manage' = [o \in 1..n |->
        IF o \in Sent THEN [manage[o] EXCEPT !.alone = @ /\ o \notin Active] ELSE new]
  BY <1>1, <1>2, <1>2a, <1>4, Zenon DEF SendManage
<1>7. /\ \A o \in Sent : o \in 1..n /\ o # n
      /\ \A o \in 1..n : o \in Sent \/ o = n
      /\ n \in 1..n /\ n \notin Sent /\ 1..n = Sent \cup {n}
  BY <1>1 DEF Sent
<1>8. ASSUME NEW o \in Sent
      PROVE  manage'[o] \in ManageRequest /\ Ages(manage[o], manage'[o])
  <2>0. PICK on \in BOOLEAN : on = (manage[o].alone /\ o \notin Active)
    BY Zenon
  <2>1. PICK q : q = manage[o] /\ on = (q.alone /\ o \notin Active)
    BY <2>0, Zenon
  <2>2. q \in ManageRequest
    BY <2>1, RequestTypes DEF EnrollInv
  <2>3. PICK p : p = [q EXCEPT !.alone = on]
    BY Zenon
  <2>4. manage'[o] = p
    BY <1>6, <1>7, <2>1, <2>3, Zenon
  <2>5. /\ p \in ManageRequest /\ p.alone = on
        /\ p.op = q.op /\ p.factor = q.factor /\ p.user = q.user /\ p.step = q.step
        /\ p.copy = q.copy /\ p.found = q.found /\ p.code = q.code /\ p.answer = q.answer
    BY <2>2, <2>3 DEF ManageRequest
  <2>6. o \notin Active => q.step = "end"
    BY <2>1 DEF Active
  <2> QED BY <2>1, <2>4, <2>5, <2>6, Zenon DEF Ages
<1>9. manage'[n] = new
  BY <1>6, <1>7, Zenon
<1>10. \A o \in 1..n : manage'[o] \in ManageRequest
  BY <1>5, <1>7, <1>8, <1>9, Zenon
<1>11. manage' \in Seq(ManageRequest) /\ Len(manage') = n
  <2>1. DOMAIN manage' = 1..n /\ manage' = [o \in 1..n |-> manage'[o]]
    BY <1>6
  <2> HIDE DEF Sent
  <2> QED BY <1>1, <1>10, <2>1
<1>12. Sent' = 1..n
  BY <1>11 DEF Sent
<1>13. /\ new.step = "sent" /\ new.found = Nothing /\ new.code = -1
       /\ new.alone = alone
  BY <1>4
<1> QED BY <1>1, <1>2, <1>7, <1>8, <1>9, <1>11, <1>12, <1>13, Zenon

LEMMA SendKeeps ==
  ASSUME EnrollInv, SendManage
  PROVE  EnrollInv' /\ StepSound
<1>1. UNCHANGED <<kept, factors, accepted, lockedSince, totpNow, codeLogins>>
      /\ plan' = Tail(plan) /\ plan # <<>>
  BY Zenon DEF SendManage
<1>2. PICK n : n = Len(manage) + 1
  BY Zenon
<1>3. /\ manage' \in Seq(ManageRequest) /\ Sent' = Sent \cup {n} /\ n \notin Sent
      /\ n \in Nat /\ Len(manage') = n
      /\ \A o \in Sent : Ages(manage[o], manage'[o])
      /\ manage'[n].step = "sent" /\ manage'[n].found = Nothing /\ manage'[n].code = -1
      /\ manage'[n].alone => Active = {}
  BY <1>2, SentAfter
<1>4. EnrollShape'
  <2>1. /\ Tail(plan) \in Seq([op : EnrollOp, factor : Factor, user : Person])
        /\ Len(Tail(plan)) = Len(plan) - 1 /\ Len(plan) \in Nat
    <3>1. plan \in Seq([op : EnrollOp, factor : Factor, user : Person])
      BY DEF EnrollInv, EnrollShape
    <3> QED BY <1>1, <3>1, HeadTailProperties, LenProperties, Zenon
  <2>2. Len(manage') + Len(plan') < Unlocked
    <3>1. Len(manage) + Len(plan) < Unlocked /\ Len(manage) \in Nat
      BY DEF EnrollInv, EnrollShape
    <3> QED BY <1>1, <1>2, <1>3, <2>1, <3>1 DEF Unlocked
  <2>3. /\ kept' \in Records /\ factors' \in [Person -> Records]
        /\ accepted' \in [Person -> Int] /\ lockedSince' \in [Person -> Nat]
        /\ totpNow' \in Nat /\ \A u \in Person : lockedSince'[u] <= Unlocked
    BY <1>1, Zenon DEF EnrollInv, EnrollShape
  <2> QED BY <1>1, <1>3, <2>1, <2>2, <2>3, Zenon DEF EnrollShape
<1>5. /\ \A e : IsBegun(e) => IsBegun(e)'
      /\ \A e, f : BegunFor(e, f) => BegunFor(e, f)'
  <2>1. \A e \in Sent : /\ manage'[e].op = manage[e].op /\ manage'[e].step = manage[e].step
                        /\ manage'[e].factor = manage[e].factor
    BY <1>3, Zenon DEF Ages
  <2>2. \A e \in Sent : e \in Sent'
    BY <1>3
  <2>3. \A e : IsBegun(e) => IsBegun(e)'
    BY <2>1, <2>2, Zenon DEF IsBegun
  <2>4. \A e : IsBegun(e) => e \in Sent
    BY Zenon DEF IsBegun
  <2> QED BY <2>1, <2>3, <2>4, Zenon DEF BegunFor
<1>6. \A k : HoldsBegun(k) => \A f \in Factor : k[f] # Nothing => BegunFor(k[f], f)'
  BY <1>5, Zenon DEF HoldsBegun
<1>7. HoldsBegun(kept)'
  BY <1>1, <1>6, Zenon DEF HoldsBegun, EnrollInv
<1>8. \A e \in Sent : manage'[e].user = manage[e].user
  BY <1>3, Zenon DEF Ages
<1>9. ASSUME NEW o \in Sent
      PROVE  ConfirmOK(o)' /\ CarryOK(o)' /\ CodeOK(o)' /\ AloneOK(o)' /\ GoneOK(o)'
  <2>1. PICK q, p : q = manage[o] /\ p = manage'[o]
    BY Zenon
  <2>2. /\ p.op = q.op /\ p.factor = q.factor /\ p.user = q.user /\ p.step = q.step
        /\ p.copy = q.copy /\ p.found = q.found /\ p.code = q.code /\ p.answer = q.answer
        /\ p.alone => q.alone /\ q.step = "end"
    BY <1>3, <2>1, Zenon DEF Ages
  <2>3. (HasCopy(p) <=> HasCopy(q)) /\ (Confirms(p) <=> Confirms(q))
    BY <2>2, Zenon DEF HasCopy, Confirms
  <2>4. ConfirmOK(o) /\ CarryOK(o) /\ CodeOK(o) /\ GoneOK(o)
    BY Zenon DEF EnrollInv
  <2>5. ConfirmOK(o)'
    <3> SUFFICES ASSUME Confirms(p)
                 PROVE  /\ p.op = "confirm" /\ BegunFor(p.found, p.factor)'
                        /\ manage'[p.found].user = p.user /\ o <= lockedSince[p.user]
      BY <2>1, <1>1, Zenon DEF ConfirmOK
    <3>1. /\ q.op = "confirm" /\ BegunFor(q.found, q.factor)
          /\ manage[q.found].user = q.user /\ o <= lockedSince[q.user]
      BY <2>1, <2>3, <2>4, Zenon DEF ConfirmOK
    <3>2. q.found \in Sent
      BY <3>1, Zenon DEF BegunFor, IsBegun
    <3> QED BY <3>1, <3>2, <2>2, <1>5, <1>8, Zenon
  <2>6. CarryOK(o)'
    <3>1. /\ q.found \in {Nothing} \cup Sent
          /\ q.step = "sent" => q.found = Nothing /\ q.code = -1
          /\ HasCopy(q) => q.copy \in Records /\ HoldsBegun(q.copy)
          /\ q.step = "check" \/ (q.step = "respond" /\ q.answer \in Refusals) =>
               q.found # Nothing /\ IsBegun(q.found)
                 /\ \A f \in Factor : q.copy[f] # q.found
      BY <2>1, <2>4, Zenon DEF CarryOK
    <3>2. HasCopy(p) => p.copy \in Records /\ HoldsBegun(p.copy)'
      BY <3>1, <2>2, <2>3, <1>6, Zenon DEF HoldsBegun
    <3>3. p.found \in {Nothing} \cup Sent'
      BY <3>1, <2>2, <1>3
    <3>4. p.step = "check" \/ (p.step = "respond" /\ p.answer \in Refusals) =>
               p.found # Nothing /\ IsBegun(p.found)'
                 /\ \A f \in Factor : p.copy[f] # p.found
      BY <3>1, <2>2, <1>5, Zenon
    <3>5. p.step = "sent" => p.found = Nothing /\ p.code = -1
      BY <3>1, <2>2, Zenon
    <3> QED BY <3>2, <3>3, <3>4, <3>5, <2>1, Zenon DEF CarryOK
  <2>7. CodeOK(o)'
    BY <2>1, <2>2, <2>4, <1>1, Zenon DEF CodeOK
  <2>8. AloneOK(o)'
    BY <2>1, <2>2, Zenon DEF AloneOK
  <2>9. GoneOK(o)'
    <3>1. PICK e : e = p.found
      BY Zenon
    <3> SUFFICES ASSUME RefusedAlone(p) PROVE IsGone(e)'
      BY <2>1, <3>1, Zenon DEF GoneOK
    <3>2. IsGone(e)
      BY <2>1, <2>2, <2>4, <3>1, Zenon DEF GoneOK, RefusedAlone
    <3>3. \A i \in Sent : Carries(manage'[i], e) => Carries(manage[i], e)
      BY <1>3, AgesCarries, Zenon
    <3>4. ~Carries(manage'[n], e)
      BY <1>3 DEF Carries, HasCopy, Confirms
    <3>5. \A i \in Sent' : ~Carries(manage'[i], e)
      BY <1>3, <3>2, <3>3, <3>4, Zenon DEF IsGone
    <3>6. IsBegun(e)' /\ \A f \in Factor : kept'[f] # e
      BY <1>1, <1>5, <3>2, Zenon DEF IsGone
    <3> QED BY <3>5, <3>6, Zenon DEF IsGone
  <2> QED BY <2>5, <2>6, <2>7, <2>8, <2>9
<1>10. ConfirmOK(n)' /\ CarryOK(n)' /\ CodeOK(n)' /\ AloneOK(n)' /\ GoneOK(n)'
  <2>1. PICK p : p = manage'[n]
    BY Zenon
  <2>2. /\ p.step = "sent" /\ p.found = Nothing /\ p.code = -1 /\ (p.alone => Active = {})
    BY <1>3, <2>1, Zenon
  <2>3. /\ ~HasCopy(p) /\ ~Confirms(p) /\ ~RefusedAlone(p) /\ p.step # "check"
        /\ p.step # "respond" /\ p.step # "consume" /\ p.step # "store" /\ p.step # "end"
    BY <2>2 DEF HasCopy, Confirms, RefusedAlone
  <2>4. p.alone => \A o \in Sent : manage'[o].step = "end"
    BY <1>3, <2>2, Zenon DEF Active, Ages
  <2>5. AloneOK(n)'
    BY <1>3, <2>1, <2>4, Zenon DEF AloneOK
  <2>6. CodeOK(n)'
    BY <2>1, <2>2, <2>3, Zenon DEF CodeOK
  <2>7. CarryOK(n)'
    BY <2>1, <2>2, <2>3, Zenon DEF CarryOK
  <2> QED BY <2>1, <2>3, <2>5, <2>6, <2>7, Zenon DEF ConfirmOK, GoneOK
<1>11. \A o \in Sent' : ConfirmOK(o)' /\ CarryOK(o)' /\ CodeOK(o)' /\ AloneOK(o)' /\ GoneOK(o)'
  BY <1>3, <1>9, <1>10, Zenon
<1>12. OwnFactors'
  <2>1. \A u \in Person, f \in Factor : factors[u][f] \in {Nothing} \cup Sent
    BY DEF EnrollInv, OwnFactors, EnrollTypeOK
  <2>2. \A u \in Person, f \in Factor : factors'[u][f] # Nothing => manage'[factors'[u][f]].user = u
    BY <2>1, <1>1, <1>8, Zenon DEF EnrollInv, OwnFactors
  <2>3. factors' \in [Person -> [Factor -> {Nothing} \cup Sent']]
        /\ kept' \in [Factor -> {Nothing} \cup Sent']
    BY <1>1, <1>3 DEF EnrollInv, OwnFactors, EnrollTypeOK
  <2>4. \A o \in Sent' : manage'[o].found \in {Nothing} \cup Sent'
    BY <1>11, Zenon DEF CarryOK
  <2> QED BY <2>2, <2>3, <2>4, Zenon DEF OwnFactors, EnrollTypeOK
<1>13. EnrollInv'
  BY <1>4, <1>7, <1>11, <1>12, Zenon DEF EnrollInv
<1> QED BY <1>1, <1>13, QuietSound, Zenon

\* A lock or a tick of the clock; a request sent before is before the lock.
LEMMA LockOrTickKeeps ==
  ASSUME EnrollInv, UNCHANGED <<plan, manage, kept, factors, accepted, codeLogins>>,
         totpNow' \in Nat, lockedSince' \in [Person -> Nat],
         \A u \in Person : lockedSince'[u] = lockedSince[u] \/ lockedSince'[u] = Len(manage)
  PROVE  EnrollInv' /\ StepSound
<1>1. manage' = manage /\ kept' = kept /\ factors' = factors /\ accepted' = accepted
      /\ Sent' = Sent
  BY DEF Sent
<1>2. EnrollShape'
  <2>1. Len(manage) < Unlocked /\ Len(manage) \in Nat
    BY DEF EnrollInv, EnrollShape, Unlocked
  <2>2. \A u \in Person : lockedSince'[u] <= Unlocked
    BY <2>1 DEF EnrollInv, EnrollShape, Unlocked
  <2> QED BY <2>2, Zenon DEF EnrollInv, EnrollShape
<1>3. \A e : IsBegun(e)' <=> IsBegun(e)
  BY <1>1, Zenon DEF IsBegun
<1>4. \A e, f : BegunFor(e, f)' <=> BegunFor(e, f)
  BY <1>1, <1>3, Zenon DEF BegunFor
<1>5. ASSUME NEW o \in Sent PROVE ConfirmOK(o)'
  <2>1. PICK q : q = manage[o]
    BY Zenon
  <2> SUFFICES ASSUME Confirms(q)
               PROVE  /\ q.op = "confirm" /\ BegunFor(q.found, q.factor)
                      /\ manage[q.found].user = q.user /\ o <= lockedSince'[q.user]
    BY <1>1, <1>4, <2>1, Zenon DEF ConfirmOK
  <2>2. /\ q.op = "confirm" /\ BegunFor(q.found, q.factor)
        /\ manage[q.found].user = q.user /\ o <= lockedSince[q.user]
    BY <2>1, Zenon DEF EnrollInv, ConfirmOK
  <2>3. q.user \in Person /\ o <= Len(manage)
    BY <2>1, RequestTypes DEF EnrollInv, ManageRequest
  <2> QED BY <2>2, <2>3, Zenon
<1>6. ASSUME NEW o \in Sent PROVE CarryOK(o)' /\ CodeOK(o)' /\ AloneOK(o)' /\ GoneOK(o)'
  <2>1. CarryOK(o) /\ CodeOK(o) /\ AloneOK(o) /\ GoneOK(o)
    BY Zenon DEF EnrollInv
  <2>2. \A k : HoldsBegun(k) => \A f \in Factor : k[f] # Nothing => BegunFor(k[f], f)'
    BY <1>4, Zenon DEF HoldsBegun
  <2>3. CarryOK(o)'
    BY <1>1, <1>3, <2>1, <2>2, Zenon DEF CarryOK, HoldsBegun
  <2>4. CodeOK(o)' /\ AloneOK(o)'
    BY <1>1, <2>1, Zenon DEF CodeOK, AloneOK
  <2>5. GoneOK(o)'
    BY <1>1, <1>3, <2>1, Zenon DEF GoneOK, IsGone
  <2> QED BY <2>3, <2>4, <2>5
<1>7. HoldsBegun(kept)'
  BY <1>1, <1>4, Zenon DEF EnrollInv, HoldsBegun
<1>8. OwnFactors'
  BY <1>1, Zenon DEF EnrollInv, OwnFactors, EnrollTypeOK
<1>9. EnrollInv'
  BY <1>1, <1>2, <1>5, <1>6, <1>7, <1>8, Zenon DEF EnrollInv
<1> QED BY <1>9, QuietSound, Zenon

LEMMA EnrollStep ==
  ASSUME EnrollInv, [EnrollNext]_enrollVars
  PROVE  EnrollInv' /\ StepSound
<1>1. ASSUME NEW u \in Person, LockUser(u)
      PROVE  EnrollInv' /\ StepSound
  <2>1. /\ UNCHANGED <<plan, manage, kept, factors, accepted, codeLogins>>
        /\ totpNow' = totpNow /\ lockedSince' = [lockedSince EXCEPT ![u] = Len(manage)]
    BY <1>1 DEF LockUser
  <2>2. Len(manage) \in Nat
    BY DEF EnrollInv, EnrollShape
  <2>3. /\ lockedSince' \in [Person -> Nat] /\ totpNow' \in Nat
        /\ \A v \in Person : lockedSince'[v] = lockedSince[v] \/ lockedSince'[v] = Len(manage)
    BY <2>1, <2>2 DEF EnrollInv, EnrollShape
  <2> QED BY <2>1, <2>3, LockOrTickKeeps
<1>2. ASSUME TotpTick \/ UNCHANGED enrollVars
      PROVE  EnrollInv' /\ StepSound
  <2>1. /\ UNCHANGED <<plan, manage, kept, factors, accepted, codeLogins>>
        /\ totpNow' \in Nat /\ lockedSince' = lockedSince
    BY <1>2 DEF TotpTick, enrollVars, EnrollInv, EnrollShape
  <2>2. lockedSince' \in [Person -> Nat]
    BY <2>1 DEF EnrollInv, EnrollShape
  <2> QED BY <2>1, <2>2, LockOrTickKeeps
<1>3. CASE EnrollNext
  BY <1>1, <1>2, <1>3, SendKeeps, BeginEnrollmentKeeps, RetrieveKeeps, PasskeyKeeps,
     CheckCodeKeeps, StoreKeeps, ConsumeEnrollmentKeeps, UnenrollKeeps, CheckLoginKeeps,
     ConsumeLoginKeeps, SaveRecordKeeps, DropKeeps, Zenon DEF EnrollNext
<1> QED BY <1>2, <1>3

\* Whatever requests of the users of one cookie jar interleave, are dropped or
\* fail, for any plan of them: a second factor is stored for the user who began
\* its enrollment; once a username is locked its factors only change by requests
\* sent before; an enrollment that was refused to a request without others at
\* the same time is not stored later; and the code of a confirm that was answered
\* logs nobody in (api/manage/totp.rs, passkey.rs, consume_totp_step_in_process).
THEOREM EnrollmentIsSound == EnrollSpec => EnrollmentsSound
<1>1. EnrollInit => EnrollInv
  <2> SUFFICES ASSUME EnrollInit PROVE EnrollInv
    OBVIOUS
  <2>1. Sent = {} /\ manage = <<>> /\ Len(manage) = 0
    BY DEF EnrollInit, Sent
  <2>2. /\ plan \in Seq([op : EnrollOp, factor : Factor, user : Person])
        /\ Len(plan) < Unlocked /\ Len(plan) \in Nat
    <3>1. plan \in Plans
      BY DEF EnrollInit
    <3>2. /\ plan \in Seq([op : EnrollOp, factor : Factor, user : Person])
          /\ Len(plan) < Unlocked
      BY <3>1, EnrollAssumption, Zenon DEF EnrollOp
    <3> QED BY <3>2, LenProperties, Zenon
  <2>3. /\ kept \in Records /\ factors \in [Person -> Records]
        /\ kept \in [Factor -> {Nothing}] /\ factors \in [Person -> [Factor -> {Nothing}]]
        /\ accepted \in [Person -> Int] /\ lockedSince \in [Person -> Nat] /\ totpNow \in Nat
        /\ \A u \in Person : lockedSince[u] <= Unlocked
    BY DEF EnrollInit, Records, Nothing, Unlocked
  <2>4. EnrollShape
    <3>1. manage \in Seq(ManageRequest) /\ Len(manage) + Len(plan) < Unlocked
      BY <2>1, <2>2
    <3> QED BY <2>2, <2>3, <3>1, Zenon DEF EnrollShape
  <2>5. HoldsBegun(kept)
    BY <2>3 DEF HoldsBegun
  <2>6. OwnFactors
    BY <2>1, <2>3 DEF OwnFactors, EnrollTypeOK
  <2> QED BY <2>1, <2>4, <2>5, <2>6, Zenon DEF EnrollInv
<1>2. EnrollInv /\ [EnrollNext]_enrollVars => EnrollInv'
  BY EnrollStep
<1>3. EnrollInv /\ [EnrollNext]_enrollVars =>
        [/\ OwnFactors' /\ LockedFactorsStay
         /\ RefusedStartsAgain /\ CodeNotReplayed]_enrollVars
  BY EnrollStep, Zenon DEF EnrollInv, StepSound
<1> QED BY <1>1, <1>2, <1>3, PTL DEF EnrollSpec, EnrollmentsSound
=============================================================================
