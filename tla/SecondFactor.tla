---------------------------- MODULE SecondFactor ----------------------------
(***************************************************************************)
(* The second factor codes of a login (auth/server api/login/totp.rs): the *)
(* per-user failure budget SecondFactorAttempts, the single use of TOTP    *)
(* steps (consume_totp_step_in_process) and of recovery codes (under the   *)
(* user's recovery_codes mutex), from SecondFactorAttempt::begin to end or *)
(* drop. Requests interleave at every await, may be dropped there (the     *)
(* client disconnects), and the process may restart.                       *)
(*                                                                         *)
(* UserAttempts::recovery_codes is an Arc<Mutex>, named after the attempt  *)
(* whose begin put the user on the map: a user who left the map and came   *)
(* back has another mutex. The recovery codes live in the app's storage,   *)
(* which here only reads and writes back the whole list (the weakest one   *)
(* lock_recovery_codes is documented to protect). Time is counted in TOTP  *)
(* steps.                                                                  *)
(***************************************************************************)
EXTENDS Integers, FiniteSets

CONSTANTS Attempt,        \* requests that send a second factor code
          User,
          Code,           \* the recovery codes each user starts with
          MaxFailures,    \* MAX_SECOND_FACTOR_FAILURES
          Window,         \* SECOND_FACTOR_FAILURE_WINDOW
          SweepInterval,  \* SECOND_FACTOR_SWEEP_INTERVAL
          MaxTime,        \* bound on the clock
          MaxRestarts,    \* bound on restarts
          None

ASSUME ConstantsAssumption ==
  /\ IsFiniteSet(Attempt)
  /\ MaxFailures \in Nat \ {0}
  /\ Window \in Nat \ {0}
  /\ SweepInterval \in Nat
  /\ MaxTime \in Nat
  /\ MaxRestarts \in Nat
  /\ None \notin Attempt \cup User \cup Code \cup Int

VARIABLES
  \* SECOND_FACTOR_ATTEMPTS, behind its mutex
  mutexOf,    \* recovery_codes of each user on the map, None off the map
  failures,   \* failures[u]: the attempts whose failure is recorded
  inFlight,   \* inFlight[u]: UserAttempts::in_flight
  lastSweep,  \* SecondFactorAttempts::last_sweep
  lastStep,   \* ACCEPTED_TOTP_STEPS: the latest accepted step, or -1
  \* the app's storage
  codes,      \* codes[u]: hashed_totp_recovery_codes
  \* the world
  now, epoch, \* the TOTP step of the clock, and how often we restarted
  \* the requests
  pc, user,
  code,       \* the code sent: the step it is for, or a recovery code
  mutex,      \* the clone of recovery_codes held by the attempt
  owner,      \* owner[m]: which attempt has locked mutex m
  loaded,     \* the recovery codes the attempt last read
  failedAt,   \* when the attempt failed
  epochOf     \* the process the attempt runs in

budget == <<mutexOf, failures, inFlight, lastSweep, failedAt>>
request == <<user, code, mutex, epochOf>>
world == <<now, epoch>>
vars == <<budget, lastStep, codes, world, pc, request, owner, loaded>>

Steps == 0..(MaxTime + 1)

\* Where a request can be dropped: it is at an await.
AtAwait == {"checkTotp", "consume", "lock", "load", "find", "read", "write",
            "finish"}
Ending == {"endOk", "endFailed", "endError"}
InFlight == AtAwait \cup Ending
\* The mutex is held from lock_recovery_codes to drop(recovery_codes).
Locked == {"load", "find", "read", "write"}
Over == {"loggedIn", "failed", "refused", "gone"}

TypeOK ==
  /\ mutexOf \in [User -> Attempt \cup {None}]
  /\ failures \in [User -> SUBSET Attempt]
  /\ inFlight \in [User -> Nat]
  /\ lastSweep \in (0..MaxTime) \cup {None}
  /\ lastStep \in [User -> Steps \cup {-1}]
  /\ codes \in [User -> SUBSET Code]
  /\ now \in 0..MaxTime
  /\ epoch \in 0..MaxRestarts
  /\ pc \in [Attempt -> {"idle"} \cup InFlight \cup Over]
  /\ user \in [Attempt -> User \cup {None}]
  /\ code \in [Attempt -> Steps \cup Code \cup {None}]
  /\ mutex \in [Attempt -> Attempt \cup {None}]
  /\ owner \in [Attempt -> Attempt \cup {None}]
  /\ loaded \in [Attempt -> SUBSET Code]
  /\ failedAt \in [Attempt -> 0..MaxTime]
  /\ epochOf \in [Attempt -> 0..MaxRestarts]

Init ==
  /\ mutexOf = [u \in User |-> None]
  /\ failures = [u \in User |-> {}]
  /\ inFlight = [u \in User |-> 0]
  /\ lastSweep = None
  /\ lastStep = [u \in User |-> -1]
  /\ codes = [u \in User |-> Code]
  /\ now = 0
  /\ epoch = 0
  /\ pc = [a \in Attempt |-> "idle"]
  /\ user = [a \in Attempt |-> None]
  /\ code = [a \in Attempt |-> None]
  /\ mutex = [a \in Attempt |-> None]
  /\ owner = [m \in Attempt |-> None]
  /\ loaded = [a \in Attempt |-> {}]
  /\ failedAt = [a \in Attempt |-> 0]
  /\ epochOf = [a \in Attempt |-> 0]

Goto(a, label) == pc' = [pc EXCEPT ![a] = label]

----------------------------------------------------------------------------
(* SecondFactorAttempts *)

\* UserAttempts::prune
Pruned(u) == {f \in failures[u] : now - failedAt[f] < Window}

SweepDue == lastSweep = None \/ now - lastSweep >= SweepInterval

\* Mutant: users with codes in flight are swept.
SweptInFlight(u) == SweepDue /\ Pruned(u) = {}

\* sweep's retain: nothing in flight and no failure left.
Swept(u) == SweepDue /\ inFlight[u] = 0 /\ Pruned(u) = {}

\* Mutant: codes being checked are not counted.
RefusesByFailures(u) == Cardinality(Pruned(u)) >= MaxFailures

\* Mutant: one code too many.
RefusesLate(u) == Cardinality(Pruned(u)) + inFlight[u] > MaxFailures

\* The failures and the codes being checked use up the budget.
Refuses(u) == Cardinality(Pruned(u)) + inFlight[u] >= MaxFailures

\* SecondFactorAttempts::begin of attempt a for user u. The sweep comes
\* first and prunes every user; the entry is then found or inserted.
Begin(a, u, c) ==
  LET m == IF mutexOf[u] = None \/ Swept(u) THEN a ELSE mutexOf[u]
  IN  /\ pc[a] = "idle"
      /\ user' = [user EXCEPT ![a] = u]
      /\ code' = [code EXCEPT ![a] = c]
      /\ epochOf' = [epochOf EXCEPT ![a] = epoch]
      /\ lastSweep' = IF SweepDue THEN now ELSE lastSweep
      /\ mutexOf' = [v \in User |-> IF v = u THEN m
                                    ELSE IF Swept(v) THEN None ELSE mutexOf[v]]
      /\ failures' = [v \in User |-> IF v = u \/ SweepDue THEN Pruned(v)
                                                          ELSE failures[v]]
      /\ \/ /\ Refuses(u)
            /\ Goto(a, "refused")
            /\ UNCHANGED <<inFlight, mutex>>
         \/ /\ ~Refuses(u)
            /\ inFlight' = [inFlight EXCEPT ![u] = @ + 1]
            /\ mutex' = [mutex EXCEPT ![a] = m]
            /\ Goto(a, IF c \in Code THEN "lock" ELSE "checkTotp")
      /\ UNCHANGED <<lastStep, codes, world, owner, loaded, failedAt>>

\* Mutant: users stay on the map.
NeverUnused(left, live) == FALSE

\* The user is removed once nothing is in flight and no failure is left.
Unused(left, live) == left = 0 /\ live = {}

\* SecondFactorAttempts::end, from SecondFactorAttempt::end or its drop.
End(a) ==
  LET u == user[a]
      left == IF inFlight[u] > 0 THEN inFlight[u] - 1 ELSE 0
      live == IF pc[a] = "endFailed" THEN Pruned(u) \cup {a} ELSE Pruned(u)
  IN  /\ pc[a] \in Ending
      /\ failedAt' = [failedAt EXCEPT ![a] = IF pc[a] = "endFailed" THEN now ELSE @]
      /\ \/ /\ mutexOf[u] = None
            /\ UNCHANGED <<mutexOf, failures, inFlight>>
         \/ /\ mutexOf[u] # None
            /\ inFlight' = [inFlight EXCEPT ![u] = left]
            /\ failures' = [failures EXCEPT ![u] = live]
            /\ mutexOf' = [mutexOf EXCEPT ![u] =
                             IF Unused(left, live) THEN None ELSE @]
      /\ Goto(a, CASE pc[a] = "endOk" -> "loggedIn"
                   [] pc[a] = "endFailed" -> "failed"
                   [] OTHER -> "gone")
      /\ mutex' = [mutex EXCEPT ![a] = None]
      /\ loaded' = [loaded EXCEPT ![a] = {}]
      /\ UNCHANGED <<lastSweep, lastStep, codes, world, user, code, epochOf, owner>>

----------------------------------------------------------------------------
(* finish_totp_login *)

\* get_user, the whitelist and check_current: a code is good one step
\* either side of the clock. A user who is not enrolled, or cannot be
\* loaded, is a server error, which is not counted.
CheckTotp(a) ==
  /\ pc[a] = "checkTotp"
  /\ \/ code[a] \in {now - 1, now, now + 1} /\ Goto(a, "consume")
     \/ Goto(a, "endFailed")
     \/ Goto(a, "endError")
  /\ UNCHANGED <<budget, lastStep, codes, world, request, owner, loaded>>

\* Mutant: the accepted step is accepted again.
ConsumeAgain(a) ==
  /\ pc[a] = "consume"
  /\ \/ /\ code[a] >= lastStep[user[a]]
        /\ lastStep' = [lastStep EXCEPT ![user[a]] = code[a]]
        /\ Goto(a, "finish")
     \/ /\ code[a] < lastStep[user[a]]
        /\ Goto(a, "endFailed")
        /\ UNCHANGED lastStep
  /\ UNCHANGED <<budget, codes, world, request, owner, loaded>>

\* Mutant: the step after the accepted one is remembered.
ConsumeNext(a) ==
  /\ pc[a] = "consume"
  /\ lastStep' = [lastStep EXCEPT ![user[a]] = code[a] + 1]
  /\ Goto(a, "finish")
  /\ UNCHANGED <<budget, codes, world, request, owner, loaded>>

\* consume_totp_step_in_process
ConsumeStep(a) ==
  LET fresh == code[a] > lastStep[user[a]]
  IN  /\ pc[a] = "consume"
      /\ \/ /\ fresh
            /\ lastStep' = [lastStep EXCEPT ![user[a]] = code[a]]
            /\ Goto(a, "finish")
         \/ /\ ~fresh
            /\ Goto(a, "endFailed")
            /\ UNCHANGED lastStep
      /\ UNCHANGED <<budget, codes, world, request, owner, loaded>>

\* complete_totp_login, record_login and the JWT. The app's record_login may
\* refuse the login or fail.
Finish(a) ==
  /\ pc[a] = "finish"
  /\ \E end \in Ending : Goto(a, end)
  /\ UNCHANGED <<budget, lastStep, codes, world, request, owner, loaded>>

----------------------------------------------------------------------------
(* finish_totp_recovery_login *)

\* Mutant: no lock is taken.
LockNothing(a) ==
  /\ pc[a] = "lock"
  /\ Goto(a, "load")
  /\ UNCHANGED <<budget, lastStep, codes, world, request, owner, loaded>>

\* lock_recovery_codes
Lock(a) ==
  /\ pc[a] = "lock"
  /\ owner[mutex[a]] = None
  /\ owner' = [owner EXCEPT ![mutex[a]] = a]
  /\ Goto(a, "load")
  /\ UNCHANGED <<budget, lastStep, codes, world, request, loaded>>

\* The guard is dropped wherever the function returns.
Unlock(a) ==
  owner' = [m \in Attempt |-> IF owner[m] = a THEN None ELSE owner[m]]

\* get_user; not enrolled or not whitelisted counts, a server error does not.
LoadCodes(a) ==
  /\ pc[a] = "load"
  /\ \/ /\ loaded' = [loaded EXCEPT ![a] = codes[user[a]]]
        /\ Goto(a, "find")
        /\ UNCHANGED owner
     \/ /\ \E end \in {"endFailed", "endError"} : Goto(a, end)
        /\ Unlock(a)
        /\ UNCHANGED loaded
  /\ UNCHANGED <<budget, lastStep, codes, world, request>>

\* find_recovery_code, on the bcrypt pool (which may fail to run it)
FindCode(a) ==
  /\ pc[a] = "find"
  /\ \/ /\ code[a] \in loaded[a]
        /\ Goto(a, "read")
        /\ UNCHANGED owner
     \/ /\ code[a] \notin loaded[a]
        /\ Goto(a, "endFailed")
        /\ Unlock(a)
     \/ /\ Goto(a, "endError")
        /\ Unlock(a)
  /\ UNCHANGED <<budget, lastStep, codes, world, request, loaded>>

\* remove_totp_recovery_code of a storage without conditional updates:
\* read the list ...
RemoveRead(a) ==
  /\ pc[a] = "read"
  /\ loaded' = [loaded EXCEPT ![a] = codes[user[a]]]
  /\ Goto(a, "write")
  /\ UNCHANGED <<budget, lastStep, codes, world, request, owner>>

\* ... and write back the rest, then drop(recovery_codes). The write may fail.
RemoveWrite(a) ==
  /\ pc[a] = "write"
  /\ \/ /\ codes' = [codes EXCEPT ![user[a]] = loaded[a] \ {code[a]}]
        /\ Goto(a, "finish")
     \/ Goto(a, "endError") /\ UNCHANGED codes
  /\ Unlock(a)
  /\ UNCHANGED <<budget, lastStep, world, request, loaded>>

----------------------------------------------------------------------------
(* Drops, restarts and time *)

\* Mutant: a dropped attempt is not ended.
CancelWithoutEnd(a) ==
  /\ pc[a] \in AtAwait
  /\ Goto(a, "gone")
  /\ Unlock(a)
  /\ UNCHANGED <<budget, lastStep, codes, world, request, loaded>>

\* Mutant: a dropped attempt leaves the mutex locked.
CancelLocked(a) ==
  /\ pc[a] \in AtAwait
  /\ Goto(a, "endError")
  /\ UNCHANGED <<budget, lastStep, codes, world, request, owner, loaded>>

\* The request is dropped at an await: its locals go, the guard first, and
\* SecondFactorAttempt::drop then ends the attempt without a failure.
Cancel(a) ==
  /\ pc[a] \in AtAwait
  /\ Goto(a, "endError")
  /\ Unlock(a)
  /\ UNCHANGED <<budget, lastStep, codes, world, request, loaded>>

\* Process memory is lost, storage is not.
Restart ==
  /\ epoch < MaxRestarts
  /\ epoch' = epoch + 1
  /\ mutexOf' = [u \in User |-> None]
  /\ failures' = [u \in User |-> {}]
  /\ inFlight' = [u \in User |-> 0]
  /\ lastSweep' = None
  /\ lastStep' = [u \in User |-> -1]
  /\ owner' = [m \in Attempt |-> None]
  /\ pc' = [a \in Attempt |-> IF pc[a] \in InFlight THEN "gone" ELSE pc[a]]
  /\ mutex' = [a \in Attempt |-> None]
  /\ loaded' = [a \in Attempt |-> {}]
  /\ UNCHANGED <<codes, now, user, code, epochOf, failedAt>>

Tick ==
  /\ now < MaxTime
  /\ now' = now + 1
  /\ UNCHANGED <<budget, lastStep, codes, epoch, pc, request, owner, loaded>>

\* What a request does by itself once it began.
Step(a) == \/ CheckTotp(a) \/ ConsumeStep(a) \/ Finish(a)
           \/ Lock(a) \/ LoadCodes(a) \/ FindCode(a)
           \/ RemoveRead(a) \/ RemoveWrite(a)
           \/ End(a)

Next == \/ \E a \in Attempt :
             \/ \E u \in User, c \in Steps \cup Code : Begin(a, u, c)
             \/ Step(a)
             \/ Cancel(a)
        \/ Restart
        \/ Tick

Spec == Init /\ [][Next]_vars

\* The runtime polls every task that can proceed.
FairSpec == Spec /\ \A a \in Attempt : WF_vars(Step(a))

----------------------------------------------------------------------------
(* Properties *)

Running(u) == {a \in Attempt : pc[a] \in InFlight /\ user[a] = u}
Counting(u) == {a \in Attempt : /\ pc[a] = "failed" /\ user[a] = u
                                /\ epochOf[a] = epoch
                                /\ now - failedAt[a] < Window}
Accepted(a) == pc[a] \in {"finish", "endOk", "loggedIn"}

\* Every attempt of a user in flight holds the mutex that is on the map: two
\* recovery logins of a user can never lock different mutexes, whatever
\* sweeps and removals happened in between.
OneMutexPerUser ==
  \A a \in Attempt : pc[a] \in InFlight => mutex[a] = mutexOf[user[a]]

\* "one code can't be used twice at the same time"
RecoveryCodeOnce ==
  \A a, b \in Attempt :
    /\ a # b /\ Accepted(a) /\ Accepted(b)
    /\ user[a] = user[b] /\ code[a] \in Code
    => code[a] # code[b]

\* "nor the removal of one code undo another's (with storage which writes
\* back the whole list)"
RemovalNotUndone ==
  \A a \in Attempt : Accepted(a) => code[a] \notin codes[user[a]]

\* A TOTP code is accepted once (RFC 6238), within one process.
TotpStepOnce ==
  \A a, b \in Attempt :
    /\ a # b /\ Accepted(a) /\ Accepted(b)
    /\ user[a] = user[b] /\ epochOf[a] = epochOf[b] /\ code[a] \in Steps
    => code[a] # code[b]

\* in_flight counts exactly the attempts being checked: an attempt that was
\* dropped keeps nothing of the budget, none gives back twice.
InFlightExact == \A u \in User : inFlight[u] = Cardinality(Running(u))

\* The failures within the window, and the codes being checked, never exceed
\* MAX_SECOND_FACTOR_FAILURES, "whatever the session, first factor or client".
GuessesBounded ==
  \A u \in User : Cardinality(Counting(u)) + Cardinality(Running(u)) <= MaxFailures

\* A user is on the map for a reason, so the map stays bounded by the users
\* with failures or codes in flight.
MappedForAReason ==
  \A u \in User : (mutexOf[u] # None) <=> (inFlight[u] > 0 \/ failures[u] # {})

\* The attempts map is consistent with the requests that use it: one mutex
\* per user, exact reservations and no more failures than allowed, whatever
\* sweeps, drops and restarts happened in between.
AttemptsConsistent == /\ TypeOK
                      /\ OneMutexPerUser
                      /\ InFlightExact
                      /\ GuessesBounded
                      /\ MappedForAReason

\* A recovery code that let a login in is used up: no other login gets in
\* with it and no concurrent write of the list brings it back.
CodesStayUsed == RecoveryCodeOnce /\ RemovalNotUndone

\* Every code that is sent gets an answer or is dropped: nobody waits
\* forever for a mutex a cancelled or failed attempt left locked.
EveryAttemptEnds == \A a \in Attempt : pc[a] \in InFlight ~> pc[a] \in Over

Budget == INSTANCE AttemptBudget WITH
            Client <- User,
            MaxAttempts <- MaxFailures,
            running <- [u \in User |-> Running(u)],
            spent <- [u \in User |-> Counting(u)]
\* The codes of a user implement the failure budget.
BudgetSpec == Budget!Spec
=============================================================================
