----------------------------- MODULE BcryptPool -----------------------------
(***************************************************************************)
(* The bcrypt work of the server (auth/server/src/bcrypt_pool.rs): hashes  *)
(* wait on a semaphore, first come first served (tokio), run on the        *)
(* blocking pool, and cannot be stopped once they run. Logins and api keys *)
(* have a budget each.                                                     *)
(***************************************************************************)
EXTENDS Integers, Sequences, FiniteSets, SequencesExt

CONSTANTS
  LoginJob, KeyJob,   \* bcrypt work of logins, and of api key secrets
  Cores               \* available_cores

ASSUME JobsAssumption ==
  /\ IsFiniteSet(LoginJob) /\ IsFiniteSet(KeyJob) /\ LoginJob \cap KeyJob = {}
  /\ Cores \in Nat \ {0}

VARIABLES
  waiting,    \* those waiting for a permit of each budget, in order
  permits,    \* those holding a permit of each budget
  hashing,    \* those whose bcrypt is running
  listening   \* those whose caller still waits for the result

poolVars == <<waiting, permits, hashing, listening>>

Budgets == {"login", "api key"}
Job == LoginJob \cup KeyJob

\* Mutant: one budget for all.
OneBudget(j) == "login"

\* spawn_bcrypt, spawn_api_key_bcrypt
BudgetOf(j) == IF j \in LoginJob THEN "login" ELSE "api key"

PoolInit ==
  /\ waiting = [b \in Budgets |-> <<>>]
  /\ permits = [b \in Budgets |-> {}]
  /\ hashing = {}
  /\ listening = {}

Waits(j) == Contains(waiting[BudgetOf(j)], j)

Ask(j) ==
  /\ j \notin listening \cup hashing
  /\ waiting' = [waiting EXCEPT ![BudgetOf(j)] = Append(@, j)]
  /\ listening' = listening \cup {j}
  /\ UNCHANGED <<permits, hashing>>

\* acquire_owned, then spawn_blocking.
Acquire(j) ==
  /\ Waits(j) /\ Head(waiting[BudgetOf(j)]) = j
  /\ Cardinality(permits[BudgetOf(j)]) < Cores
  /\ waiting' = [waiting EXCEPT ![BudgetOf(j)] = Tail(@)]
  /\ permits' = [permits EXCEPT ![BudgetOf(j)] = @ \cup {j}]
  /\ hashing' = hashing \cup {j}
  /\ UNCHANGED listening

\* The permit is held until the work is done.
Complete(j) ==
  /\ j \in hashing
  /\ hashing' = hashing \ {j}
  /\ permits' = [permits EXCEPT ![BudgetOf(j)] = @ \ {j}]
  /\ listening' = listening \ {j}
  /\ UNCHANGED waiting

\* Mutant: the permit goes with the caller.
PermitGoesToo(j) == [permits EXCEPT ![BudgetOf(j)] = @ \ {j}]

PermitsWithout(j) == permits

\* The caller is dropped: a job that waits never runs, one that runs goes on.
Disconnect(j) ==
  /\ j \in listening
  /\ listening' = listening \ {j}
  /\ waiting' = [waiting EXCEPT ![BudgetOf(j)] = Remove(@, j)]
  /\ permits' = PermitsWithout(j)
  /\ UNCHANGED hashing

PoolNext == \E j \in Job : Ask(j) \/ Acquire(j) \/ Complete(j) \/ Disconnect(j)

PoolSpec == PoolInit /\ [][PoolNext]_poolVars

\* Logins get their turn: nothing is assumed of the work of api keys, nor of
\* callers.
PoolFairness ==
  \A j \in LoginJob : WF_poolVars(Acquire(j)) /\ WF_poolVars(Complete(j))

----------------------------------------------------------------------------
(* Properties *)

\* "at most one bcrypt per available core runs at a time for each budget", also
\* when the callers of running work are gone.
OneHashPerCore ==
  /\ Cardinality(hashing \cap LoginJob) <= Cores
  /\ Cardinality(hashing \cap KeyJob) <= Cores

\* "a flood of one kind waits behind itself": the bcrypt of a login that waits
\* runs, or its caller leaves, even if api key work never ends.
LoginsGetTheirTurn == \A j \in LoginJob : Waits(j) ~> ~Waits(j)

\* The pool keeps to its cores and still serves every login that waits.
PoolServes == []OneHashPerCore /\ LoginsGetTheirTurn
=============================================================================
