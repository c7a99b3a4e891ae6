--------------------------- MODULE AttemptBudget ---------------------------
(***************************************************************************)
(* What a failure budget promises, without entries, locks or wakeups: a    *)
(* client has MaxAttempts tokens. A strict attempt needs a free token to   *)
(* begin and holds it while it runs; an attempt that fails turns its token *)
(* into a spent one, which comes back when the failure lapses (it leaves   *)
(* the window, or the limiter forgets it to stay bounded). A lenient       *)
(* attempt runs without a token and can still spend one.                   *)
(***************************************************************************)
EXTENDS Integers, FiniteSets

CONSTANTS Attempt,      \* the attempts that are ever made
          Client,       \* the keys attempts are counted under
          MaxAttempts   \* how many failures a client has within the window

VARIABLES running,      \* running[c]: the strict attempts of c that hold a token
          spent         \* spent[c]: the failures of c that count

vars == <<running, spent>>

TypeOK == /\ running \in [Client -> SUBSET Attempt]
          /\ spent \in [Client -> SUBSET Attempt]

Init == /\ running = [c \in Client |-> {}]
        /\ spent = [c \in Client |-> {}]

Begin(a, c) ==
  /\ Cardinality(running[c]) + Cardinality(spent[c]) < MaxAttempts
  /\ running' = [running EXCEPT ![c] = @ \cup {a}]
  /\ UNCHANGED spent

\* The attempt succeeded, or was dropped: its token is free again.
Return(a, c) ==
  /\ a \in running[c]
  /\ running' = [running EXCEPT ![c] = @ \ {a}]
  /\ UNCHANGED spent

\* The token passes straight to the failure.
Fail(a, c) ==
  /\ a \in running[c]
  /\ running' = [running EXCEPT ![c] = @ \ {a}]
  /\ spent' = [spent EXCEPT ![c] = @ \cup {a}]

FailUnreserved(a, c) ==
  /\ a \notin running[c]
  /\ spent' = [spent EXCEPT ![c] = @ \cup {a}]
  /\ UNCHANGED running

Lapse ==
  /\ spent' \in [Client -> SUBSET Attempt]
  /\ \A c \in Client : spent'[c] \subseteq spent[c]
  /\ UNCHANGED running

\* The process restarts: budgets are kept in memory only.
Restart ==
  /\ running' = [c \in Client |-> {}]
  /\ spent' = [c \in Client |-> {}]

Next == \/ \E a \in Attempt, c \in Client :
             \/ Begin(a, c)
             \/ Return(a, c)
             \/ Fail(a, c)
             \/ FailUnreserved(a, c)
        \/ Lapse
        \/ Restart

Spec == Init /\ [][Next]_vars
=============================================================================
