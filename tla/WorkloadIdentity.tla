------------------------- MODULE WorkloadIdentity -------------------------
(***************************************************************************)
(* Workload identity: exchanges get or create the user of the rule their   *)
(* token matches, while admins update and delete the trusted issuers       *)
(* (auth/server/src/provider/workload.rs, api/manage/issuer.rs and         *)
(* complete_workload of api/token.rs). Exchanges of a rule are serialized  *)
(* by a mutex, and a reader-writer lock of the issuer holds them off while *)
(* the issuer changes. Both kinds of lock live in maps, and only as long   *)
(* as somebody uses them.                                                  *)
(*                                                                         *)
(* The app's storage keeps the issuers and the users of their rules. The   *)
(* app finds, then writes the user of a rule in separate steps, as the     *)
(* documentation of get_or_create_workload_user warns apps not to.         *)
(***************************************************************************)
EXTENDS Naturals, Sequences, FiniteSets, SequencesExt

CONSTANTS Exchange,    \* token exchanges
          Change,      \* requests of admins
          Stored,      \* ids of issuers the app may store
          Static,      \* ids of issuers of the configuration
          Id,          \* rule ids (validate_provider_id accepts them)
          BadId,       \* a rule id it does not
          Body,        \* what an admin may save an issuer as
          Configured,  \* what the configuration may say of a static issuer
          MaxRestarts, \* bound on restarts of the process
          None

Request == Exchange \cup Change
Issuer == Stored \cup Static

\* A rule: whether it is enabled, makes its user an admin, and the exchanges
\* whose claims meet its conditions ({} without any).
RuleRecord == [id : Id \cup {BadId}, enabled : BOOLEAN, admin : BOOLEAN,
               claims : SUBSET Exchange]

\* verify stands for what tokens are verified with: issuer url, keys,
\* audiences and maximum age.
IssuerRecord == [enabled : BOOLEAN, verify : Nat, rules : Seq(RuleRecord)]

Key == Issuer \cup (Issuer \X Id)      \* of issuer_locks and rule_locks
Lock == Request \X {"issuer", "rule"}  \* a lock is named after who inserted it

ASSUME ConstantsAssumption ==
  /\ Exchange \cap Change = {} /\ Stored \cap Static = {} /\ BadId \notin Id
  /\ Body \subseteq IssuerRecord /\ Configured \subseteq IssuerRecord
  /\ Issuer \cap (Issuer \X Id) = {}  \* the keys of two maps
  /\ MaxRestarts \in Nat
  /\ None \notin Issuer \cup Lock \cup IssuerRecord \cup RuleRecord

VARIABLES issuers,   \* the issuers, stored and configured
          users,     \* the users of rules
          usedIds,   \* rule ids that were ever generated
          unsynced,  \* issuers whose last update did not sync the users
          starting,  \* issuers to sync before the app serves requests
          restarts,
          locks,     \* issuer_locks and rule_locks
          holders,   \* who holds a lock
          queue,     \* who waits for it, in order (tokio locks are fair)
          pc, read   \* of a request: what it does next, and what it has read

storage == <<issuers, users, usedIds, unsynced>>
process == <<starting, restarts>>
lockVars == <<locks, holders, queue>>
vars == <<storage, process, lockVars, pc, read>>

PC == {"idle", "issuerLock", "waitIssuer", "waitRule", "current", "find",
       "write", "issue", "update", "sync", "dropRule", "dropIssuer",
       "dropRuleThenIssue", "dropIssuerThenIssue", "done"}

\* Of an exchange: the issuer and rule it verified the token with, then the
\* rule as it is under the lock and the user it found. Of a change: the
\* issuer and what it is to be (None to delete it). Of both: the locks.
NoRead == [issuer |-> None, body |-> None, rule |-> None, found |-> None,
           issuerLock |-> None, ruleLock |-> None]

\* A user of a rule is an admin or not, enabled or not.
UserRecord == [admin : BOOLEAN, enabled : BOOLEAN]

TypeOK ==
  /\ issuers \in [Issuer -> IssuerRecord \cup {None}]
  /\ users \in [Issuer \X Id -> UserRecord \cup {None}]
  /\ usedIds \subseteq Id /\ unsynced \subseteq Issuer
  /\ starting \subseteq Issuer /\ restarts \in 0..MaxRestarts
  /\ locks \in [Key -> Lock \cup {None}]
  /\ holders \in [Lock -> SUBSET Request]
  /\ queue \in [Lock -> Seq(Request)]
  /\ pc \in [Request -> PC]
  /\ \A r \in Request :
       /\ read[r].issuer \in Issuer \cup {None}
       /\ read[r].body \in IssuerRecord \cup {None}
       /\ read[r].rule \in RuleRecord \cup {None}
       /\ read[r].found \in UserRecord \cup {None}
       /\ {read[r].issuerLock, read[r].ruleLock} \subseteq Lock \cup {None}

----------------------------------------------------------------------------
(* Rules and their access *)

IdsOf(issuer) == {issuer.rules[k].id : k \in DOMAIN issuer.rules}
RulesWith(issuer, id) ==
  {issuer.rules[k] : k \in {j \in DOMAIN issuer.rules : issuer.rules[j].id = id}}
Shared(issuer, id) ==
  Cardinality({k \in DOMAIN issuer.rules : issuer.rules[k].id = id}) > 1

\* The access of every rule of the issuer, by the id of the rule. Rules
\* without a valid id have none, rules that share an id a disabled one.
OfIssuer(issuer) ==
  [id \in IdsOf(issuer) \ {BadId} |->
     IF Shared(issuer, id) THEN [admin |-> FALSE, enabled |-> FALSE]
     ELSE LET rule == CHOOSE r \in RulesWith(issuer, id) : TRUE
          IN  [admin |-> rule.admin, enabled |-> issuer.enabled /\ rule.enabled]]

\* The app brings the users of the issuer in line with the access of its
\* rules: others are removed, none is created.
SyncWorkloadUsers(i, access) ==
  users' = [u \in DOMAIN users |->
              IF u[1] # i \/ users[u] = None THEN users[u]
              ELSE IF u[2] \in DOMAIN access THEN access[u[2]] ELSE None]

\* Whether the exchange's claims meet the rule.
Matches(rule, e) == rule.enabled /\ e \in rule.claims

\* The first matching rule of a list (of one for the second look).
MatchRule(rules, e) ==
  LET k == SelectInSeq(rules, LAMBDA rule : Matches(rule, e))
  IN  IF k = 0 THEN None ELSE rules[k]

CheckRuleId(issuer, rule) == rule.id # BadId /\ ~Shared(issuer, rule.id)

----------------------------------------------------------------------------
(* Locks *)

Exclusive(r, l) == l[2] = "rule" \/ r \in Change

\* The lock of the key, inserted if the map has none. The caller keeps it
\* and takes a place in its queue.
LockOf(r, key, kind) == IF locks[key] = None THEN <<r, kind>> ELSE locks[key]

\* A caller gets the lock when it is first in the queue and no holder
\* excludes it.
Granted(r, l) ==
  /\ queue[l] # <<>> /\ Head(queue[l]) = r
  /\ holders[l] = {} \/ ~(\E h \in holders[l] \cup {r} : Exclusive(h, l))

\* Whether anybody but the map holds the lock (Arc::strong_count).
InUse(l, held) == held[l] # {} \/ queue[l] # <<>>

\* Mutant: waiting callers do not count.
DropHeldEager(r, key, l) ==
  /\ holders' = [holders EXCEPT ![l] = @ \ {r}]
  /\ locks' = IF locks[key] # None /\ holders'[locks[key]] = {}
              THEN [locks EXCEPT ![key] = None] ELSE locks
  /\ UNCHANGED queue

\* The guard is dropped, and the map's entry with it if only the map holds
\* the lock there.
DropHeld(r, key, l) ==
  /\ holders' = [holders EXCEPT ![l] = @ \ {r}]
  /\ locks' = IF locks[key] # None /\ ~InUse(locks[key], holders')
              THEN [locks EXCEPT ![key] = None] ELSE locks
  /\ UNCHANGED queue

Goto(r, label) == pc' = [pc EXCEPT ![r] = label]
RuleKey(r) == <<read[r].issuer, read[r].rule.id>>
Serving == starting = {}

----------------------------------------------------------------------------
Init ==
  /\ \E conf \in [Static -> Configured] :
       issuers = [i \in Issuer |-> IF i \in Static THEN conf[i] ELSE None]
  /\ users = [u \in Issuer \X Id |-> None]
  /\ usedIds = (UNION {IdsOf(issuers[i]) : i \in Static}) \ {BadId}
  /\ unsynced = {} /\ starting = {} /\ restarts = 0
  /\ locks = [k \in Key |-> None]
  /\ holders = [l \in Lock |-> {}] /\ queue = [l \in Lock |-> <<>>]
  /\ pc = [r \in Request |-> "idle"] /\ read = [r \in Request |-> NoRead]

(* Exchanges *)

\* verify_workload: an enabled issuer verifies the token, the first rule the
\* claims match has a valid id of its own. Otherwise the exchange fails
\* without an effect and is left out.
VerifyWorkload(e) ==
  /\ Serving /\ pc[e] = "idle"
  /\ \E i \in Issuer :
       /\ issuers[i] # None /\ issuers[i].enabled
       /\ LET rule == MatchRule(issuers[i].rules, e)
          IN  /\ rule # None /\ CheckRuleId(issuers[i], rule)
              /\ read' = [read EXCEPT ![e] = [NoRead EXCEPT
                            !.issuer = i, !.body = issuers[i], !.rule = rule]]
  /\ Goto(e, "issuerLock")
  /\ UNCHANGED <<storage, process, lockVars>>

\* lock_workload_user: the issuer's lock for reading first.
HoldIssuer(e) ==
  LET l == LockOf(e, read[e].issuer, "issuer")
  IN  /\ pc[e] = "issuerLock"
      /\ locks' = [locks EXCEPT ![read[e].issuer] = l]
      /\ queue' = [queue EXCEPT ![l] = Append(@, e)]
      /\ read' = [read EXCEPT ![e].issuerLock = l]
      /\ Goto(e, "waitIssuer")
      /\ UNCHANGED <<storage, process, holders>>

\* Once granted, a place in the queue of the rule's lock.
AcquireIssuer(e) ==
  LET l == read[e].issuerLock
      k == LockOf(e, RuleKey(e), "rule")
  IN  /\ pc[e] = "waitIssuer" /\ e \in Exchange
      /\ Granted(e, l)
      /\ locks' = [locks EXCEPT ![RuleKey(e)] = k]
      /\ queue' = [queue EXCEPT ![l] = Tail(@), ![k] = Append(@, e)]
      /\ holders' = [holders EXCEPT ![l] = @ \cup {e}]
      /\ read' = [read EXCEPT ![e].ruleLock = k]
      /\ Goto(e, "waitRule")
      /\ UNCHANGED <<storage, process>>

AcquireRule(e) ==
  LET l == read[e].ruleLock
  IN  /\ pc[e] = "waitRule"
      /\ Granted(e, l)
      /\ queue' = [queue EXCEPT ![l] = Tail(@)]
      /\ holders' = [holders EXCEPT ![l] = @ \cup {e}]
      /\ Goto(e, "current")
      /\ UNCHANGED <<storage, process, locks, read>>

\* Mutant: the rule read before the lock is used.
CurrentRuleAsRead(e) == read[e].rule

\* The rule as it is now, None if the issuer no longer accepts tokens, what
\* it verifies them with changed, or the rule no longer matches.
CurrentRule(e) ==
  LET now == issuers[read[e].issuer]
  IN  IF now = None \/ read[e].issuer = None THEN None
      ELSE IF ~now.enabled \/ now.verify # read[e].body.verify THEN None
      ELSE LET k == SelectInSeq(now.rules, LAMBDA rule : rule.id = read[e].rule.id)
               rule == IF k = 0 THEN None ELSE MatchRule(<<now.rules[k]>>, e)
           IN  IF rule = None \/ Shared(now, read[e].rule.id) THEN None ELSE rule

ReadAgain(e) ==
  /\ pc[e] = "current"
  /\ IF CurrentRule(e) = None
     THEN Goto(e, "dropRule") /\ UNCHANGED read
     ELSE /\ Goto(e, "find")
          /\ read' = [read EXCEPT ![e].rule = CurrentRule(e)]
  /\ UNCHANGED <<storage, process, lockVars>>

\* get_or_create_workload_user: find the user ...
FindUser(e) ==
  /\ pc[e] = "find"
  /\ read' = [read EXCEPT ![e].found = users[RuleKey(e)]]
  /\ Goto(e, "write")
  /\ UNCHANGED <<storage, process, lockVars>>

\* ... then create it, enabled, or apply the rule to it. Or fail.
WriteUser(e) ==
  /\ pc[e] = "write"
  /\ \/ /\ users' = [users EXCEPT ![RuleKey(e)] =
              [admin |-> read[e].rule.admin,
               enabled |-> read[e].found = None \/ read[e].found.enabled]]
        /\ Goto(e, "dropRuleThenIssue")
     \/ Goto(e, "dropRule") /\ UNCHANGED users
  /\ UNCHANGED <<issuers, usedIds, unsynced, process, lockVars, read>>

\* drop(user_lock): the rule, then the issuer.
DropRule(e) ==
  /\ pc[e] \in {"dropRule", "dropRuleThenIssue"}
  /\ DropHeld(e, RuleKey(e), read[e].ruleLock)
  /\ Goto(e, IF pc[e] = "dropRule" THEN "dropIssuer" ELSE "dropIssuerThenIssue")
  /\ UNCHANGED <<storage, process, read>>

DropIssuer(r) ==
  /\ pc[r] \in {"dropIssuer", "dropIssuerThenIssue"}
  /\ DropHeld(r, read[r].issuer, read[r].issuerLock)
  /\ Goto(r, IF pc[r] = "dropIssuer" THEN "done" ELSE "issue")
  /\ read' = [read EXCEPT ![r] = IF pc[r] = "dropIssuer" THEN NoRead ELSE @]
  /\ UNCHANGED <<storage, process>>

\* The user is read again and must be enabled and no admin the rule doesn't
\* make it. Then the token is issued; no other state depends on it.
IssueToken(e) ==
  /\ pc[e] = "issue"
  /\ Goto(e, "done")
  /\ read' = [read EXCEPT ![e] = NoRead]
  /\ UNCHANGED <<storage, process, lockVars>>

----------------------------------------------------------------------------
(* Changes of issuers by admins *)

\* Mutant: rules keep the ids they are saved with.
KeepsAnyId(body, existing, k) == body.rules[k].id # BadId

\* A rule keeps the id it had on the existing issuer, the first with it.
KeepsId(body, existing, k) ==
  /\ existing # None /\ body.rules[k].id \in IdsOf(existing)
  /\ \A j \in 1..(k - 1) : body.rules[j].id # body.rules[k].id

\* The issuers a valid body may be stored as: other rules get new ids. The
\* ids left bound the model.
ValidateIssuer(body, existing) ==
  LET keeps == {k \in DOMAIN body.rules : KeepsId(body, existing, k)}
      new == DOMAIN body.rules \ keeps
      WithIds(ids) == [body EXCEPT !.rules = [k \in DOMAIN @ |->
                         IF k \in keeps THEN @[k] ELSE [@[k] EXCEPT !.id = ids[k]]]]
  IN  {WithIds(ids) : ids \in {f \in [new -> Id \ usedIds] : IsInjective(f)}}

\* create_issuer: no lock, the id of the issuer is new.
CreateIssuer(c) ==
  /\ Serving /\ pc[c] = "idle"
  /\ \E i \in Stored, body \in Body :
       /\ issuers[i] = None /\ \A u \in Id : users[<<i, u>>] = None
       /\ \E issuer \in ValidateIssuer(body, None) :
            /\ issuers' = [issuers EXCEPT ![i] = issuer]
            /\ usedIds' = usedIds \cup IdsOf(issuer)
  /\ Goto(c, "done")
  /\ UNCHANGED <<users, unsynced, process, lockVars, read>>

\* update_issuer and delete_issuer: the lock is taken first.
BeginChange(c) ==
  /\ Serving /\ pc[c] = "idle"
  /\ \E i \in Issuer, body \in Body \cup {None} :
       LET l == LockOf(c, i, "issuer")
       IN  /\ locks' = [locks EXCEPT ![i] = l]
           /\ queue' = [queue EXCEPT ![l] = Append(@, c)]
           /\ read' = [read EXCEPT ![c] = [NoRead EXCEPT
                         !.issuer = i, !.body = body, !.issuerLock = l]]
  /\ Goto(c, "waitIssuer")
  /\ UNCHANGED <<storage, process, holders>>

\* lock_trusted_issuer: the issuer's lock for writing.
AcquireForChange(c) ==
  LET l == read[c].issuerLock
  IN  /\ pc[c] = "waitIssuer" /\ c \in Change
      /\ Granted(c, l)
      /\ queue' = [queue EXCEPT ![l] = Tail(@)]
      /\ holders' = [holders EXCEPT ![l] = {c}]
      /\ Goto(c, "update")
      /\ UNCHANGED <<storage, process, locks, read>>

\* resolve_managed_issuer refuses unknown and static issuers.
Managed(i) == i \in Stored /\ issuers[i] # None

\* update_issuer: validated and stored. Until the sync that follows the users
\* are behind. Refused, or not stored, the lock is dropped.
UpdateIssuer(c) ==
  /\ pc[c] = "update" /\ read[c].body # None
  /\ \/ /\ Managed(read[c].issuer)
        /\ \E issuer \in ValidateIssuer(read[c].body, issuers[read[c].issuer]) :
             /\ issuers' = [issuers EXCEPT ![read[c].issuer] = issuer]
             /\ usedIds' = usedIds \cup IdsOf(issuer)
        /\ unsynced' = unsynced \cup {read[c].issuer}
        /\ Goto(c, "sync")
     \/ Goto(c, "dropIssuer") /\ UNCHANGED <<issuers, usedIds, unsynced>>
  /\ UNCHANGED <<users, process, lockVars, read>>

\* update_issuer: the users of its rules are synced, or the request fails.
Sync(c) ==
  /\ pc[c] = "sync"
  /\ \/ /\ SyncWorkloadUsers(read[c].issuer, OfIssuer(issuers[read[c].issuer]))
        /\ unsynced' = unsynced \ {read[c].issuer}
     \/ UNCHANGED <<users, unsynced>>
  /\ Goto(c, "dropIssuer")
  /\ UNCHANGED <<issuers, usedIds, process, lockVars, read>>

\* delete_issuer: the app removes the issuer and the users of its rules.
DeleteIssuer(c) ==
  /\ pc[c] = "update" /\ read[c].body = None
  /\ \/ /\ Managed(read[c].issuer)
        /\ issuers' = [issuers EXCEPT ![read[c].issuer] = None]
        /\ users' = [u \in DOMAIN users |->
                       IF u[1] = read[c].issuer THEN None ELSE users[u]]
     \/ UNCHANGED <<issuers, users>>
  /\ Goto(c, "dropIssuer")
  /\ UNCHANGED <<usedIds, unsynced, process, lockVars, read>>

----------------------------------------------------------------------------
(* Failures *)

\* A request is dropped while it waits for a lock: the place in the queue is
\* lost, the map's entry stays.
CancelWaiting(r) ==
  /\ pc[r] \in {"waitIssuer", "waitRule"}
  /\ LET l == IF pc[r] = "waitIssuer" THEN read[r].issuerLock ELSE read[r].ruleLock
     IN  \E k \in DOMAIN queue[l] :
           /\ queue[l][k] = r
           /\ queue' = [queue EXCEPT ![l] = RemoveAt(@, k)]
  /\ Goto(r, IF pc[r] = "waitIssuer" THEN "done" ELSE "dropIssuer")
  /\ read' = [read EXCEPT ![r] = IF pc[r] = "waitIssuer" THEN NoRead ELSE @]
  /\ UNCHANGED <<storage, process, locks, holders>>

\* Mutant: dropped, the request keeps its locks.
CancelKeepsLocks(r) ==
  /\ pc[r] \in {"current", "find", "write", "update", "sync"}
  /\ Goto(r, "done")
  /\ UNCHANGED <<storage, process, lockVars, read>>

\* A request is dropped while the app answers: the locks it holds are.
CancelHolding(r) ==
  /\ pc[r] \in {"current", "find", "write", "update", "sync"}
  /\ Goto(r, IF r \in Exchange THEN "dropRule" ELSE "dropIssuer")
  /\ UNCHANGED <<storage, process, lockVars, read>>

\* The process ends, and the configuration may be another when it is back.
\* Requests and locks are gone.
Restart ==
  /\ restarts < MaxRestarts /\ Serving
  /\ restarts' = restarts + 1
  /\ \E conf \in [Static -> Configured] :
       issuers' = [i \in Issuer |-> IF i \in Static THEN conf[i] ELSE issuers[i]]
  /\ starting' = {i \in Issuer : issuers'[i] # None}
  /\ locks' = [k \in Key |-> None]
  /\ holders' = [l \in Lock |-> {}] /\ queue' = [l \in Lock |-> <<>>]
  /\ pc' = [r \in Request |-> IF pc[r] = "idle" THEN "idle" ELSE "done"]
  /\ read' = [r \in Request |-> NoRead]
  /\ UNCHANGED <<users, usedIds, unsynced>>

\* sync_all_workload_users, which apps call when they start: the users of
\* every issuer. Nobody else has a lock yet.
SyncAllWorkloadUsers(i) ==
  /\ i \in starting
  /\ SyncWorkloadUsers(i, OfIssuer(issuers[i]))
  /\ starting' = starting \ {i}
  /\ unsynced' = unsynced \ {i}
  /\ UNCHANGED <<issuers, usedIds, restarts, lockVars, pc, read>>

----------------------------------------------------------------------------
ExchangeStep(e) == \/ HoldIssuer(e) \/ AcquireIssuer(e) \/ AcquireRule(e)
                   \/ ReadAgain(e) \/ FindUser(e) \/ WriteUser(e) \/ DropRule(e)
                   \/ DropIssuer(e) \/ IssueToken(e)
ChangeStep(c) == \/ AcquireForChange(c) \/ UpdateIssuer(c) \/ Sync(c)
                 \/ DeleteIssuer(c) \/ DropIssuer(c)

Next == \/ \E e \in Exchange : VerifyWorkload(e) \/ ExchangeStep(e)
        \/ \E c \in Change : CreateIssuer(c) \/ BeginChange(c) \/ ChangeStep(c)
        \/ \E r \in Request : CancelWaiting(r) \/ CancelHolding(r)
        \/ \E i \in Issuer : SyncAllWorkloadUsers(i)
        \/ Restart

Spec == Init /\ [][Next]_vars

\* The steps of a request that was begun are taken: the app answers, and
\* tokio polls tasks whose lock was granted. So does the app start.
FairSpec ==
  /\ Spec
  /\ \A e \in Exchange : WF_vars(ExchangeStep(e))
  /\ \A c \in Change : WF_vars(ChangeStep(c))
  /\ \A i \in Issuer : WF_vars(SyncAllWorkloadUsers(i))

----------------------------------------------------------------------------
(* Properties *)

\* Once the last update of an issuer was synced and while nobody changes it,
\* no user of its rules has access its rule does not give it now: no
\* exchange restores what an update took away, and none creates the user of
\* a rule that is gone (lock_workload_user, current_rule, of_issuer).
AccessFollowsRule ==
  \A i \in Issuer, id \in Id :
    LET user == users[<<i, id>>]
        changing == \E c \in Change : read[c].issuer = i /\ pc[c] = "sync"
    IN  user # None /\ i \notin unsynced \cup starting /\ ~changing =>
          /\ issuers[i] # None /\ id \in IdsOf(issuers[i])
          /\ user.admin => \A rule \in RulesWith(issuers[i], id) : rule.admin
          /\ user.enabled => /\ issuers[i].enabled /\ ~Shared(issuers[i], id)
                             /\ \A rule \in RulesWith(issuers[i], id) : rule.enabled

\* What an exchange found is still so when it writes: no other exchange of
\* the rule creates its user in between, and no update or deletion changes or
\* removes it. This is what the two locks are for (complete_workload).
FoundIsCurrent ==
  \A e \in Exchange : pc[e] = "write" => read[e].found = users[RuleKey(e)]

\* The id of a rule that was removed is never used again, so no rule takes
\* over the user of another (validate_issuer).
RemovedIdsStayRemoved ==
  [][\A i \in Issuer : i \in Stored /\ issuers'[i] # None =>
       \A id \in IdsOf(issuers'[i]) :
         id \in usedIds => issuers[i] # None /\ id \in IdsOf(issuers[i])]_vars

\* Every request that was begun ends, and with it its hold on the locks:
\* nobody waits forever, whoever is dropped (hold, Held::drop).
RequestsEnd ==
  \A r \in Request : pc[r] # "idle" ~> pc[r] = "done"
=============================================================================
