# Verification of moghtech/lib

TLA+ models of [moghtech/lib](../src/README.md): the failure rate limiter,
second factors, logins and sessions, external providers, workload identity and
token exchange, request authentication, accounts, and the libraries below them
(caches, files, configuration, client addresses, connections, browser tokens).
TLC checks each on small instances; TLAPS proves the safety of the limiter,
second factors and their enrollment, login sessions, the caches, workload
identity, request authentication, accounts, providers, token exchange, client
addresses, secret files, the session store and the tokens of a browser for
every number of clients, requests, writers, hops and tabs, and every limit.

## The system

A collection of Rust libraries around an embedded authentication API
(`auth/server`), its clients and web server utilities (`crates/`). An app
implements `AuthImpl` (storage, configuration) and serves the routes; every
request is a tokio task that can be dropped at any await when its client
disconnects.

| Component | State | Operations | What makes it hard |
|---|---|---|---|
| `crates/rate_limit` | a map from client to entry (failures in a window, attempts in flight, a `Notify`) | lenient and strict limit around a future, cleanup task, eviction when full | map lock, entry lock and wakeups are separate; futures are dropped; entries are removed while attempts run |
| `auth/server/api/login/totp.rs` | per-user failures, codes in flight, recovery code mutex; accepted TOTP steps | begin, end or drop of an attempt, sweep, TOTP check, recovery code removal | several awaits under a mutex that lives in a map whose entries come and go; restarts |
| `auth/server/session.rs` and the login routes | login steps and enrollments on the session record | begin and complete every kind of login, link and enrollment | every request works on its own copy of the whole record and writes it back; cookies can be planted or shared |
| `auth/server/provider/load_cache.rs` | entries by key with a value, its configuration and the last failure; one loading lock per key | load, evict, retain | callers wait on each other; configurations change; evict drops a lock that is held |
| `auth/server/provider/workload.rs`, `api/manage/issuer.rs` | rule and issuer locks; issuers and users of rules in storage | token exchange against updates of an issuer | two-level locks in maps, requests dropped while they hold them |
| `auth/server/api/token.rs`, `provider/token_exchange.rs` | none | ask providers and issuers about a token, match rules, answer | many outcomes to rank, patterns and claim paths |
| `auth/server/middleware.rs`, `provider/jwt.rs` | none (clock, keys) | authenticate a request by JWT, API key or signature | timestamps checked before a slow body |
| `auth/server/api/manage/*`, `api/login/local.rs`, `api/external.rs` | the app's storage | sign up, link, rename, enroll, keys, providers | check and act in separate calls |
| `auth/server/bcrypt_pool.rs` | two semaphores | run bcrypt under a permit | permits outlive dropped callers |
| `crates/server` | memory session store; header timer of a connection | create, save, load, delete; sweep and eviction; bytes in reads | bound and eviction order, saves after eviction; frames split anywhere |
| `crates/cache` | maps of shared handles | get_lock, remove, retain, prune | handles against removal |
| `crates/secret_file` | the file system | atomic replace, write in place | crash between steps, links |
| `crates/request_ip`, `crates/config` | none | client IP from headers, configuration from files | algorithms on inputs of others |
| `auth/client/ts/tokens.ts` | localStorage, shared by tabs | add, change, remove, read, subscribe | reads before events, failing storage |
| `crates/pki`, `encryption`, `error`, `logger`, `resolver`, `validations`, clients, UI, example | - | - | cryptography, formatting, glue |

They interact through calls: the login routes run under the rate limiter, a
second factor code passes the session's attempt count, then the limiter, then
the user's own budget; external logins and token exchanges use the provider
clients and keys of the load cache; all logins meet in the session record, and
their JWTs in request authentication, whose users and login times guard the
management API. `PROJECT.json` lists every component, what is left out and
why, and the hazards with their lines.

## Modules

| Module | Models | Checked by |
|---|---|---|
| `AttemptBudget` | abstract: what a failure budget promises, without entries, locks or wakeups | `MCRateLimiter`, `MCSecondFactor` |
| `RateLimiter`, `RateLimiterProofs` | `crates/rate_limit`, and theorems about it | `MCRateLimiter` |
| `SecondFactor`, `SecondFactorProofs` | `auth/server/src/api/login/totp.rs`, and theorems | `MCSecondFactor` |
| `LoginSession`, `LoginSessionProofs` | `auth/server/src/session.rs` and the routes that use it, and theorems | `MCLoginSession` |
| `WorkloadIdentity`, `WorkloadIdentityProofs` | `provider/workload.rs`, `api/manage/issuer.rs`, the end of `api/token.rs`, and theorems | `MCWorkloadIdentity` |
| `LoadCache`, `HandleCache`, `BcryptPool`; `LoadCacheProofs`, `CachesProofs` | `provider/load_cache.rs`, `crates/cache`, `bcrypt_pool.rs`; theorems about the first, and about the other two | `MCCaches` |
| `TokenExchange`, `ClientIp`, `Config`, `HeaderTimeout` | `api/token.rs` and `provider/token_exchange.rs`, `crates/request_ip`, `crates/config`, `crates/server/src/timeout.rs` | `MCInputs` |
| `RequestAuth`, `Accounts`, `Enrollment`, `ExternalProviders` | `middleware.rs` and `provider/jwt.rs`; sign up, links and keys; `api/manage/totp.rs` and `passkey.rs`; `api/manage/provider.rs`, `provider/external.rs` and `oidc.rs` | `MCServices` |
| `ServicesProofs` | theorems about `RequestAuth`, `Accounts`, `ExternalProviders`, `SessionStore`, `LoginTokens`, `ClientIp` and `TokenExchange`; those about `Enrollment` are in `SecondFactorProofs` | |
| `SecretFile`, `SecretFileProofs`, `SessionStore`, `LoginTokens` | `crates/secret_file` and theorems about it, `crates/server/src/session.rs`, `auth/client/ts/src/tokens.ts` | `MCServices` |

Definitions whose comment starts with `Mutant:` are altered versions of the
definition after them, the way a plausible bug would alter the code; no
specification uses them. They show that each property can fail. Where a
property is a conjunction of named parts (`LimiterConsistent`,
`EnrollmentsSound`, ...) the module has mutants for its parts.

`MCCaches`, `MCInputs` and `MCServices` check several components in one run.
These share no state, so the variable `part` picks one per behaviour, and the
others stay as they began.

### RateLimiter

One step per critical section. `map` is `RateLimiter::attempts`; an entry (an
`Arc<Entry>`) is named after the attempt that inserted it, so a removed entry
and its successor under the same key are different objects. `Held` is
`Arc::strong_count > 1`. A strict attempt goes `StartStrict` (get_or_insert
with make_room), `Arm` (the `Notified` future is created), `Reserve`, then
waits (`Wake`), is refused, or runs; it ends with `Release` (success, panic or
drop) or `Fail`, and `NotifyWaiters`. A lenient one goes `StartLenient`,
`Check`, `AttemptFails`, `LookUpAgain`, `RecordFailure`. `Cleanup` is the
background task. Failure times are kept as ages capped at the window.

### SecondFactor

`Begin` is `SecondFactorAttempts::begin` with its sweep, `End` is `end` from
either `SecondFactorAttempt::end` or its drop. Between them a TOTP code is
checked and its step consumed, or the recovery code mutex is locked, codes
are loaded, matched and removed. `Cancel` drops a request at any await: the
mutex guard goes first, the attempt is ended after it. `Restart` loses
process memory. The mutex of a user is named after the attempt that put the
user on the map. Storage is the weakest one the documentation of
`lock_recovery_codes` speaks of: it reads and writes back the whole list.
Both models refine `AttemptBudget`.

### LoginSession

tower_sessions is external and modelled from its use: a request loads the
record of its cookie at the first access, changes its copy, and the copy is
saved after the response if it was modified and the response is no server
error; `cycle_id` deletes the old record at once and the copy gets a new id
when it is saved; saving a deleted record brings it back. A session is named
after the request that created it, a login step after the request that passed
its first factor. Passkey and TOTP verification, the provider and the app's
answers are nondeterministic. `Plant` puts an id that was made without a
first factor into another browser. Requests run concurrently, step by step.

The actions are named after what the handlers do. `LoginLocal` and
`ExchangeExternal` check the first factor, `BeginLink` begins a link for a
user who is logged in, and `Elevate` cycles the id and inserts the step they
lead to. `BeginExternal`, `StartLink` and the
three callback actions (`CallbackRefused`, `LinkCallback`, `LoginCallback`)
are the provider round trip. `ExchangeForJwt`, `CompletePasskey` and
`CompleteTotp` consume a step. `Second` gives each user's enrolled second
factor, `Skipping` the users with `external_skip_2fa`.

### Enrollment

The enrollments in flight on the same kind of record, here of one cookie jar
with two users: `BeginEnrollment`, then `RetrieveEnrollment`,
`FinishPasskeyRegistration` or `CheckEnrollmentCode`, `StoreFactor`,
`ConsumeEnrollmentStep`, and `SaveRecord` by the session layer, against
`Unenroll`, TOTP logins, locks of usernames and disconnects. An enrollment is
the number of the request that began it.

### WorkloadIdentity

An exchange verifies its token against an issuer as it is stored
(`VerifyWorkload`), takes the issuer's read lock and the rule's mutex
(`HoldIssuer`, `AcquireIssuer`, `AcquireRule`), reads issuer and rule again,
finds and writes the user in two steps as the weakest app would, and drops its
locks. An update or deletion holds the issuer's write lock around its write
and the sync of users. Locks are objects in maps, named by key and generation;
the last holder takes the lock off the map (`DropHeld`). Requests are
cancelled at every await; a restart forgets the locks and syncs all issuers.

### LoadCache, HandleCache, BcryptPool

`LoadCache` is one key. A value is named after the call that loaded it, a
loading lock after the call that inserted it. `Begin` and `Recheck` are the
two calls of `cached`, with the lock between them. Evicting takes two steps as
in the code. A `valid_for` of `None` is a `ValidFor` the clock never reaches.
`HandleCache` has callers that follow the contract in `TimeoutCache`'s comment
against `remove` and `prune`. `BcryptPool` has two semaphores whose permits
belong to the blocking task, not to the caller who may disconnect.

### TokenExchange, ClientIp, Config, HeaderTimeout

Algorithms as operators, checked against what they mean: `GlobMatch`, which
takes each part of a pattern where it is first found, against some way to fill
the stars (`Denotes`: a cut of the value for each place of the pattern);
`LookupClaim`, which tries the names at the start of a path longest first,
against every way to read the path; `Furthest` and the answer of an exchange
against the outcomes of all that were asked, in the order of their places
(`asking`); `WalkForwardingHeader` against the hops a request really
took, `InNet` and whitelists against the form of an address, the order of
configuration files against the last path that names each, `OnRead` against
the bytes of a connection however they were split into reads. Characters,
addresses and frames are small: two letters, 2 and 4 bits, frames of a few
bytes, and a claim path has at most 3 parts (`MaxClaimPathParts`, 16 in the
code), so that a longer one is refused.

### RequestAuth, Accounts, ExternalProviders

`RequestAuth` follows one request from its headers over its body to the guard
of a management request; the clock, stored keys, users and the server's key
change between any two steps. Cryptography is perfect: a signature is what it
was made for. `Accounts` has up to three requests, each a sequence of calls of
the app's storage; the storage keeps usernames and public keys unique, as the
code asks of it, and nothing else. `ExternalProviders` has admins whose edits
interleave at the storage and a login on its way to a provider and back while
the providers change; group claims fail closed.

### SecretFile, SessionStore, LoginTokens

`SecretFile` has two writers of one path, an entry swapped by somebody else,
I/O errors and one crash: data is on disk when the file was synced, entries
when the directory was. `SessionStore` is `MemorySessionStore` under requests
that save sessions evicted meanwhile. `LoginTokens` are the tabs of a browser:
a call runs to its end within one tab, storage events come later.

## Runs

| Run | Instance | Shows |
|---|---|---|
| `rate_limiter` | 3 attempts, 2 clients, budget 2, window 2, room for 1 | entries in use stay on the map, no failure is lost, reservations are exact, the strict bound, refusals only from failures, the map outgrows its bound only when all entries are in use, refinement of `AttemptBudget`, every waiter answered |
| `second_factor` | 3 attempts, 2 users, 2 recovery codes, budget 2, 1 restart | single use of recovery codes and TOTP steps, removals are not undone, guesses bounded, one mutex per user, refinement of `AttemptBudget`, every attempt ends |
| `login_session` | 4 requests, 2 browsers, 2 at a time, planted cookies; external logins and links | session fixation: login steps, JWTs and links stay with the browser that began them |
| `login_sequential` | 4 requests, 1 browser, one at a time, time 0..1; password, token, callback, exchange, passkey and TOTP | second factor required; one JWT per login, attempts bounded, old logins die |
| `login_exchange_twice`, `login_kind` | one browser | violations: see Findings |
| `caches` | 3 calls, 2 configurations, 1 evict, time 0..2; 3 callers of 2 keys; 4 hashes on one core | own configuration only, loads shared, stale values bounded, failed source left alone, calls answered; an action never runs twice at once or again too soon; hashes within cores, logins not behind API keys |
| `workload` | 2 exchanges, 2 changes, a stored and a static issuer, 2 rule ids, 1 restart | access never outlives what an update left, the user found is current, removed ids stay removed, requests end |
| `inputs` | patterns and texts up to 4, all faults of a token, 2 providers and 2 issuers; 2 hops; 4 paths; short connections in every split | conditions match what they denote, answers rank outcomes and no exchange counts as a fresh login, the client cannot choose its address, file order, secrets never run, header deadline follows the bytes |
| `token_outcome` | the token part of `inputs` | violation: see Findings |
| `services` | one request; 3 account requests; 2 admins and a login; 2 writers and a crash; 2 requests on a store of 4 sessions; 2 tabs; 2 users enrolling | signatures hold for the request as sent, account changes need a recent login, checks bind effects, logins pass the provider they began with, secrets stay with their url, files whole and durable, eviction only for room and closest to expiry, tabs keep their user and hear of changes, enrollments are confirmed by who began them |
| `link_race` | the account part of `services` | violation: see Findings |

Why the bounds are enough: three attempts are one more than the budget of two,
so some attempt waits, is refused, or is the one that overtakes; two clients
with room for one make an eviction meet an entry in use and one that is not.
One restart separates two process lifetimes. Two browsers and four requests
are one planted session, one first factor, and one step by each side after it;
two at a time gives every interleaving of a pair of handlers. Three account
requests are a pair that race and one that changes what they read. The clocks
run just past the windows and ages, whose comparisons they decide.
`MaxTime`, `MaxEvicts`, `MaxRestarts`, `MaxConcurrent`, `MaxUsers`,
`MaxChanges`, `MaxDraws`, `MaxAtOnce`, `Plans`, `Batches`, `Agendas` and the
`Last...` instants are bounds of the models, not of the code. `Plans`,
`Batches` and `Agendas` are sets of requests chosen so that they touch each
other's state. `MCSecondFactor` numbers attempts and users in the order they
come up (`InOrder`) and lets a third attempt come only if all are for one
user, with one recovery code and no restart (`Bounded`). Deadlock is not
checked: all requests may be done.

Symmetry is used only in runs without liveness properties. The attempts of a
login (`login_sequential`) are stated one request at a time because the code
documents that concurrent requests write back the record whole
(`session.rs:319`); what bounds guesses then is `AttemptsConsistent`. For the
same reason "a refused one has to be started again" (`RefusedStartsAgain`) is
stated where requests do not overlap.

### Fairness

* `RateLimiter`: each attempt's own steps are weakly fair (tokio polls woken
  tasks), a reserved attempt ends (its future is a bounded check or its
  request is dropped), and time passes. Starting attempts, lenient outcomes
  and cleanup are not fair.
* `SecondFactor`, `LoadCache`: each request's own steps. For a load this
  rests on `LOAD_TIMEOUT`; locking is weakly fair only, and enough because
  the number of requests is finite.
* `BcryptPool`: a login's hash gets a free permit and ends. API keys need not.
* `WorkloadIdentity`: each request's own steps, with the fair queues of
  tokio's locks (`Granted`), and the sync at start.

### Findings

* `login_exchange_twice`: `session.rs:138` says a completed login "can only be
  exchanged for a JWT once". Two overlapping `ExchangeForJwt` requests both
  load the record before either is saved, and both get a JWT. One at a time
  the property holds (`login_sequential`). The JWTs are of the same login and
  go to the same browser (`OutcomeToBeginner`).
* `login_kind`: `session.rs:278` says a stale login kind never labels the next
  login. A session can hold a pending passkey login and a pending TOTP login
  but one `LOGIN_KIND`: beginning the second one relabels the first.
* `token_outcome`: `api/token.rs:27` says a rejected token is answered as
  temporarily unavailable if another provider or issuer of its issuer could
  not be loaded. Between a login provider that rejects and a trusted issuer
  that could not be loaded, the rejection is answered.
* `link_race`: `api/external.rs:725` means to "ensure there are no other
  existing users with this login linked"; two callbacks both look before
  either links.

Smaller things the models show, which nothing in the repository denies: two
creates that race for one slug are both stored and listing hides one; two
first sign-ups at once are both told that no user exists; `delete_signing_key`
checks the owner in a call before the deletion; a call that finds a directory
another call just made does not sync that directory's own entry; between
storing an enrolled TOTP and consuming its step, the code can log in
(`CodeNotReplayed` is stated for enrollments that were answered), and of two
overlapping confirms of one enrollment the later one's recovery codes count.

## Proofs

Each component has an inductive invariant of its own, kept by one lemma per
action, and its theorems follow from it. A theorem holds for every value of the
constants that satisfies the module's `ASSUME`, which TLC evaluates on the
instances of the runs; the bounds of the models (`MaxTime`, `MaxEvicts`, ...)
are arbitrary too. The inductive invariants were model-checked first.

| Theorem | Property | Module |
|---|---|---|
| `LimiterStaysConsistent`, with `TypeCorrect`, `HeldEntriesStayMapped`, `FailuresAreKept`, `ReservationsAreExact` for its parts | `LimiterConsistent` | `RateLimiterProofs` |
| `StrictFailuresBounded`, `RefusalMeansSpent`, `RoomUnlessInUse` | `StrictBound`, `RefusedOnlyWhenSpent`, `OverFullOnlyInUse` | |
| `ImplementsBudget` | `BudgetSpec`: it refines `AttemptBudget` | |
| `AttemptsStayConsistent`, `RecoveryCodesUsedOnce`, `TotpStepUsedOnce` | `AttemptsConsistent`, `CodesStayUsed`, `TotpStepOnce` | `SecondFactorProofs` |
| `ImplementsBudget` | `BudgetSpec`: it refines `AttemptBudget` | |
| `EnrollmentIsSound` | `EnrollmentsSound` | |
| `PrivateSteps`, `OutcomesGoHome`, `SecondFactorNeeded`, `OldLoginsDie` | `StepsArePrivate`, `OutcomeToBeginner`, `SecondFactorRequired`, and `StaleLoginsDie` of `LoginsRunOut` | `LoginSessionProofs` |
| `LoginsRunOutPerBrowser`, `SequentialLoginsRunOut` | `LoginsRunOut`, when no browser sends a request before its last is over | |
| `Consistency`, `OwnConfigurationOnly`, `OutageBounded` | `CacheConsistent`, `OwnConfiguration`, `SourceOutage` | `LoadCacheProofs` |
| `ActionsRunAlone`, `HashesWithinCores` | `NoRapidFire`, and `OneHashPerCore` of `PoolServes` | `CachesProofs` |
| `FoundStaysCurrent`, `AccessIsTheRules`, `RemovedIdsAreGone` | `FoundIsCurrent`, `AccessFollowsRule`, `RemovedIdsStayRemoved` | `WorkloadIdentityProofs` |
| `SignaturesAreForTheRequest`, `AccountChangesNeedLogin` | `SignedAsSent`, `AccountNeedsRecentLogin` | `ServicesProofs` |
| `ChecksBind` | `ChecksBindEffects` | |
| `LoginsPass` | `LoginsPassTheirProvider` | |
| `ProvidersStaySound`, with `SecretsStayWithUrl`, `SlugsStayValid` for its parts | `StoredProvidersSound` | |
| `ClientIpsAreTheirs` | `ClientIpIsTheirs` | |
| `ConditionsMatchMeanings`, `ExchangesAnswerRight` | `ConditionsMeanPatterns`, `ExchangeAnswers` | |
| `DeadlinesFollowBytes` | `DeadlineFollowsBytes` | |
| `SessionsAreKept` | `StoreKeepsSessions` | |
| `TabsConsistent` | `TabsStayConsistent` | |
| `SecretsSurvive` | `WritesSurvive` | `SecretFileProofs` |

### RateLimiterProofs

None of the invariants is inductive alone. `StrictBound` counts failures by
attempt, while `Reserve` counts what is on the entry it holds: the two agree
only if that entry is the one on the map, holds all failures of its client
that count and none of another. `Shape` says this: entries and clients are
one to one (`MapInjective`), an entry name is unused until its attempt
inserts it and every program counter fixes what its attempt holds
(`PcConsistent`), entries off the map are empty (`UnmappedEmpty`), held
entries are mapped (`HeldIsMapped`), and failures are on their own client's
entry (`OwnFailures`, `NoLostFailure`). `Shape` is inductive by itself; the
lemmas on `GetOrInsert` carry eviction. `IInv` adds the two counting
invariants, kept by `CountReserve` and `CountGiveBack`, where an element
moves between the finite sets that are counted. That the map outgrows its
bound only in use (`RoomUnlessInUse`) counts the clients an eviction leaves:
if they still fill the map, the eviction took all it could.

### SecondFactorProofs

`Shape` ties the attempts map to the requests on it with exact counts: a user
leaves the map only when `in_flight` is zero, so the mutex of a user with an
attempt under way is unique, so whoever holds it is alone. `Codes` then says
what is known of the stored list while the mutex is held (a code matched is
still on it, a list loaded is the list stored), and `Totp` what
`ACCEPTED_TOTP_STEPS` remembers of accepted steps.

`EnrollInv` follows an enrollment from the request that began it over the
session record, the copies other requests write back, and the request that
confirms it, to the app. Whatever any of them holds was begun for that kind of
factor (`HoldsBegun`); only a confirm whose user began it, and was not locked
when it was sent, goes on to store it (`ConfirmOK`). What was refused to a
request without others at the same time is on no record and with no request
any more (`AloneOK`, `GoneOK`), so no write back revives it; and the code of a
confirm that was answered is at most the latest step the user's codes were
accepted for (`CodeOK`).

### LoginSessionProofs

The invariant says of every place a login step can be (a stored record, a
request's copy, the step a request took, the JWT it answers with) whose step
it is. A session id made by a request other than `begin` is known to that
request's browser only; one made by `begin` can be planted and holds no
passed step. What a record may hold is bounded by sets of requests that only
grow, so that an old copy written back is covered too.

`LoginsRunOut` is false for overlapping requests of one browser (see
Findings), so it is proved from the hypothesis `OneAtATime`: no browser sends
a request before its last one is over. Browsers still interleave step by step,
with planted cookies, lost records and dropped requests; `MaxConcurrent = 1`,
the instance of `login_sequential`, implies it. `OnceInv`: a login is on one
record only and was not answered with (`SolePlace`); what a request works on is
on no record but the one its id names, and its answer takes it off (`WorkOK`);
refused codes are at most those the record counts. A request of another
browser is no danger, because `IInv` says whose logins it may work on.

### LoadCacheProofs, CachesProofs

`LoadCache`: `Shape` says who holds which lock and whose value and failure
the entry keeps; `FewOffMap` counts the locks in use that evicts took off the
map, at most one for each. `TimeoutCache`: handles are of the entry on the
map, keys share none, an entry's lock names the one caller past it, and the
map has the time of the key's last action unless that is older than anybody
reuses; a pigeonhole argument gives `get_lock` a new entry. `BcryptPool`: the
permits of a budget are exactly its hashes that run.

### WorkloadIdentityProofs

`LockInv`: whoever works under a lock holds the object the map has for its
key, although locks leave the maps with their last holder and come back;
writers are alone, queues hold who waits. It needs the step of every request
with the locks it holds (`RequestOK`), for requests dropped at any await.
`DataInv`: what was read under the locks is still so (`RuleIsCurrent`,
`FoundIsCurrent`), users follow their rules except where a sync is pending or
failed (`Follows`, `SyncPending`).

### ServicesProofs

These parts hold no locks over their calls of the app, so each invariant
carries what an early step checked to the step that relies on it: the
timestamp checked at the headers to the signature verified after the body
(`AuthInv`); what a request read of users to what it stores (`AccountsInv`);
the provider a login began with and the groups it was checked against to the
end of the login (`JourneysInv`); the urls that secrets were entered with,
over edits based on a provider changed since (`CatalogInv`). What `slugify`
returns is none or letters and digits joined by single hyphens, and such a
text is its own slug (`SlugifyIsValid`), so a slug an update takes from the
stored provider, and slugifies again, stays valid (`SlugsInv`).

`IpInv`: whatever a client wrote into a forwarding header, its last entries
name who sent the request to each proxy in turn (`EndsWithHops`). The walk
from the right ends at the last entry that is not a trusted proxy, and whether
an address is one is decided by its bits, IPv4 written as IPv6 included. The
lemmas about sequences (entries of several headers flattened, selected,
walked) need induction; the library's induction theorems take an operator, so
they follow from the least number that is a counterexample (`LeastNumber`,
from the well-foundedness of inclusion on finite sets).

`TokenInv`: what was presented, and what came of it so far. A candidate is
still to ask, or what it gets is in `got`, unless one failed (`AskedInTurn`);
while the issuers are asked, the rejection is the furthest any provider got
(`ProvidersReported`); whoever answers for a user accepted the token. That a
pattern matches what it means (`GlobMatchIsDenotes`) is an induction over its
stars: wherever some cut puts what precedes a star, the search has come there
with no more of the value taken (`CutIsFound`), so looking for the first
occurrence misses nothing; and the search gives a cut (`FoundIsCut`). That
`lookup_claim` misses no way to read a path is an induction on the number of
parts left (`FoundIsReached`).

`TimeoutInv`: while no read failed, the protocol and the deadline are those
(`Follows`) of the bytes read, as a number of bytes of the stream they belong
to: so many of the preface, of a frame's header or of its payload, and what
`Owed` says of the frames whose headers, or ends, are among them. Each turn of
the loop takes a byte or more to a later such place (`TurnFollows`), whichever
part of the stream the read ends in, so after as many turns as a read has bytes
none is left (`OnReadFollows`, an induction on the turns). `Owed` changes only
where a header or a frame ends (`HeaderStarts`, `FrameEnds`), and is what the
property says of the same bytes (`OwedIs`).

`StoreInv`: ids are drawn once and the records are no more than `MaxSessions`.
A save by a request whose session was evicted meanwhile inserts it again, so
every insertion makes room first; the lemmas on `MakeRoom` count what a sweep
and then an eviction leave. `TabsInv`: a tab that is subscribed, has no event
on its way and missed none told its listeners what is stored.

### SecretFileProofs

A crash ends a behaviour, so the invariant is `Running` before it and
`WritesSurvive` after. `Running`: every file that can be seen at the path,
now or after a crash, is whole and synced unless it was written in place
(`Files`); and until somebody swaps the entry, all calls write it the same
way, in place or by rename, as the file system decides (`OneWay`). The second
part is what an Ok rests on: in place, the last to truncate left its contents
on disk; by rename, whatever entry the disk may have is at least as late as
every call that returned.

### Assumptions

`ConstantsAssumption` of `RateLimiter`, `SecondFactor`, `LoginSession` and
`LoadCache`, `CallersAssumption` and `JobsAssumption`: sets of clients,
requests and jobs are finite, durations and budgets are natural numbers,
`None` is no member. `NoneIsNoEntry`: no entry of the load cache is `None`
(an `Option`). `WorkloadIdentity`: exchanges are not changes, stored issuers
not static ones, the keys of the two lock maps are apart (two maps in the
code), bodies are issuers. `CredentialsAssumption`: headers parse to a
credential of their kind with times that are natural numbers.
`AccountsAssumption`: users are a list of records and a request names the
user it is for (the middleware found it). `ProvidersAssumption`: stored
providers are a list with every id once (ids are random, and the app's key).
`SlugsAssumption`: the slugs stored at first passed the same validation, or
are none, and names are text. `ClientIpAssumption`: a header is a list of
entries or no text at all, addresses and networks have the bits of their kind.
`ClaimsAssumption`: claims are objects within objects (`ObjectsWithin`), and a
claim is not the answer that there is none. `TokensAssumption`: patterns,
texts, paths and the lists of providers and issuers are lists, the times of
tokens are integers and the maximum age of a provider is a natural number.
`StreamsAssumption`: a stream is so many bytes that match the preface and a
list of frames with a length, and the preface and a frame header have a byte.
`StoreAssumption`: the bound and the share are positive, the expiry a natural
number. `EnrollAssumption`: plans are sequences of requests, shorter than the
number that stands for "not locked". `LoginTokens` needs none.
`FilesAssumption`: a directory that is missing holds no file, and a new file
can be given the identity of one this program made (same owner and mode);
it is `Original`, somebody else's file, whose identity may not be kept.

### Only model-checked

* Liveness (`WaitersAnswered`, `EveryAttemptEnds`, `CallsAnswered`,
  `RequestsEnd`, and `LoginsGetTheirTurn` of `PoolServes`): fairness is out of
  the prover's reach.
* `OrderOfPathsDecides`, `SecretsNeverRun`: the algorithms of `Config` are
  `RECURSIVE` operators over directories and values, which the prover does not
  accept.

## Not modelled

About half of the lines under `auth` and `crates` are tests, and much of the
rest is documentation, request and response types and messages. What changes
no state and decides nothing is left out: wording, headers, logging, error
formats (`crates/error`, `crates/logger`), deserialization of configuration
values (`lenient.rs`), cryptography, discovery and HTTP (`crates/pki`,
`crates/encryption`, libraries), `AuthImpl`'s documented calls (the
environment of the models), routers, static files, UI and example. Within the
modelled parts: quoting in env files and interpolation of keys in `Config`;
the rate limiter's client key and the remaining attempts in its answers;
`CloneCache`, `CloneVecCache` and `SetCache`, whose operations are one
critical section each; `CreateApiKey` and `UpdateExternalSkip2fa`, single
calls of the app; redirects; the cache of provider clients beyond `LoadCache`.

## Plan

Every safety property whose module does not recurse is proved. What is left:

1. `Config`: its recursion as recursive functions, as in `TokenExchange` and
   `HeaderTimeout`, and induction by `LeastNumber` over files and values.
2. The parts in `PROJECT.json` that are `partly` modelled: the HTTP exchanges
   of the named providers, and `UpdateExternalSkip2fa` against logins.
