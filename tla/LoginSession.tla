---------------------------- MODULE LoginSession ----------------------------
(***************************************************************************)
(* The login steps kept on a session (auth/server session.rs) and the      *)
(* requests that put them there and take them off: LoginLocalUser,         *)
(* ExchangeExternalForJwt, the external login and link routes,             *)
(* ExchangeForJwt, CompletePasskeyLogin and CompleteTotpLogin (which       *)
(* CompleteTotpRecoveryLogin equals on the session).                       *)
(*                                                                         *)
(* tower_sessions is external. A request works on its own copy of the      *)
(* whole record, loaded at its first access; the layer writes the copy     *)
(* back after the response when it was modified and the response is not a  *)
(* server error; cycle_id deletes the old record at once and leaves the    *)
(* copy without an id, which then gets a new one when it is saved. Saving  *)
(* a record that was deleted meanwhile inserts it again. A cookie whose    *)
(* record is gone lingers in the browser.                                  *)
(*                                                                         *)
(* A request creates at most one session, which is named after it. A login *)
(* step on a record is the request that began it: its user, its kind, its  *)
(* time and the browser that sent it are that request's.                   *)
(***************************************************************************)
EXTENDS Integers, FiniteSets

CONSTANTS Request,        \* the requests that are sent
          Client,         \* browsers
          User,
          Second,         \* Second[u]: the user's second factor, or "none"
          Skipping,       \* the users with external_skip_2fa
          Ops,            \* the kinds of requests that are sent
          MaxConcurrent,  \* how many requests run at the same time
          MaxTotpAttempts,    \* Session::MAX_TOTP_LOGIN_ATTEMPTS
          CompletedAge,       \* Session::MAX_COMPLETED_LOGIN_AGE
          SecondFactorAge,    \* Session::MAX_SECOND_FACTOR_LOGIN_AGE
          LinkAge,            \* Session::MAX_EXTERNAL_LINK_AGE
          MaxTime,            \* bound on the clock
          None

\* Requests that pass a first factor, and those that begin something else.
FirstFactor == {"local", "token", "callback"}
AllOps == FirstFactor \cup
          {"begin", "beginLink", "startLink", "exchange", "passkey", "totp"}

ASSUME ConstantsAssumption ==
  /\ IsFiniteSet(Request)
  /\ Second \in [User -> {"none", "passkey", "totp"}]
  /\ Skipping \subseteq User
  /\ Ops \subseteq AllOps
  /\ MaxConcurrent \in Nat /\ MaxTotpAttempts \in Nat /\ MaxTime \in Nat
  /\ CompletedAge \in Nat /\ SecondFactorAge \in Nat /\ LinkAge \in Nat
  /\ None \notin Request \cup Client \cup User \cup {"local", "provider"}

VARIABLES
  store,     \* store[id]: the record in the session store, or None
  jar,       \* jar[c]: the session cookie of browser c, or None
  known,     \* known[c]: every session id browser c ever had
  now,
  pc, op, client, user,
  at,        \* when the request was sent; for a login or link, when it began
  sid,       \* the id of the request's session, None when it has none
  rec,       \* the request's copy of the record
  modified,  \* whether the copy is written back after the response
  taken,     \* the step the request took off, or works on
  kind,      \* the login kind the request took off
  jwt,       \* the login the response carries a JWT for, or None
  recorded,  \* history: <<login, kind>> passed to record_login
  issued,    \* history: <<login, request>> of every JWT that was answered
  refusals,  \* history: <<login, request>> of every answered refusal of a code
  linked     \* history: <<link, request>> of every external login linked

session == <<sid, rec, modified>>
history == <<recorded, issued, refusals, linked>>
vars == <<store, jar, known, now, pc, op, client, user, at, session, taken,
          kind, jwt, history>>

Kind == {"local", "provider"}
Record == [auth : Request \cup {None},     \* AUTHENTICATED_USER
           passkey : Request \cup {None},  \* PASSKEY_LOGIN
           totp : Request \cup {None},     \* TOTP_LOGIN
           attempts : 0..MaxTotpAttempts,  \* TOTP_LOGIN_ATTEMPTS
           kind : Kind \cup {None},        \* LOGIN_KIND
           ext : Request \cup {None},      \* EXTERNAL_LOGIN
           link : Request \cup {None}]     \* EXTERNAL_LINK
Empty == [auth |-> None, passkey |-> None, totp |-> None, attempts |-> 0,
          kind |-> None, ext |-> None, link |-> None]

PC == {"idle", "sent", "save", "verify", "elevate", "respond", "respondError",
       "done"}

TypeOK ==
  /\ store \in [Request -> Record \cup {None}]
  /\ jar \in [Client -> Request \cup {None}]
  /\ known \in [Client -> SUBSET Request]
  /\ now \in 0..MaxTime
  /\ pc \in [Request -> PC]
  /\ op \in [Request -> AllOps \cup {None}]
  /\ client \in [Request -> Client \cup {None}]
  /\ user \in [Request -> User \cup {None}]
  /\ at \in [Request -> 0..MaxTime]
  /\ sid \in [Request -> Request \cup {None}]
  /\ rec \in [Request -> Record]
  /\ modified \in [Request -> BOOLEAN]
  /\ taken \in [Request -> Request \cup {None}]
  /\ kind \in [Request -> Kind \cup {None}]
  /\ jwt \in [Request -> Request \cup {None}]
  /\ recorded \subseteq Request \X Kind
  /\ issued \subseteq Request \X Request
  /\ refusals \subseteq Request \X Request
  /\ linked \subseteq Request \X Request

Init ==
  /\ store = [i \in Request |-> None]
  /\ jar = [c \in Client |-> None]
  /\ known = [c \in Client |-> {}]
  /\ now = 0
  /\ pc = [r \in Request |-> "idle"]
  /\ op = [r \in Request |-> None]
  /\ client = [r \in Request |-> None]
  /\ user = [r \in Request |-> None]
  /\ at = [r \in Request |-> 0]
  /\ sid = [r \in Request |-> None]
  /\ rec = [r \in Request |-> Empty]
  /\ modified = [r \in Request |-> FALSE]
  /\ taken = [r \in Request |-> None]
  /\ kind = [r \in Request |-> None]
  /\ jwt = [r \in Request |-> None]
  /\ recorded = {} /\ issued = {} /\ refusals = {} /\ linked = {}

Goto(r, label) == pc' = [pc EXCEPT ![r] = label]

\* The kind of login a first factor request passes.
KindOf(r) == IF op[r] = "local" THEN "local" ELSE "provider"

\* Mutant: a login never expires.
AnyAge(begun, maxAge) == TRUE

\* is_within: at most maxAge before now.
IsWithin(begun, maxAge) == now - begun <= maxAge

----------------------------------------------------------------------------
(* The session layer *)

\* The record of the cookie, or a new session when there is none.
Loaded(r) == IF sid[r] = None THEN Empty
             ELSE IF store[sid[r]] = None THEN Empty ELSE store[sid[r]]

\* Loads the record and changes the copy; a cookie without a record leaves
\* the session without an id.
LoadAs(r, copy) ==
  /\ rec' = [rec EXCEPT ![r] = copy]
  /\ modified' = [modified EXCEPT ![r] = copy # Loaded(r)]
  /\ sid' = [sid EXCEPT ![r] = IF @ = None THEN None
                               ELSE IF store[@] = None THEN None ELSE @]

\* Only these requests are of a user by themselves: the others are of whom
\* the session says.
Send(r, c, o, u) ==
  /\ pc[r] = "idle"
  /\ (u # None) <=> (o \in FirstFactor \cup {"beginLink"})
  /\ Cardinality({q \in Request : pc[q] \notin {"idle", "done"}}) < MaxConcurrent
  /\ Goto(r, "sent")
  /\ op' = [op EXCEPT ![r] = o]
  /\ client' = [client EXCEPT ![r] = c]
  /\ user' = [user EXCEPT ![r] = u]
  /\ at' = [at EXCEPT ![r] = now]
  /\ sid' = [sid EXCEPT ![r] = jar[c]]
  /\ UNCHANGED <<store, jar, known, now, rec, modified, taken, kind, jwt, history>>

\* After the response: the copy is saved unless it is unmodified or the
\* response is a server error, and the browser gets the cookie (or the
\* response is lost on the way).
Respond(r) ==
  LET id == IF sid[r] = None THEN r ELSE sid[r]
      saves == modified[r] /\ pc[r] = "respond"
  IN  /\ pc[r] \in {"respond", "respondError"}
      /\ Goto(r, "done")
      /\ store' = IF saves THEN [store EXCEPT ![id] = rec[r]] ELSE store
      /\ \/ /\ saves
            /\ jar' = [jar EXCEPT ![client[r]] = id]
            /\ known' = [known EXCEPT ![client[r]] = @ \cup {id}]
         \/ UNCHANGED <<jar, known>>
      /\ issued' = IF jwt[r] = None THEN issued ELSE issued \cup {<<jwt[r], r>>}
      /\ refusals' = IF op[r] = "totp" /\ taken[r] # None /\ jwt[r] = None
                         /\ pc[r] = "respond"
                     THEN refusals \cup {<<taken[r], r>>} ELSE refusals
      /\ rec' = [rec EXCEPT ![r] = Empty]
      /\ sid' = [sid EXCEPT ![r] = None]
      /\ modified' = [modified EXCEPT ![r] = FALSE]
      /\ taken' = [taken EXCEPT ![r] = None]
      /\ kind' = [kind EXCEPT ![r] = None]
      /\ jwt' = [jwt EXCEPT ![r] = None]
      /\ UNCHANGED <<now, op, client, user, at, recorded, linked>>

\* The browser disconnects: the handler is dropped, nothing is saved.
Drop(r) ==
  /\ pc[r] \notin {"idle", "done"}
  /\ Goto(r, "done")
  /\ rec' = [rec EXCEPT ![r] = Empty]
  /\ sid' = [sid EXCEPT ![r] = None]
  /\ modified' = [modified EXCEPT ![r] = FALSE]
  /\ taken' = [taken EXCEPT ![r] = None]
  /\ kind' = [kind EXCEPT ![r] = None]
  /\ jwt' = [jwt EXCEPT ![r] = None]
  /\ UNCHANGED <<store, jar, known, now, op, client, user, at, history>>

\* A session id planted in a browser beforehand (a cookie of a sibling
\* subdomain): one that was not made by passing a first factor.
Plant(c, d) ==
  /\ jar[c] # None
  /\ op[jar[c]] = "begin"
  /\ jar[d] # jar[c]
  /\ jar' = [jar EXCEPT ![d] = jar[c]]
  /\ known' = [known EXCEPT ![d] = @ \cup {jar[c]}]
  /\ UNCHANGED <<store, now, pc, op, client, user, at, session, taken, kind, jwt,
                 history>>

\* The store expires or evicts a record.
Forget(i) ==
  /\ store[i] # None
  /\ store' = [store EXCEPT ![i] = None]
  /\ UNCHANGED <<jar, known, now, pc, op, client, user, at, session, taken, kind,
                 jwt, history>>

Tick ==
  /\ now < MaxTime
  /\ now' = now + 1
  /\ UNCHANGED <<store, jar, known, pc, op, client, user, at, session, taken, kind,
                 jwt, history>>

----------------------------------------------------------------------------
(* Passing a first factor *)

\* Mutant: passkeys are forgotten.
NeedsTotpOnly(r) ==
  /\ Second[user[r]] = "totp"
  /\ KindOf(r) = "local" \/ user[r] \notin Skipping

\* Whether the first factor continues with a second one: external logins may
\* be allowed to skip it (external_login_requires_two_factor).
NeedsSecondFactor(r) ==
  /\ Second[user[r]] # "none"
  /\ KindOf(r) = "local" \/ user[r] \notin Skipping

\* The request is refused, or fails on the server.
Refuse(r) == \E end \in {"respond", "respondError"} : Goto(r, end)

\* Once the credential was verified: a user without a second factor is
\* logged in, otherwise the session is loaded to begin it. Or the login is
\* refused.
FirstFactorPassed(r) ==
  /\ \/ /\ ~NeedsSecondFactor(r)
        /\ jwt' = [jwt EXCEPT ![r] = r]
        /\ recorded' = recorded \cup {<<r, KindOf(r)>>}
        /\ Goto(r, "respond")
        /\ UNCHANGED session
     \/ /\ NeedsSecondFactor(r)
        /\ LoadAs(r, Loaded(r))
        /\ Goto(r, "elevate")
        /\ UNCHANGED <<jwt, recorded>>
     \/ Refuse(r) /\ UNCHANGED <<session, jwt, recorded>>
  /\ UNCHANGED <<store, jar, known, now, op, client, user, at, taken, kind, issued,
                 refusals, linked>>

\* login_local_user
LoginLocal(r) ==
  pc[r] = "sent" /\ op[r] = "local" /\ FirstFactorPassed(r)

\* exchange_external_for_jwt
ExchangeExternal(r) ==
  pc[r] = "sent" /\ op[r] = "token" /\ FirstFactorPassed(r)

\* BeginExternalLoginLink: the session is loaded for the link.
BeginLink(r) ==
  /\ pc[r] = "sent" /\ op[r] = "beginLink"
  /\ \/ LoadAs(r, Loaded(r)) /\ Goto(r, "elevate")
     \/ Refuse(r) /\ UNCHANGED session
  /\ UNCHANGED <<store, jar, known, now, op, client, user, at, taken, kind, jwt,
                 history>>

\* insert_passkey_login, then insert_login_kind
WithPasskeyLogin(r, copy) == [copy EXCEPT !.passkey = r, !.kind = KindOf(r)]

\* insert_totp_login, then insert_login_kind
WithTotpLogin(r, copy) ==
  [copy EXCEPT !.totp = r, !.attempts = 0, !.kind = KindOf(r)]

\* insert_authenticated_user
WithCompleted(r, copy) == [copy EXCEPT !.auth = r]

\* insert_external_link
WithLink(r, copy) == [copy EXCEPT !.link = r]

\* What the request leaves on its session: a link, the second factor to
\* continue with, or a completed login.
WithStep(r, copy) ==
  CASE op[r] = "beginLink" -> WithLink(r, copy)
    [] op[r] # "beginLink" /\ ~NeedsSecondFactor(r) -> WithCompleted(r, copy)
    [] op[r] # "beginLink" /\ NeedsSecondFactor(r) ->
         IF Second[user[r]] = "passkey" THEN WithPasskeyLogin(r, copy)
                                        ELSE WithTotpLogin(r, copy)

\* Mutant: the session keeps its id.
KeepId(r) == UNCHANGED <<store, sid>>

\* Session::cycle_id
CycleId(r) ==
  /\ store' = IF sid[r] = None THEN store ELSE [store EXCEPT ![sid[r]] = None]
  /\ sid' = [sid EXCEPT ![r] = None]

\* cycle_id, then the step. An external login without a second factor was
\* recorded just before.
Elevate(r) ==
  /\ pc[r] = "elevate"
  /\ CycleId(r)
  /\ rec' = [rec EXCEPT ![r] = WithStep(r, rec[r])]
  /\ modified' = [modified EXCEPT ![r] = TRUE]
  /\ at' = [at EXCEPT ![r] = now]
  /\ recorded' = IF op[r] = "callback" /\ ~NeedsSecondFactor(r)
                 THEN recorded \cup {<<r, KindOf(r)>>} ELSE recorded
  /\ Goto(r, "respond")
  /\ UNCHANGED <<jar, known, now, op, client, user, taken, kind, jwt, issued,
                 refusals, linked>>

----------------------------------------------------------------------------
(* External logins and links *)

\* begin_external_login: insert_external_login, without a new id.
BeginExternal(r) ==
  /\ pc[r] = "sent" /\ op[r] = "begin"
  /\ LoadAs(r, [Loaded(r) EXCEPT !.ext = r])
  /\ Goto(r, "respond")
  /\ UNCHANGED <<store, jar, known, now, op, client, user, at, taken, kind, jwt,
                 history>>

\* A step l is taken off the session before anything else can fail; without
\* one the session stays unmodified.
TakeStep(r, l, copy) ==
  /\ \/ /\ l = None
        /\ LoadAs(r, Loaded(r))
        /\ Goto(r, "respond")
        /\ UNCHANGED taken
     \/ /\ l # None
        /\ LoadAs(r, copy)
        /\ taken' = [taken EXCEPT ![r] = l]
        /\ Goto(r, "save")
  /\ UNCHANGED <<store, jar, known, now, op, client, user, at, kind, jwt, history>>

\* retrieve_external_link
TakeLink(r) ==
  /\ pc[r] = "sent" /\ op[r] = "startLink"
  /\ TakeStep(r, Loaded(r).link, [Loaded(r) EXCEPT !.link = None])

\* retrieve_external_login
TakeLogin(r) ==
  /\ pc[r] = "sent" /\ op[r] = "callback"
  /\ TakeStep(r, Loaded(r).ext, [Loaded(r) EXCEPT !.ext = None])

\* ... and saved right away.
SaveTaken(r) ==
  /\ pc[r] = "save"
  /\ store' = [store EXCEPT ![sid[r]] = rec[r]]
  /\ Goto(r, "verify")
  /\ UNCHANGED <<jar, known, now, op, client, user, at, session, taken, kind, jwt,
                 history>>

\* external_link: check_age, the provider and the user, then
\* insert_external_login for the link, which is known by who began it.
StartLink(r) ==
  /\ pc[r] = "verify" /\ op[r] = "startLink"
  /\ \/ /\ IsWithin(at[taken[r]], LinkAge)
        /\ rec' = [rec EXCEPT ![r].ext = taken[r]]
        /\ Goto(r, "respond")
     \/ Refuse(r) /\ UNCHANGED rec
  /\ UNCHANGED <<store, jar, known, now, op, client, user, at, sid, modified, taken,
                 kind, jwt, history>>

\* external_callback up to the provider's answer: the state, the provider or
\* the code is not accepted.
CallbackRefused(r) ==
  /\ pc[r] = "verify" /\ op[r] = "callback"
  /\ Refuse(r)
  /\ UNCHANGED <<store, jar, known, now, op, client, user, at, session, taken, kind,
                 jwt, history>>

\* link_callback: the user who began the link can still link, and the login
\* is no one else's.
LinkCallback(r) ==
  /\ pc[r] = "verify" /\ op[r] = "callback" /\ op[taken[r]] = "beginLink"
  /\ linked' = linked \cup {<<taken[r], r>>}
  /\ Goto(r, "respond")
  /\ UNCHANGED <<store, jar, known, now, op, client, user, at, session, taken, kind,
                 jwt, recorded, issued, refusals>>

\* login_callback: the user is found or signed up, and the login goes on.
LoginCallback(r) ==
  /\ pc[r] = "verify" /\ op[r] = "callback" /\ op[taken[r]] = "begin"
  /\ Goto(r, "elevate")
  /\ UNCHANGED <<store, jar, known, now, op, client, user, at, session, taken, kind,
                 jwt, history>>

----------------------------------------------------------------------------
(* Completing a login *)

\* Mutant: the completed login is read, not taken.
KeepCompleted(copy) == copy

\* Session::take of AUTHENTICATED_USER
WithoutCompleted(copy) == [copy EXCEPT !.auth = None]

\* retrieve_authenticated_user_id: taken, whatever its age.
TakeCompleted(r) ==
  LET l == Loaded(r).auth
  IN  /\ pc[r] = "sent" /\ op[r] = "exchange"
      /\ LoadAs(r, WithoutCompleted(Loaded(r)))
      /\ \/ l = None /\ Goto(r, "respond") /\ UNCHANGED taken
         \/ /\ l # None
            /\ taken' = [taken EXCEPT ![r] = l]
            /\ Goto(r, IF IsWithin(at[l], CompletedAge) THEN "verify" ELSE "respond")
      /\ UNCHANGED <<store, jar, known, now, op, client, user, at, kind, jwt, history>>

\* take_login_kind: a missing kind counts as a local login.
TakenKind(copy) == IF copy.kind = None THEN "local" ELSE copy.kind

\* retrieve_passkey_login: taken with the kind, whatever its age.
TakePasskey(r) ==
  LET copy == Loaded(r)
      l == copy.passkey
  IN  /\ pc[r] = "sent" /\ op[r] = "passkey"
      /\ \/ /\ l = None
            /\ LoadAs(r, copy)
            /\ Goto(r, "respond")
            /\ UNCHANGED <<taken, kind>>
         \/ /\ l # None
            /\ LoadAs(r, [copy EXCEPT !.passkey = None, !.kind = None])
            /\ taken' = [taken EXCEPT ![r] = l]
            /\ kind' = [kind EXCEPT ![r] = TakenKind(copy)]
            /\ Goto(r, IF IsWithin(at[l], SecondFactorAge) THEN "verify" ELSE "respond")
      /\ UNCHANGED <<store, jar, known, now, op, client, user, at, jwt, history>>

\* complete_totp_login
WithoutTotp(copy) == [copy EXCEPT !.totp = None, !.attempts = 0, !.kind = None]

\* Mutant: one attempt too many.
ExhaustedLate(copy) == copy.attempts > MaxTotpAttempts

Exhausted(copy) == copy.attempts >= MaxTotpAttempts

\* Mutant: attempts are not counted.
NotCounted(copy) == copy

Counted(copy) == [copy EXCEPT !.attempts = @ + 1]

\* begin_totp_login_attempt: counted while it is young and has attempts
\* left, removed otherwise.
BeginTotpAttempt(r) ==
  LET copy == Loaded(r)
      l == copy.totp
  IN  /\ pc[r] = "sent" /\ op[r] = "totp"
      /\ \/ /\ l = None
            /\ LoadAs(r, copy)
            /\ Goto(r, "respond")
            /\ UNCHANGED taken
         \/ /\ l # None
            /\ \/ ~IsWithin(at[l], SecondFactorAge)
               \/ Exhausted(copy)
            /\ LoadAs(r, WithoutTotp(copy))
            /\ Goto(r, "respond")
            /\ UNCHANGED taken
         \/ /\ l # None
            /\ IsWithin(at[l], SecondFactorAge)
            /\ ~Exhausted(copy)
            /\ LoadAs(r, Counted(copy))
            /\ taken' = [taken EXCEPT ![r] = l]
            /\ Goto(r, "verify")
      /\ UNCHANGED <<store, jar, known, now, op, client, user, at, kind, jwt, history>>

\* The response carries a JWT for the login that was taken.
Answer(r) ==
  /\ Goto(r, "respond")
  /\ jwt' = [jwt EXCEPT ![r] = taken[r]]

\* ExchangeForJwt: the login was recorded at its callback.
ExchangeForJwt(r) ==
  /\ pc[r] = "verify" /\ op[r] = "exchange"
  /\ \/ Answer(r)
     \/ Refuse(r) /\ UNCHANGED jwt
  /\ UNCHANGED <<store, jar, known, now, op, client, user, at, session, taken, kind,
                 history>>

\* CompletePasskeyLogin: the passkey is verified and the login recorded.
CompletePasskey(r) ==
  /\ pc[r] = "verify" /\ op[r] = "passkey"
  /\ \/ Answer(r) /\ recorded' = recorded \cup {<<taken[r], kind[r]>>}
     \/ Refuse(r) /\ UNCHANGED <<jwt, recorded>>
  /\ UNCHANGED <<store, jar, known, now, op, client, user, at, session, taken, kind,
                 issued, refusals, linked>>

\* finish_totp_login: the code is accepted, the login taken off and recorded;
\* or it is refused, maybe by record_login once it was taken off.
CompleteTotp(r) ==
  LET without == [rec EXCEPT ![r] = WithoutTotp(rec[r])]
  IN  /\ pc[r] = "verify" /\ op[r] = "totp"
      /\ \/ /\ Answer(r)
            /\ recorded' = recorded \cup {<<taken[r], TakenKind(rec[r])>>}
            /\ rec' = without
         \/ /\ Refuse(r)
            /\ rec' \in {rec, without}
            /\ UNCHANGED <<jwt, recorded>>
      /\ UNCHANGED <<store, jar, known, now, op, client, user, at, sid, modified,
                     taken, kind, issued, refusals, linked>>

----------------------------------------------------------------------------
Handle(r) == \/ LoginLocal(r) \/ ExchangeExternal(r) \/ BeginLink(r) \/ Elevate(r)
             \/ BeginExternal(r) \/ TakeLink(r) \/ TakeLogin(r) \/ SaveTaken(r)
             \/ StartLink(r) \/ CallbackRefused(r) \/ LinkCallback(r)
             \/ LoginCallback(r)
             \/ TakeCompleted(r) \/ TakePasskey(r) \/ BeginTotpAttempt(r)
             \/ ExchangeForJwt(r) \/ CompletePasskey(r) \/ CompleteTotp(r)
             \/ Respond(r)

Next == \/ \E r \in Request :
             \/ \E c \in Client, o \in Ops, u \in User \cup {None} : Send(r, c, o, u)
             \/ Handle(r)
             \/ Drop(r)
             \/ Forget(r)
        \/ \E c, d \in Client : Plant(c, d)
        \/ Tick

Spec == Init /\ [][Next]_vars

----------------------------------------------------------------------------
(* Properties *)

\* The steps of a record that are worth something to whoever holds its id.
StepsOf(record) ==
  ({record.auth, record.passkey, record.totp, record.link} \cup
   {e \in {record.ext} : e # None /\ op[e] = "beginLink"}) \ {None}

\* Session fixation: a record that holds a passed first factor or a link is
\* only known to the browser that passed or began it, however its requests
\* interleave with others on the same cookie.
StepsArePrivate ==
  \A i \in Request : store[i] # None =>
    \A l \in StepsOf(store[i]), c \in Client : i \in known[c] => client[l] = c

\* A JWT only goes to the browser that passed the login's first factor.
JwtToLoginClient ==
  \A p \in issued : client[p[1]] = client[p[2]]

\* A second factor sent, or an exchange asked for, after the login's maximum
\* age gets no JWT, however the session was kept alive or written back.
StaleLoginsDie ==
  \A p \in issued : p[1] # p[2] =>
    at[p[2]] - at[p[1]] <=
      IF op[p[2]] = "exchange" THEN CompletedAge ELSE SecondFactorAge

\* A user with a second factor gets a JWT from completing that factor only,
\* except for an external login when the user may skip it.
SecondFactorRequired ==
  \A p \in issued :
    LET u == user[p[1]] IN
    Second[u] # "none" /\ (op[p[1]] = "local" \/ u \notin Skipping) =>
      op[p[2]] = Second[u]

\* An external login is linked to the user whose browser began the link.
LinkedByBeginner ==
  \A p \in linked : client[p[1]] = client[p[2]]

\* "it can only be exchanged for a JWT once"
ExchangedOnce ==
  \A p, q \in issued : p[1] = q[1] => p[2] = q[2]

\* At most MAX_TOTP_LOGIN_ATTEMPTS codes are refused for one first factor.
TotpAttemptsBounded ==
  \A l \in Request : Cardinality({p \in refusals : p[1] = l}) <= MaxTotpAttempts

\* The login is recorded with the kind of its own first factor.
KindOfOwnFirstFactor ==
  \A p \in recorded : p[2] = KindOf(p[1])

\* What a login or a link ends in goes to the browser that began it: the JWT
\* to the one that passed the first factor, the linked login to the account of
\* the one that asked for the link.
OutcomeToBeginner == JwtToLoginClient /\ LinkedByBeginner

\* Requests one at a time: a first factor is worth one JWT, a bounded number
\* of codes, and nothing after its time.
LoginsRunOut == /\ TypeOK
                /\ ExchangedOnce
                /\ TotpAttemptsBounded
                /\ StaleLoginsDie
=============================================================================
