--------------------------- MODULE ServicesProofs ---------------------------
(***************************************************************************)
(* What requests may rely on in the parts of MCServices that hold no locks *)
(* while they await the app: request authentication, accounts and login    *)
(* providers; what the sessions in memory and the login tokens of a        *)
(* browser promise to those who share them; which address a request is     *)
(* attributed to; what the token endpoint answers for which patterns,      *)
(* claims and tokens; and how long a connection may owe the headers of its *)
(* requests. Each part has an inductive invariant of its own, which        *)
(* carries what an early step checked, or left behind, to the step that    *)
(* relies on it.                                                           *)
(***************************************************************************)
EXTENDS RequestAuth, Accounts, ExternalProviders, SessionStore, LoginTokens, ClientIp,
        TokenExchange, HeaderTimeout,
        SequenceTheorems, FiniteSetTheorems, WellFoundedInduction, TLAPS

----------------------------------------------------------------------------
(* Least and last numbers *)

\* A set of natural numbers has a least one: what induction rests on here.
LEMMA LeastNumber ==
  ASSUME NEW T, T \subseteq Nat, T # {}
  PROVE  \E m \in T : \A n \in T : m <= n
<1> DEFINE Below == {1..k : k \in T}
           R == StrictSubsetOrdering(Nat)
<1>1. Below \subseteq FiniteSubsetsOf(Nat)
  <2>1. \A k \in T : IsFiniteSet(1..k)
    BY FS_Interval
  <2> QED BY <2>1 DEF FiniteSubsetsOf
<1>2. Below # {}
  OBVIOUS
<1>3. PICK x \in Below : \A y \in Below : ~(<<y, x>> \in R)
  <2> HIDE DEF Below, R
  <2>1. IsWellFoundedOn(R, FiniteSubsetsOf(Nat))
    BY FS_StrictSubsetOrderingWellFounded DEF R
  <2> QED BY <1>1, <1>2, <2>1, WFMin, Zenon
<1>4. PICK m \in T : x = 1..m
  OBVIOUS
<1>5. ASSUME NEW n \in T, n < m PROVE FALSE
  <2>1. 1..n \subseteq 1..m /\ 1..n # 1..m
    BY <1>5
  <2>2. 1..n \in SUBSET Nat /\ 1..m \in SUBSET Nat
    OBVIOUS
  <2>3. <<1..n, x>> \in R
    BY <2>1, <2>2, <1>4 DEF StrictSubsetOrdering
  <2> QED BY <2>3, <1>3
<1> QED BY <1>5

\* Of some places, the last one.
LEMMA LastPlace ==
  ASSUME NEW n \in Nat, NEW T, T \subseteq 1..n, T # {}
  PROVE  \E m \in T : \A k \in T : k <= m
<1> DEFINE U == {n - k : k \in T}
<1>1. \A k \in T : k \in 1..n /\ n - k \in Nat
  OBVIOUS
<1>2. U \subseteq Nat /\ U # {}
  BY <1>1, Zenon
<1>3. PICK u \in U : \A v \in U : u <= v
  <2> HIDE DEF U
  <2> QED BY <1>2, LeastNumber
<1>4. PICK m \in T : u = n - m
  OBVIOUS
<1>5. \A k \in T : n - m <= n - k
  BY <1>3, <1>4
<1>6. \A k \in T : k <= m
  BY <1>1, <1>5
<1> QED BY <1>6

----------------------------------------------------------------------------
(* Request authentication *)

AuthSteps == {"idle", "headers", "body", "extract", "identify", "guard", "answered"}
OnlySigned == Has("signature") /\ ~Has("jwt") /\ ~Has("apiKey")

\* The request came before now, and the timestamp checked is its own, recent
\* when it came.
Begun ==
  /\ instant \in Nat /\ step \in AuthSteps /\ checkedAt \in Times
  /\ step = "idle" => checkedAt = NoTime
  /\ step # "idle" => /\ Request \in Credentials
                      /\ arrived.at \in Nat /\ arrived.at <= instant
  /\ step = "headers" => checkedAt = NoTime
  /\ checkedAt # NoTime => /\ OnlySigned /\ checkedAt = Request.timestamp
                           /\ checkedAt >= arrived.at - Tolerance
  /\ step \in {"body", "extract"} /\ OnlySigned => checkedAt # NoTime

\* What was extracted is what counts of the request: a jwt with its login, an
\* api key, or the signature of all of it.
Extracted ==
  /\ step \in {"idle", "headers", "body", "extract"} =>
       credential = NoCredential /\ loginAt = NoTime /\ caller = "nobody"
  /\ step \in {"identify", "guard"} => credential.kind \in {"jwt", "api", "signing"}
  /\ loginAt # NoTime => /\ credential.kind = "jwt" /\ loginAt = JwtAuthenticatedAt(credential)
  /\ credential.kind = "jwt" => credential.iat \in Nat /\ credential.auth_time \in Times
  /\ credential.kind = "signing" =>
       /\ checkedAt # NoTime
       /\ Request.with.signature.covers =
            Prologue(Request.method, Request.path, checkedAt, Request.body)

AuthInv == Begun /\ Extracted /\ SlowBodyIsNotLate /\ AccountNeedsRecentLogin

LEMMA AuthInvInit == AuthInit => AuthInv
BY DEF AuthInit, AuthInv, Begun, Extracted, SlowBodyIsNotLate, AccountNeedsRecentLogin, AuthSteps, Times,
       NoTime, NoCredential, Answered

LEMMA AuthInvNext == AuthInv /\ [AuthNext]_authVars => AuthInv'
<1> SUFFICES ASSUME AuthInv, [AuthNext]_authVars PROVE AuthInv'
  OBVIOUS
<1> USE DEF NoTime, Times, Tolerance
<1>1. CASE Arrive
  BY <1>1 DEF Arrive, AuthInv, Begun, Extracted, SlowBodyIsNotLate, AccountNeedsRecentLogin, AuthSteps,
     NoCredential, Answered, Request
<1>2. CASE CheckHeaders
  <2>1. Begun'
    BY <1>2, CredentialsAssumption
    DEF CheckHeaders, AuthInv, Begun, OnlySigned, Has, Request, AuthSteps, TimestampFits, Answer
  <2>2. Extracted'
    BY <1>2 DEF CheckHeaders, AuthInv, Extracted, Request, Answer, NoCredential
  <2>3. SlowBodyIsNotLate' /\ AccountNeedsRecentLogin'
    BY <1>2 DEF CheckHeaders, AuthInv, Begun, SlowBodyIsNotLate, AccountNeedsRecentLogin, Answer, Answered
  <2> QED BY <2>1, <2>2, <2>3 DEF AuthInv
<1>3. CASE ReadBody
  BY <1>3 DEF ReadBody, AuthInv, Begun, OnlySigned, Has, Extracted, SlowBodyIsNotLate,
     AccountNeedsRecentLogin, AuthSteps, NoCredential, Answered, Answer, Request
<1>4. CASE Extract
  <2>1. UNCHANGED <<instant, serverKey, arrived, checkedAt, caller>>
    BY <1>4 DEF Extract
  <2>2. /\ step = "extract" /\ credential = NoCredential /\ loginAt = NoTime /\ caller = "nobody"
        /\ Request \in Credentials
    BY <1>4 DEF Extract, AuthInv, Begun, Extracted
  <2>3. CASE Has("jwt")
    <3>1. /\ credential' = Request.with.jwt /\ step' = "identify"
          /\ loginAt' \in {NoTime, JwtAuthenticatedAt(Request.with.jwt)}
      BY <1>4, <2>3 DEF Extract
    <3>2. /\ credential'.kind = "jwt" /\ credential'.iat \in Nat /\ credential'.auth_time \in Times
      BY <2>2, <2>3, <3>1, CredentialsAssumption DEF Has
    <3>3. Begun'
      BY <2>1, <2>2, <3>1 DEF AuthInv, Begun, OnlySigned, Has, Request, AuthSteps
    <3>4. Extracted'
      BY <3>1, <3>2 DEF Extracted, JwtAuthenticatedAt
    <3> QED BY <3>1, <3>3, <3>4 DEF AuthInv, SlowBodyIsNotLate, AccountNeedsRecentLogin, Answered
  <2>4. CASE ~Has("jwt") /\ Has("apiKey")
    <3>1. /\ credential' = Request.with.apiKey /\ step' = "identify" /\ loginAt' = NoTime
      BY <1>4, <2>2, <2>4 DEF Extract
    <3>2. credential'.kind = "api"
      BY <2>2, <2>4, <3>1, CredentialsAssumption DEF Has
    <3>3. Begun'
      BY <2>1, <2>2, <3>1 DEF AuthInv, Begun, OnlySigned, Has, Request, AuthSteps
    <3> QED BY <3>1, <3>2, <3>3 DEF AuthInv, Extracted, SlowBodyIsNotLate, AccountNeedsRecentLogin, Answered
  <2>5. CASE OnlySigned /\ VerifySignature(Request.with.signature, checkedAt)
    <3>1. /\ credential' = [kind |-> "signing", key |-> Request.with.signature.key]
          /\ step' = "identify" /\ loginAt' = NoTime
      BY <1>4, <2>2, <2>5 DEF Extract, OnlySigned
    <3>2. Begun'
      BY <2>1, <2>2, <3>1 DEF AuthInv, Begun, OnlySigned, Has, Request, AuthSteps
    <3>3. Extracted'
      BY <2>1, <2>2, <2>5, <3>1 DEF AuthInv, Begun, Extracted, VerifySignature, Request, Prologue
    <3> QED BY <3>1, <3>2, <3>3 DEF AuthInv, SlowBodyIsNotLate, AccountNeedsRecentLogin, Answered
  <2>6. CASE OnlySigned /\ ~VerifySignature(Request.with.signature, checkedAt)
    <3>1. UNCHANGED <<credential, loginAt>> /\ step' = "answered" /\ response' = 401
      BY <1>4, <2>6 DEF Extract, OnlySigned, Answer
    <3>2. Begun'
      BY <2>1, <2>2, <3>1 DEF AuthInv, Begun, OnlySigned, Has, Request, AuthSteps
    <3>3. Extracted' /\ AccountNeedsRecentLogin'
      BY <2>2, <3>1 DEF Extracted, AccountNeedsRecentLogin, NoCredential, Answered
    <3>4. SlowBodyIsNotLate'
      BY <2>1, <2>6, <3>1 DEF SlowBodyIsNotLate, AuthInv, Begun, VerifySignature, Request, Prologue
    <3> QED BY <3>2, <3>3, <3>4 DEF AuthInv
  <2>7. CASE ~Has("jwt") /\ ~Has("apiKey") /\ ~Has("signature")
    <3>1. UNCHANGED <<credential, loginAt>> /\ step' = "answered" /\ response' = 401
      BY <1>4, <2>7 DEF Extract, Answer
    <3>2. checkedAt = NoTime
      BY <2>7 DEF AuthInv, Begun, OnlySigned
    <3>3. Begun'
      BY <2>1, <2>2, <3>1 DEF AuthInv, Begun, OnlySigned, Has, Request, AuthSteps
    <3> QED BY <2>1, <2>2, <3>1, <3>2, <3>3
        DEF AuthInv, Extracted, AccountNeedsRecentLogin, NoCredential, Answered, SlowBodyIsNotLate
  <2> QED BY <2>3, <2>4, <2>5, <2>6, <2>7 DEF OnlySigned
<1>5. CASE Identify
  <2>1. /\ UNCHANGED <<instant, arrived, checkedAt, credential, loginAt>>
        /\ step = "identify" /\ step' \in {"guard", "answered"}
        /\ step' = "answered" => response' \in {401, 403}
    BY <1>5 DEF Identify, Answer
  <2>2. Begun' /\ Extracted'
    BY <2>1 DEF AuthInv, Begun, OnlySigned, Has, Request, AuthSteps, Extracted, NoCredential,
                JwtAuthenticatedAt
  <2>3. credential # NoCredential
    BY <2>1 DEF AuthInv, Extracted, NoCredential
  <2> QED BY <2>1, <2>2, <2>3 DEF AuthInv, SlowBodyIsNotLate, AccountNeedsRecentLogin, Answered
<1>6. CASE Guard
  <2>1. /\ UNCHANGED <<instant, arrived, checkedAt, credential, loginAt, caller>>
        /\ step = "guard" /\ step' = "answered" /\ response' \in {200, 403}
    BY <1>6 DEF Guard, Answer
  <2>2. Begun' /\ Extracted'
    BY <2>1 DEF AuthInv, Begun, OnlySigned, Has, Request, AuthSteps, Extracted, NoCredential,
                JwtAuthenticatedAt
  <2>3. SlowBodyIsNotLate'
    BY <2>1 DEF SlowBodyIsNotLate
  <2>4. AccountNeedsRecentLogin'
    <3> SUFFICES ASSUME response' = 200, Request.request \in AccountRequests
                 PROVE  /\ credential.kind = "jwt" /\ ~UserOf(caller).workload
                        /\ RecentWindow > 0 =>
                             /\ arrived.at - credential.iat <= RecentWindow
                             /\ credential.auth_time # NoTime =>
                                  arrived.at - credential.auth_time <= RecentWindow
      BY <2>1 DEF AccountNeedsRecentLogin, Request
    <3>1. /\ CheckNotWorkload(UserOf(caller), Request.request)
          /\ CheckCredentialKind(loginAt, Request.request)
          /\ CheckRecentLogin(RecentWindow, loginAt, instant, Request.request)
      BY <1>6 DEF Guard, Answer
    <3>2. Request.request = "UpdatePassword"
      BY DEF AccountRequests
    <3>3. ~UserOf(caller).workload
      BY <3>1, <3>2 DEF CheckNotWorkload
    <3>4. loginAt # NoTime
      BY <3>1, <3>2 DEF CheckCredentialKind, RequiresRecentLogin, ManagesResources, OpenRequests,
                        ResourceRequests
    <3>5. /\ credential.kind = "jwt" /\ loginAt = JwtAuthenticatedAt(credential)
          /\ credential.iat \in Nat /\ credential.auth_time \in Times
      BY <3>4 DEF AuthInv, Extracted
    <3>6. RecentWindow > 0 => instant - loginAt <= RecentWindow
      BY <3>1, <3>2, <3>4, CredentialsAssumption DEF CheckRecentLogin, RequiresRecentLogin, OpenRequests
    <3>7. arrived.at \in Nat /\ instant \in Nat /\ arrived.at <= instant
      BY <2>1 DEF AuthInv, Begun
    <3> QED BY <3>3, <3>5, <3>6, <3>7, CredentialsAssumption DEF JwtAuthenticatedAt, Earlier
  <2> QED BY <2>2, <2>3, <2>4 DEF AuthInv
<1>7. CASE Meanwhile
  <2>1. /\ step # "answered" /\ UNCHANGED <<arrived, step, checkedAt, credential, loginAt, caller, response>>
        /\ instant' \in {instant, instant + 1}
    BY <1>7 DEF Meanwhile
  <2>2. Begun' /\ Extracted'
    BY <2>1 DEF AuthInv, Begun, OnlySigned, Has, Request, AuthSteps, Extracted, NoCredential,
                JwtAuthenticatedAt
  <2> QED BY <2>1, <2>2 DEF AuthInv, SlowBodyIsNotLate, AccountNeedsRecentLogin, Answered
<1>8. CASE UNCHANGED authVars
  BY <1>8 DEF authVars, AuthInv, Begun, OnlySigned, Has, Extracted, SlowBodyIsNotLate, Request,
     AccountNeedsRecentLogin, NoCredential, Answered, JwtAuthenticatedAt
<1> QED BY <1>1, <1>2, <1>3, <1>4, <1>5, <1>6, <1>7, <1>8 DEF AuthNext

LEMMA AuthInvariance == AuthSpec => []AuthInv
BY AuthInvInit, AuthInvNext, PTL DEF AuthSpec

\* However long a body takes, and whatever happens to keys, users and the
\* server's key meanwhile: a signature authenticates only the request it was
\* made for, with a timestamp that was recent when the headers came, and a
\* request in time is not refused as late (read_signed_request_body,
\* verify_request_signature).
THEOREM SignaturesAreForTheRequest == AuthSpec => []SignedAsSent
<1>1. AuthInv => SignedAsSent
  BY CredentialsAssumption
  DEF AuthInv, SignedAsSent, SignedForThisRequest, Extracted, Begun, Prologue, Answered, NoTime, Times,
      Tolerance, Request
<1> QED BY <1>1, AuthInvariance, PTL

\* An account is changed only with a person's own login of the window, whatever
\* else the request carries and however long it takes (check_credential_kind,
\* check_recent_login).
THEOREM AccountChangesNeedLogin == AuthSpec => []AccountNeedsRecentLogin
<1>1. AuthInv => AccountNeedsRecentLogin
  BY DEF AuthInv
<1> QED BY <1>1, AuthInvariance, PTL

----------------------------------------------------------------------------
(* Accounts *)

DutyFields == {"step", "noneAtFirst", "noUsers", "enabledSince", "user", "name", "answer"}

UsersOK ==
  /\ users \in Seq(Range(users))
  /\ \A u \in UserIds : "enabled" \in DOMAIN users[u]

\* What a request found first still binds it: no user now means none at first,
\* a user enabled now was enabled since, and whoever may go on was let.
Bound(d) ==
  LET q == duty[d]
  IN  /\ DOMAIN q = DutyFields
      /\ q.step = "new" => ~q.noUsers
      /\ q.step # "new" /\ users = <<>> => q.noneAtFirst
      /\ q.noUsers => q.noneAtFirst
      /\ q.step = "insert" => d.op # "rename"
      /\ q.step \in {"insert", "name"} /\ d.op # "rename" /\ ClosedToNew => q.noUsers
      /\ q.step \in {"may link", "link"} => d.op = "link"
      /\ q.step = "write" => d.op \in {"rename", "password", "unlink", "unlink local"}
      /\ d.op = "link" /\ q.step # "new" =>
           d.user \in UserIds /\ (users[d.user].enabled => q.enabledSince)
      /\ d.op = "link" /\ q.step \in {"find", "link"} => q.enabledSince

\* What was done was done by a request that is past it.
Done(e) ==
  /\ e.by \in DOMAIN duty /\ duty[e.by].step \in {"sync", "end"}
  /\ e.effect = "account" /\ ClosedToNew => duty[e.by].noUsers
  /\ e.effect = "link" => duty[e.by].enabledSince

AccountsInv ==
  /\ UsersOK
  /\ DOMAIN duty \in Batches
  /\ \A d \in DOMAIN duty : Bound(d)
  /\ \A e \in made : Done(e)

\* A function on 1..n is a sequence of its values.
LEMMA SequenceOf ==
  ASSUME NEW f, NEW n \in Nat, f = [i \in 1..n |-> f[i]]
  PROVE  f \in Seq(Range(f)) /\ Len(f) = n
<1>1. f \in [1..n -> Range(f)]
  BY DEF Range
<1> QED BY <1>1

\* What a request does to users: it may add one, and disables nobody.
UsersKept ==
  /\ UsersOK' /\ Len(users') >= Len(users)
  /\ \A u \in UserIds : users'[u].enabled = users[u].enabled

\* Only d's step changes.
OneDuty(d) ==
  /\ DOMAIN duty' = DOMAIN duty
  /\ \A c \in DOMAIN duty : c # d => duty'[c] = duty[c]

\* A step of one request; what it did before stays done.
LEMMA AccountsFrame ==
  ASSUME AccountsInv, UsersKept, NEW d \in DOMAIN duty, OneDuty(d), Bound(d)',
         \/ duty[d].step \notin {"sync", "end"}
         \/ /\ duty'[d].step \in {"sync", "end"}
            /\ duty'[d].noUsers = duty[d].noUsers
            /\ duty'[d].enabledSince = duty[d].enabledSince,
         \A e \in made' : e \in made \/ Done(e)'
  PROVE  AccountsInv'
<1>1. users' = <<>> => users = <<>>
  BY DEF UsersKept, AccountsInv, UsersOK
<1>2. \A u \in UserIds : u \in UserIds'
  BY DEF UsersKept, UserIds, AccountsInv, UsersOK
<1>3. ASSUME NEW c \in DOMAIN duty, c # d PROVE Bound(c)'
  <2>1. Bound(c) /\ duty'[c] = duty[c]
    BY <1>3 DEF AccountsInv, OneDuty
  <2>2. ASSUME c.op = "link", duty[c].step # "new"
        PROVE  c.user \in UserIds' /\ (users'[c.user].enabled => duty[c].enabledSince)
    <3>1. c.user \in UserIds /\ (users[c.user].enabled => duty[c].enabledSince)
      BY <2>1, <2>2 DEF Bound
    <3> QED BY <1>2, <3>1 DEF UsersKept
  <2>3. duty'[c].step = "new" => ~duty'[c].noUsers
    BY <2>1 DEF Bound
  <2>4. duty'[c].step # "new" /\ users' = <<>> => duty'[c].noneAtFirst
    BY <1>1, <2>1 DEF Bound
  <2>5. duty'[c].noUsers => duty'[c].noneAtFirst
    BY <2>1 DEF Bound
  <2>6. /\ duty'[c].step = "insert" => c.op # "rename"
        /\ duty'[c].step \in {"insert", "name"} /\ c.op # "rename" /\ ClosedToNew => duty'[c].noUsers
        /\ duty'[c].step \in {"may link", "link"} => c.op = "link"
        /\ duty'[c].step = "write" => c.op \in {"rename", "password", "unlink", "unlink local"}
    BY <2>1 DEF Bound
  <2>7. c.op = "link" /\ duty'[c].step \in {"find", "link"} => duty'[c].enabledSince
    BY <2>1 DEF Bound
  <2>8. c.op = "link" /\ duty'[c].step # "new" =>
           c.user \in UserIds' /\ (users'[c.user].enabled => duty'[c].enabledSince)
    BY <2>1, <2>2
  <2> QED BY <1>1, <2>1, <2>2, <2>3, <2>4, <2>5, <2>6, <2>7, <2>8 DEF Bound
<1>4. ASSUME NEW e \in made PROVE Done(e)'
  BY <1>4 DEF AccountsInv, Done, OneDuty
<1> QED BY <1>3, <1>4 DEF AccountsInv, UsersKept, OneDuty

LEMMA SameUsersKept ==
  ASSUME AccountsInv, users' = users
  PROVE  UsersKept
BY DEF AccountsInv, UsersOK, UsersKept, UserIds

\* The same where nothing is stored.
LEMMA QuietFrame ==
  ASSUME AccountsInv, UNCHANGED <<users, made>>, NEW d \in DOMAIN duty, OneDuty(d), Bound(d)',
         \/ duty[d].step \notin {"sync", "end"}
         \/ /\ duty'[d].step \in {"sync", "end"}
            /\ duty'[d].noUsers = duty[d].noUsers
            /\ duty'[d].enabledSince = duty[d].enabledSince
  PROVE  AccountsInv'
BY SameUsersKept, AccountsFrame

LEMMA MovesTo ==
  ASSUME AccountsInv, NEW d \in DOMAIN duty, NEW s, Moves(d, s)
  PROVE  /\ OneDuty(d) /\ DOMAIN duty'[d] = DutyFields
         /\ duty'[d].step = s /\ duty'[d].noneAtFirst = duty[d].noneAtFirst
         /\ duty'[d].noUsers = duty[d].noUsers /\ duty'[d].enabledSince = duty[d].enabledSince
BY DEF AccountsInv, Bound, Moves, OneDuty, DutyFields

LEMMA AnswersTo ==
  ASSUME AccountsInv, NEW d \in DOMAIN duty, NEW a, Answers(d, a)
  PROVE  /\ OneDuty(d) /\ DOMAIN duty'[d] = DutyFields
         /\ duty'[d].step = "end" /\ duty'[d].noneAtFirst = duty[d].noneAtFirst
         /\ duty'[d].noUsers = duty[d].noUsers /\ duty'[d].enabledSince = duty[d].enabledSince
BY DEF AccountsInv, Bound, Answers, OneDuty, DutyFields

\* An answer ends a request that had begun; nothing else is asked of it then.
LEMMA AnswerKeeps ==
  ASSUME AccountsInv, UsersKept, NEW d \in DOMAIN duty, NEW a, Answers(d, a), made' = made,
         duty[d].step # "new" \/ (d.op # "link" /\ users' # <<>>)
  PROVE  AccountsInv'
<1>1. /\ OneDuty(d) /\ DOMAIN duty'[d] = DutyFields
      /\ duty'[d].step = "end" /\ duty'[d].noneAtFirst = duty[d].noneAtFirst
      /\ duty'[d].noUsers = duty[d].noUsers /\ duty'[d].enabledSince = duty[d].enabledSince
  BY AnswersTo
<1>2. (users' = <<>> => users = <<>>) /\ UserIds \subseteq UserIds'
  BY DEF UsersKept, UserIds, AccountsInv, UsersOK
<1>3. Bound(d)'
  BY <1>1, <1>2 DEF AccountsInv, Bound, UsersKept
<1> QED BY <1>1, <1>3, AccountsFrame

LEMMA AccountsInvInit == AccountsInit => AccountsInv
<1> SUFFICES ASSUME AccountsInit PROVE AccountsInv
  OBVIOUS
<1>1. UsersOK
  <2>1. users \in Seq(Range(users))
    BY AccountsAssumption DEF AccountsInit
  <2>2. DOMAIN users = UserIds
    BY <2>1 DEF UserIds
  <2>3. \A u \in DOMAIN users : DOMAIN users[u] = {"name", "logins", "password", "enabled"}
    BY AccountsAssumption DEF AccountsInit
  <2> QED BY <2>1, <2>2, <2>3, Zenon DEF UsersOK
<1>2. PICK batch \in Batches : duty = NewDuties(batch)
  BY DEF AccountsInit
<1>3. DOMAIN duty = batch /\ \A d \in batch :
        duty[d] = [step |-> "new", noneAtFirst |-> FALSE, noUsers |-> FALSE,
                   enabledSince |-> FALSE, user |-> NobodyYet, name |-> <<>>, answer |-> ""]
  BY <1>2 DEF NewDuties
<1>4. ASSUME NEW d \in DOMAIN duty PROVE Bound(d)
  <2>1. PICK none : duty[d] = [step |-> "new", noneAtFirst |-> FALSE, noUsers |-> FALSE,
                               enabledSince |-> FALSE, user |-> NobodyYet, name |-> <<>>,
                               answer |-> none]
    BY <1>3, <1>4, Zenon
  <2>2. DOMAIN duty[d] = DutyFields
    BY <2>1 DEF DutyFields
  <2>3. duty[d].step = "new" /\ ~duty[d].noUsers
    BY <2>1
  <2> QED BY <2>2, <2>3 DEF Bound
<1>5. DOMAIN duty \in Batches /\ made = {}
  BY <1>3 DEF AccountsInit
<1> QED BY <1>1, <1>4, <1>5, Zenon DEF AccountsInv

\* What MovesTo needs to keep the invariant where nothing is stored.
LEMMA MoveKeeps ==
  ASSUME AccountsInv, UNCHANGED <<users, made>>, NEW d \in DOMAIN duty, NEW s, Moves(d, s),
         duty[d].step \notin {"new", "sync", "end"}, s # "new",
         s = "insert" => d.op # "rename",
         s \in {"insert", "name"} /\ d.op # "rename" /\ ClosedToNew => duty[d].noUsers,
         s \in {"may link", "link"} => d.op = "link",
         s = "write" => d.op = "rename",
         d.op = "link" /\ s \in {"find", "link"} => duty[d].enabledSince
  PROVE  AccountsInv'
<1>1. /\ OneDuty(d) /\ DOMAIN duty'[d] = DutyFields
      /\ duty'[d].step = s /\ duty'[d].noneAtFirst = duty[d].noneAtFirst
      /\ duty'[d].noUsers = duty[d].noUsers /\ duty'[d].enabledSince = duty[d].enabledSince
  BY MovesTo
<1>2. Bound(d)'
  BY <1>1 DEF AccountsInv, Bound, UserIds
<1> QED BY <1>1, <1>2, QuietFrame

LEMMA BeginKeeps ==
  ASSUME AccountsInv, NEW d \in DOMAIN duty, Begin(d)
  PROVE  AccountsInv'
<1>0. Bound(d) /\ DOMAIN duty[d] = DutyFields /\ duty[d].step = "new" /\ ~duty[d].noUsers
  BY DEF AccountsInv, Bound, Begin
<1>1. /\ d.op \in {"sign up", "external login", "link", "rename", "password", "unlink",
                   "unlink local", "create key", "delete key"}
      /\ d.op \notin {"sign up", "external login"} => "user" \in DOMAIN d
  BY AccountsAssumption DEF AccountsInv
<1>2. UNCHANGED <<users, made>> /\ ("user" \in DOMAIN d => d.user \in UserIds)
  BY Zenon DEF Begin
<1>3. users = <<>> => UserIds = {}
  BY DEF UserIds
<1>4. d.op \notin {"sign up", "external login"} => d.user \in UserIds /\ users # <<>>
  BY <1>1, <1>2, <1>3
<1> DEFINE Locked == /\ d.op \in {"rename", "password", "unlink", "unlink local"}
                     /\ users[d.user].name \in LockedNames
<1>5. CASE Locked
  <2>1. Answers(d, "locked") /\ d.op \notin {"sign up", "external login", "link"}
    BY <1>5 DEF Begin
  <2>2. UsersKept /\ made' = made /\ users' # <<>>
    BY <1>2, <1>4, <2>1, SameUsersKept
  <2> QED BY <2>1, <2>2, AnswerKeeps
<1>6. CASE ~Locked
  <2> DEFINE none == users = <<>>
             since == IF d.op = "link" THEN users[d.user].enabled ELSE FALSE
             name == IF "name" \in DOMAIN d THEN d.name ELSE <<>>
  <2>1. duty' = [duty EXCEPT ![d] =
               [@ EXCEPT !.step = FirstStep(d.op), !.noneAtFirst = none, !.enabledSince = since,
                         !.name = name]]
    BY <1>6, Zenon DEF Begin
  <2>2. (none <=> users = <<>>) /\ (d.op = "link" => since = users[d.user].enabled)
    OBVIOUS
  <2> HIDE DEF none, since, name
  <2>3. /\ OneDuty(d) /\ DOMAIN duty'[d] = DutyFields
        /\ duty'[d].step = FirstStep(d.op) /\ duty'[d].noneAtFirst = none
        /\ duty'[d].noUsers = duty[d].noUsers /\ duty'[d].enabledSince = since
    BY <1>0, <2>1 DEF OneDuty, DutyFields
  <2>4. /\ FirstStep(d.op) \notin {"new", "insert", "link"}
        /\ FirstStep(d.op) = "name" => d.op = "rename"
        /\ FirstStep(d.op) = "may link" => d.op = "link"
        /\ FirstStep(d.op) = "find" => d.op # "link"
        /\ FirstStep(d.op) = "write" => d.op \in {"password", "unlink", "unlink local"}
    BY <1>1 DEF FirstStep
  <2>5. users' = <<>> => duty'[d].noneAtFirst
    BY <1>2, <2>2, <2>3, Zenon
  <2>6. d.op = "link" => d.user \in UserIds' /\ (users'[d.user].enabled => duty'[d].enabledSince)
    BY <1>2, <1>4, <2>2, <2>3 DEF UserIds
  <2>7. Bound(d)'
    BY <1>0, <2>3, <2>4, <2>5, <2>6 DEF Bound
  <2> QED BY <1>0, <1>2, <2>3, <2>7, QuietFrame
<1> QED BY <1>5, <1>6

LEMMA RegisterKeeps ==
  ASSUME AccountsInv, NEW d \in DOMAIN duty, Register(d)
  PROVE  AccountsInv'
<1>0. Bound(d) /\ DOMAIN duty[d] = DutyFields /\ duty[d].step = "register"
  BY DEF AccountsInv, Bound, Register
<1>1. UNCHANGED <<users, made>> /\ UsersKept
  BY SameUsersKept DEF Register
<1>2. CASE Answers(d, "closed")
  BY <1>0, <1>1, <1>2, AnswerKeeps
<1>3. CASE ~Answers(d, "closed")
  <2>1. PICK none : /\ none = (users = <<>>) /\ (ClosedToNew => none)
                    /\ duty' = [duty EXCEPT ![d].step = "name", ![d].noUsers = none]
    BY <1>3, Zenon DEF Register, RegistrationRefused
  <2>2. /\ OneDuty(d) /\ DOMAIN duty'[d] = DutyFields
        /\ duty'[d].step = "name" /\ duty'[d].noneAtFirst = duty[d].noneAtFirst
        /\ duty'[d].noUsers = none /\ duty'[d].enabledSince = duty[d].enabledSince
    BY <1>0, <2>1 DEF OneDuty, DutyFields
  <2>3. none => duty[d].noneAtFirst
    <3>1. none => users = <<>>
      BY <2>1, Zenon
    <3> QED BY <1>0, <3>1 DEF Bound
  <2>4. Bound(d)'
    BY <1>0, <1>1, <2>1, <2>2, <2>3 DEF Bound, UserIds
  <2> QED BY <1>0, <1>1, <2>2, <2>4, QuietFrame
<1> QED BY <1>2, <1>3

LEMMA PickNameKeeps ==
  ASSUME AccountsInv, NEW d \in DOMAIN duty, PickName(d)
  PROVE  AccountsInv'
<1>0. Bound(d) /\ DOMAIN duty[d] = DutyFields /\ duty[d].step = "name"
  BY DEF AccountsInv, Bound, PickName
<1>1. UNCHANGED <<users, made>> /\ UsersKept
  BY SameUsersKept DEF PickName
<1>2. d.op # "rename" /\ ClosedToNew => duty[d].noUsers
  BY <1>0 DEF Bound
<1>3. \/ Answers(d, "conflict")
      \/ d.op = "external login" /\ \E name : duty' = [duty EXCEPT ![d].step = "insert", ![d].name = name]
      \/ Moves(d, IF d.op = "rename" THEN "write" ELSE "insert")
  BY Zenon DEF PickName
<1>4. CASE Answers(d, "conflict")
  BY <1>0, <1>1, <1>4, AnswerKeeps
<1>5. CASE d.op = "external login" /\ \E name : duty' = [duty EXCEPT ![d].step = "insert", ![d].name = name]
  <2>1. /\ OneDuty(d) /\ DOMAIN duty'[d] = DutyFields
        /\ duty'[d].step = "insert" /\ duty'[d].noneAtFirst = duty[d].noneAtFirst
        /\ duty'[d].noUsers = duty[d].noUsers /\ duty'[d].enabledSince = duty[d].enabledSince
    <3>1. PICK name : duty' = [duty EXCEPT ![d].step = "insert", ![d].name = name]
      BY <1>5, Zenon
    <3> QED BY <1>0, <3>1 DEF OneDuty, DutyFields
  <2>2. Bound(d)'
    BY <1>0, <1>1, <1>2, <1>5, <2>1 DEF Bound, UserIds
  <2> QED BY <1>0, <1>1, <2>1, <2>2, QuietFrame
<1>6. CASE Moves(d, IF d.op = "rename" THEN "write" ELSE "insert")
  <2>1. CASE d.op = "rename"
    BY <1>0, <1>1, <1>6, <2>1, MoveKeeps
  <2>2. CASE d.op # "rename"
    BY <1>0, <1>1, <1>2, <1>6, <2>2, MoveKeeps
  <2> QED BY <2>1, <2>2
<1> QED BY <1>3, <1>4, <1>5, <1>6

\* Steps that only answer or go on.
LEMMA PlainStepsKeep ==
  ASSUME AccountsInv, NEW d \in DOMAIN duty,
         SyncUser(d) \/ KeyUnused(d) \/ StoreKey(d) \/ KeyOwnerIs(d) \/ DeleteKey(d)
  PROVE  AccountsInv'
<1>1. UNCHANGED <<users, made>> /\ UsersKept
  BY SameUsersKept DEF SyncUser, KeyUnused, StoreKey, KeyOwnerIs, DeleteKey
<1>2. duty[d].step \in {"sync", "unused", "store key", "owner", "delete"}
  BY DEF SyncUser, KeyUnused, StoreKey, KeyOwnerIs, DeleteKey
<1>3. \/ \E a : Answers(d, a)
      \/ duty[d].step # "sync" /\ (Moves(d, "store key") \/ Moves(d, "delete"))
  BY DEF SyncUser, KeyUnused, StoreKey, KeyOwnerIs, DeleteKey
<1>4. CASE \E a : Answers(d, a)
  BY <1>1, <1>2, <1>4, AnswerKeeps
<1>5. CASE duty[d].step # "sync" /\ (Moves(d, "store key") \/ Moves(d, "delete"))
  BY <1>1, <1>2, <1>5, MoveKeeps
<1> QED BY <1>3, <1>4, <1>5

\* A request goes on with the user it found.
LEMMA FoundKeeps ==
  ASSUME AccountsInv, UNCHANGED <<users, made>>, NEW d \in DOMAIN duty, NEW u,
         duty[d].step = "find", duty' = [duty EXCEPT ![d].step = "sync", ![d].user = u]
  PROVE  AccountsInv'
<1>0. Bound(d) /\ DOMAIN duty[d] = DutyFields
  BY DEF AccountsInv, Bound
<1>1. /\ OneDuty(d) /\ DOMAIN duty'[d] = DutyFields
      /\ duty'[d].step = "sync" /\ duty'[d].noneAtFirst = duty[d].noneAtFirst
      /\ duty'[d].noUsers = duty[d].noUsers /\ duty'[d].enabledSince = duty[d].enabledSince
  BY <1>0 DEF OneDuty, DutyFields
<1>2. Bound(d)'
  BY <1>0, <1>1 DEF Bound, UserIds
<1> QED BY <1>1, <1>2, QuietFrame

LEMMA FindLoginKeeps ==
  ASSUME AccountsInv, NEW d \in DOMAIN duty, FindLogin(d)
  PROVE  AccountsInv'
<1>1. UNCHANGED <<users, made>> /\ duty[d].step = "find"
  BY DEF FindLogin
<1>2. CASE Moves(d, "register")
  BY <1>1, <1>2, MoveKeeps
<1>3. CASE \E u : duty' = [duty EXCEPT ![d].step = "sync", ![d].user = u]
  BY <1>1, <1>3, FoundKeeps
<1> QED BY <1>2, <1>3, Zenon DEF FindLogin

LEMMA MayLinkKeeps ==
  ASSUME AccountsInv, NEW d \in DOMAIN duty, MayLink(d)
  PROVE  AccountsInv'
<1>0. Bound(d) /\ duty[d].step = "may link"
  BY DEF AccountsInv, MayLink
<1>1. UNCHANGED <<users, made>> /\ UsersKept
  BY SameUsersKept DEF MayLink
<1>2. CASE CanLink(d.user)
  <2>1. Moves(d, "find") /\ duty[d].enabledSince
    BY <1>0, <1>2 DEF MayLink, CanLink, Bound
  <2> QED BY <1>0, <1>1, <2>1, MoveKeeps
<1>3. CASE ~CanLink(d.user)
  <2>1. Answers(d, "refused")
    BY <1>3 DEF MayLink
  <2> QED BY <1>0, <1>1, <2>1, AnswerKeeps
<1> QED BY <1>2, <1>3

LEMMA FindLinkedKeeps ==
  ASSUME AccountsInv, NEW d \in DOMAIN duty, FindLinked(d)
  PROVE  AccountsInv'
<1>0. Bound(d) /\ duty[d].step = "find" /\ d.op = "link"
  BY DEF AccountsInv, FindLinked
<1>1. UNCHANGED <<users, made>> /\ UsersKept
  BY SameUsersKept DEF FindLinked
<1>2. CASE Moves(d, "link")
  <2>1. duty[d].enabledSince
    BY <1>0 DEF Bound
  <2> QED BY <1>0, <1>1, <1>2, <2>1, MoveKeeps
<1>3. CASE \E u : duty' = [duty EXCEPT ![d].step = "sync", ![d].user = u]
  BY <1>0, <1>1, <1>3, FoundKeeps
<1>4. CASE Answers(d, "conflict")
  BY <1>0, <1>1, <1>4, AnswerKeeps
<1> QED BY <1>2, <1>3, <1>4, Zenon DEF FindLinked

\* Users that stay as enabled as they were, and one more.
LEMMA AppendKept ==
  ASSUME AccountsInv, NEW r, "enabled" \in DOMAIN r, users' = Append(users, r)
  PROVE  UsersKept /\ users' # <<>>
<1>1. users \in Seq(Range(users)) /\ Len(users) \in Nat
  BY DEF AccountsInv, UsersOK
<1> DEFINE S == Range(users) \cup {r}
<1>2. users \in Seq(S) /\ r \in S
  <2>1. users \in [1..Len(users) -> S]
    BY <1>1 DEF Range
  <2> QED BY <1>1, <2>1
<1> HIDE DEF S
<1>3. /\ users' \in Seq(S) /\ Len(users') = Len(users) + 1
      /\ \A i \in 1..Len(users) : users'[i] = users[i]
      /\ users'[Len(users) + 1] = r
  BY <1>1, <1>2
<1>4. DOMAIN users' = 1..Len(users') /\ Len(users') \in Nat
  BY <1>3
<1>5. users' = [i \in DOMAIN users' |-> users'[i]]
  <2>1. PICK n \in Nat : users' \in [1..n -> S]
    <3>1. users' \in UNION {[1..n -> S] : n \in Nat}
      BY <1>3, SeqDef, Zenon
    <3> QED BY <3>1
  <2> QED BY <2>1
<1>6. users' \in Seq(Range(users'))
  BY <1>4, <1>5, SequenceOf
<1>7. ASSUME NEW u \in UserIds' PROVE "enabled" \in DOMAIN users'[u]
  BY <1>1, <1>3, <1>6 DEF UserIds, AccountsInv, UsersOK
<1> QED BY <1>1, <1>3, <1>6, <1>7 DEF UsersKept, UsersOK, UserIds

\* Users that stay as enabled as they were, one of them changed.
LEMMA ChangeKept ==
  ASSUME AccountsInv, NEW u, NEW new, users' = [users EXCEPT ![u] = new],
         u \in UserIds => "enabled" \in DOMAIN new /\ new.enabled = users[u].enabled
  PROVE  UsersKept
<1>1. users \in Seq(Range(users)) /\ Len(users) \in Nat /\ DOMAIN users = UserIds
  BY DEF AccountsInv, UsersOK, UserIds
<1>2. /\ users' = [i \in 1..Len(users) |-> users'[i]]
      /\ \A i \in UserIds : users'[i] = IF i = u THEN new ELSE users[i]
  BY <1>1 DEF UserIds
<1>3. users' \in Seq(Range(users')) /\ Len(users') = Len(users)
  BY <1>1, <1>2, SequenceOf
<1>4. UserIds' = UserIds
  BY <1>3 DEF UserIds
<1>5. ASSUME NEW i \in UserIds PROVE "enabled" \in DOMAIN users'[i] /\ users'[i].enabled = users[i].enabled
  BY <1>2 DEF AccountsInv, UsersOK
<1> QED BY <1>1, <1>3, <1>4, <1>5 DEF UsersKept, UsersOK

LEMMA InsertUserKeeps ==
  ASSUME AccountsInv, NEW d \in DOMAIN duty, InsertUser(d)
  PROVE  AccountsInv'
<1>0. Bound(d) /\ DOMAIN duty[d] = DutyFields /\ duty[d].step = "insert"
  BY DEF AccountsInv, Bound, InsertUser
<1>1. CASE users' = users
  <2>1. Answers(d, "storage error") /\ made' = made
    BY <1>1 DEF InsertUser
  <2> QED BY <1>0, <1>1, <2>1, SameUsersKept, AnswerKeeps
<1>2. CASE users' # users
  <2>1. PICK name, logins, password :
          users' = Append(users, [name |-> name, logins |-> logins, password |-> password,
                                  enabled |-> TRUE])
    BY <1>2, Zenon DEF InsertUser, StoreUser
  <2>2. UsersKept /\ users' # <<>>
    <3>1. PICK r : users' = Append(users, r) /\ "enabled" \in DOMAIN r
      BY <2>1
    <3> QED BY <3>1, AppendKept
  <2>3. PICK u, s, a : /\ duty' = [duty EXCEPT ![d].user = u, ![d].step = s, ![d].answer = a]
                       /\ s \in {"end", "sync"}
                       /\ made' = made \cup {[effect |-> "account", by |-> d, user |-> u]}
    BY <1>2, Zenon DEF InsertUser
  <2>4. /\ OneDuty(d) /\ DOMAIN duty'[d] = DutyFields
        /\ duty'[d].step = s /\ duty'[d].noneAtFirst = duty[d].noneAtFirst
        /\ duty'[d].noUsers = duty[d].noUsers /\ duty'[d].enabledSince = duty[d].enabledSince
    BY <1>0, <2>3 DEF OneDuty, DutyFields
  <2>5. UserIds \subseteq UserIds'
    BY <2>2 DEF UsersKept, UserIds, AccountsInv, UsersOK
  <2>6. Bound(d)'
    BY <1>0, <2>2, <2>3, <2>4, <2>5 DEF Bound, UsersKept
  <2>7. Done([effect |-> "account", by |-> d, user |-> u])'
    BY <1>0, <2>3, <2>4 DEF Done, Bound, OneDuty
  <2>8. \A e \in made' : e \in made \/ Done(e)'
    BY <2>3, <2>7, Zenon
  <2> QED BY <1>0, <2>2, <2>4, <2>6, <2>8, AccountsFrame
<1> QED BY <1>1, <1>2

LEMMA LinkLoginKeeps ==
  ASSUME AccountsInv, NEW d \in DOMAIN duty, LinkLogin(d)
  PROVE  AccountsInv'
<1>0. Bound(d) /\ DOMAIN duty[d] = DutyFields /\ duty[d].step = "link"
  BY DEF AccountsInv, Bound, LinkLogin
<1>1. d.op = "link" /\ duty[d].enabledSince /\ d.user \in UserIds
  BY <1>0 DEF Bound
<1>2. UsersKept
  <2>1. users' = [users EXCEPT ![d.user] = [users[d.user] EXCEPT !.logins = @ \cup {d.login}]]
    BY DEF LinkLogin
  <2>2. "enabled" \in DOMAIN users[d.user]
    BY <1>1 DEF AccountsInv, UsersOK
  <2> DEFINE new == [users[d.user] EXCEPT !.logins = @ \cup {d.login}]
  <2>3. "enabled" \in DOMAIN new /\ new.enabled = users[d.user].enabled
    BY <2>2
  <2> QED BY <2>1, <2>3, ChangeKept
<1>3. /\ OneDuty(d) /\ DOMAIN duty'[d] = DutyFields
      /\ duty'[d].step = "sync" /\ duty'[d].noneAtFirst = duty[d].noneAtFirst
      /\ duty'[d].noUsers = duty[d].noUsers /\ duty'[d].enabledSince = duty[d].enabledSince
  BY <1>0 DEF LinkLogin, OneDuty, DutyFields
<1>4. (users' = <<>> => users = <<>>) /\ UserIds \subseteq UserIds'
  BY <1>2 DEF UsersKept, UserIds, AccountsInv, UsersOK
<1>5. Bound(d)'
  BY <1>0, <1>1, <1>3, <1>4 DEF Bound
<1>6. Done([effect |-> "link", by |-> d, user |-> d.user])'
  BY <1>1, <1>3 DEF Done, OneDuty
<1>7. \A e \in made' : e \in made \/ Done(e)'
  BY <1>6, Zenon DEF LinkLogin
<1> QED BY <1>0, <1>2, <1>3, <1>5, <1>7, AccountsFrame

LEMMA WriteOwnKeeps ==
  ASSUME AccountsInv, NEW d \in DOMAIN duty, WriteOwn(d)
  PROVE  AccountsInv'
<1>1. duty[d].step = "write" /\ made' = made /\ \E a : Answers(d, a)
  BY Zenon DEF WriteOwn
<1>2. UsersKept
  <2>1. d.op \in {"sign up", "external login", "link", "rename", "password", "unlink",
                  "unlink local", "create key", "delete key"}
    BY AccountsAssumption DEF AccountsInv
  <2>2. d.op \in {"rename", "password", "unlink", "unlink local"}
    BY <1>1 DEF AccountsInv, Bound
  <2>3. \/ users' = users
        \/ \E x : \/ users' = [users EXCEPT ![d.user].name = x]
                 \/ users' = [users EXCEPT ![d.user].password = x]
                 \/ users' = [users EXCEPT ![d.user].logins = x]
    BY <2>2, Zenon DEF WriteOwn
  <2>4. ASSUME NEW new, users' = [users EXCEPT ![d.user] = new],
               "enabled" \in DOMAIN users[d.user] =>
                 "enabled" \in DOMAIN new /\ new.enabled = users[d.user].enabled
        PROVE  UsersKept
    BY <2>4, ChangeKept DEF AccountsInv, UsersOK
  <2>5. ASSUME NEW x, users' = [users EXCEPT ![d.user].name = x] PROVE UsersKept
    <3>1. users' = [users EXCEPT ![d.user] = [users[d.user] EXCEPT !.name = x]]
      BY <2>5
    <3> QED BY <2>4, <3>1
  <2>6. ASSUME NEW x, users' = [users EXCEPT ![d.user].password = x] PROVE UsersKept
    <3>1. users' = [users EXCEPT ![d.user] = [users[d.user] EXCEPT !.password = x]]
      BY <2>6
    <3> QED BY <2>4, <3>1
  <2>7. ASSUME NEW x, users' = [users EXCEPT ![d.user].logins = x] PROVE UsersKept
    <3>1. users' = [users EXCEPT ![d.user] = [users[d.user] EXCEPT !.logins = x]]
      BY <2>7
    <3> QED BY <2>4, <3>1
  <2> QED BY <2>3, <2>5, <2>6, <2>7, SameUsersKept
<1> QED BY <1>1, <1>2, AnswerKeeps

LEMMA SetEnabledKeeps ==
  ASSUME AccountsInv, NEW u \in UserIds, NEW enabled \in BOOLEAN, SetEnabled(u, enabled)
  PROVE  AccountsInv'
<1>1. users \in Seq(Range(users)) /\ Len(users) \in Nat /\ DOMAIN users = UserIds
  BY DEF AccountsInv, UsersOK, UserIds
<1>2. "enabled" \in DOMAIN users[u] /\ made' = made
  BY DEF AccountsInv, UsersOK, SetEnabled
<1>3. /\ users' = [i \in 1..Len(users) |-> users'[i]]
      /\ \A i \in UserIds : i # u => users'[i] = users[i]
      /\ "enabled" \in DOMAIN users'[u] /\ users'[u].enabled = enabled
  BY <1>1, <1>2 DEF UserIds, SetEnabled
<1>4. users' \in Seq(Range(users')) /\ Len(users') = Len(users)
  BY <1>1, <1>3, SequenceOf
<1>5. UserIds' = UserIds /\ (users' = <<>> => users = <<>>)
  BY <1>1, <1>4 DEF UserIds
<1>6. UsersOK'
  BY <1>3, <1>4, <1>5 DEF UsersOK, AccountsInv
<1>7. /\ DOMAIN duty' = DOMAIN duty
      /\ \A c \in DOMAIN duty :
           /\ DOMAIN duty'[c] = DutyFields
           /\ duty'[c].step = duty[c].step /\ duty'[c].noneAtFirst = duty[c].noneAtFirst
           /\ duty'[c].noUsers = duty[c].noUsers
           /\ duty[c].enabledSince => duty'[c].enabledSince
           /\ enabled /\ c.op = "link" /\ c.user = u /\ duty[c].step # "new" => duty'[c].enabledSince
  BY DEF SetEnabled, AccountsInv, Bound, DutyFields
<1>8. ASSUME NEW c \in DOMAIN duty PROVE Bound(c)'
  <2>1. Bound(c)
    BY DEF AccountsInv
  <2>2. c.op = "link" /\ duty'[c].step # "new" =>
          c.user \in UserIds' /\ (users'[c.user].enabled => duty'[c].enabledSince)
    BY <1>3, <1>5, <1>7, <2>1 DEF Bound
  <2>3. (duty'[c].step = "new" => ~duty'[c].noUsers) /\ DOMAIN duty'[c] = DutyFields
    BY <1>7, <2>1 DEF Bound
  <2>4. /\ duty'[c].step # "new" /\ users' = <<>> => duty'[c].noneAtFirst
        /\ duty'[c].noUsers => duty'[c].noneAtFirst
    BY <1>5, <1>7, <2>1 DEF Bound
  <2>5. /\ duty'[c].step = "insert" => c.op # "rename"
        /\ duty'[c].step \in {"insert", "name"} /\ c.op # "rename" /\ ClosedToNew => duty'[c].noUsers
        /\ duty'[c].step \in {"may link", "link"} => c.op = "link"
        /\ duty'[c].step = "write" => c.op \in {"rename", "password", "unlink", "unlink local"}
        /\ c.op = "link" /\ duty'[c].step \in {"find", "link"} => duty'[c].enabledSince
    BY <1>7, <2>1 DEF Bound
  <2> QED BY <2>2, <2>3, <2>4, <2>5 DEF Bound
<1>9. ASSUME NEW e \in made PROVE Done(e)'
  BY <1>7 DEF AccountsInv, Done
<1> QED BY <1>2, <1>6, <1>7, <1>8, <1>9 DEF AccountsInv

LEMMA AccountsInvariance == AccountsSpec => []AccountsInv
<1>1. AccountsInv /\ [AccountsNext]_accountVars => AccountsInv'
  <2> SUFFICES ASSUME AccountsInv, [AccountsNext]_accountVars PROVE AccountsInv'
    OBVIOUS
  <2>1. CASE UNCHANGED accountVars
    BY <2>1 DEF accountVars, AccountsInv, UsersOK, UserIds, Bound, Done
  <2>2. ASSUME NEW d \in DOMAIN duty,
               \/ Begin(d) \/ Register(d) \/ PickName(d) \/ InsertUser(d) \/ FindLogin(d)
               \/ MayLink(d) \/ FindLinked(d) \/ LinkLogin(d) \/ SyncUser(d) \/ WriteOwn(d)
               \/ KeyUnused(d) \/ StoreKey(d) \/ KeyOwnerIs(d) \/ DeleteKey(d)
        PROVE  AccountsInv'
    BY <2>2, BeginKeeps, RegisterKeeps, PickNameKeeps, InsertUserKeeps, FindLoginKeeps,
       MayLinkKeeps, FindLinkedKeeps, LinkLoginKeeps, WriteOwnKeeps, PlainStepsKeep, Zenon
  <2>3. ASSUME NEW u \in UserIds, NEW enabled \in BOOLEAN, SetEnabled(u, enabled)
        PROVE  AccountsInv'
    BY <2>3, SetEnabledKeeps
  <2> QED BY <2>1, <2>2, <2>3, Zenon DEF AccountsNext
<1> QED BY <1>1, AccountsInvInit, PTL DEF AccountsSpec

\* However requests and the app's own changes of users interleave: an account is
\* only made while registration is closed, or as the first user's, by a request
\* that began when there was no user; and a login is only linked to a user who was
\* enabled at some time since the callback came (sign_up_local_user,
\* login_callback, link_callback).
THEOREM ChecksBind == AccountsSpec => []ChecksBindEffects
<1>1. AccountsInv => ChecksBindEffects
  <2> SUFFICES ASSUME AccountsInv, NEW e \in made
               PROVE  /\ e.effect = "account" /\ (ClosedToNew \/ duty[e.by].noUsers) =>
                           duty[e.by].noneAtFirst
                      /\ e.effect = "link" => duty[e.by].enabledSince
    BY Zenon DEF ChecksBindEffects
  <2>1. Done(e)
    BY DEF AccountsInv
  <2>2. Bound(e.by)
    BY <2>1 DEF AccountsInv, Done
  <2> QED BY <2>1, <2>2 DEF Done, Bound
<1> QED BY <1>1, AccountsInvariance, PTL

----------------------------------------------------------------------------
(* External login providers *)

\* A login that was let in: past the groups of the provider it names.
PassedGroups(q) ==
  q.at.kind = "oidc" =>
    LET named == GroupsNamed(q.at, q.response)
    IN /\ q.at.allowed # {} => named \cap (q.at.allowed \cup q.at.admins) # {}
       /\ TRUE \in q.admin => named \cap q.at.admins # {}

\* From the callback on a login stays with the provider that it began with.
JourneysInv ==
  /\ DOMAIN journey = Journeys
  /\ \A j \in Journeys :
       /\ journey[j].step \in {"redeem", "done"} => journey[j].at.id = journey[j].begun
       /\ journey[j].step = "done" => PassedGroups(journey[j])

\* The groups a login is checked with are named by the provider's response.
LEMMA GroupsAreNamed ==
  ASSUME NEW p, NEW sent, NEW g \in LoginGroups(p, sent)
  PROVE  g \subseteq GroupsNamed(p, sent)
<1> DEFINE From(claims) == UNION {ExtractGroups(claims, claim) : claim \in GroupsClaim(p)}
           infoAway == sent.userInfo = "unavailable"
           token == From(sent.token)
           info == From(sent.claims)
<1>1. g \in token \/ (~infoAway /\ g \in info)
  BY Zenon DEF LoginGroups
<1>2. GroupsNamed(p, sent) = (UNION token) \cup (IF infoAway THEN {} ELSE UNION info)
  BY Zenon DEF GroupsNamed
<1> HIDE DEF token, info, infoAway
<1> QED BY <1>1, <1>2

\* One browser's login goes on.
LEMMA TravelsKeep ==
  ASSUME JourneysInv, NEW j \in Journeys, NEW to, Travels(j, to),
         to.step \in {"redeem", "done"} => to.at.id = to.begun,
         to.step = "done" => PassedGroups(to)
  PROVE  JourneysInv'
<1>1. /\ DOMAIN journey' = Journeys /\ journey'[j] = to
      /\ \A i \in Journeys : i # j => journey'[i] = journey[i]
  BY DEF JourneysInv, Travels
<1>2. ASSUME NEW i \in Journeys
      PROVE  /\ journey'[i].step \in {"redeem", "done"} => journey'[i].at.id = journey'[i].begun
             /\ journey'[i].step = "done" => PassedGroups(journey'[i])
  <2>1. CASE i = j
    BY <1>1, <2>1
  <2>2. CASE i # j
    BY <1>1, <2>2 DEF JourneysInv
  <2> QED BY <2>1, <2>2
<1> QED BY <1>1, <1>2, Zenon DEF JourneysInv

LEMMA CompleteKeeps ==
  ASSUME JourneysInv, NEW j \in Journeys, NEW sent, CompleteJourney(j, sent)
  PROVE  JourneysInv'
<1> DEFINE p == journey[j].at
           groups == IF p.kind = "oidc" THEN LoginGroups(p, sent) ELSE {}
           name == Username(p, sent)
           admin == IF p.kind = "oidc" THEN AdminOf(p, groups) ELSE {}
           to == [step |-> "done", at |-> p, begun |-> journey[j].begun, response |-> sent,
                  name |-> name, admin |-> admin]
<1>1. journey[j].step = "redeem" /\ p.id = journey[j].begun
  BY DEF CompleteJourney, JourneysInv
<1>2. CASE Travels(j, NotBegun)
  <2>1. NotBegun.step = "out"
    BY DEF NotBegun
  <2> QED BY <1>2, <2>1, TravelsKeep
<1>3. CASE ~Travels(j, NotBegun)
  <2>1. Travels(j, to) /\ (p.kind = "oidc" => CheckAllowedGroups(p, groups))
    BY <1>3, Zenon DEF CompleteJourney
  <2>2. ASSUME p.kind = "oidc"
        PROVE  /\ p.allowed # {} => GroupsNamed(p, sent) \cap (p.allowed \cup p.admins) # {}
               /\ TRUE \in admin => GroupsNamed(p, sent) \cap p.admins # {}
    <3>1. \A g \in groups : g \subseteq GroupsNamed(p, sent)
      BY <2>2, GroupsAreNamed
    <3>2. p.allowed # {} => \E g \in groups : g \cap (p.allowed \cup p.admins) # {}
      BY <2>1, <2>2 DEF CheckAllowedGroups
    <3>3. TRUE \in admin => \E g \in groups : g \cap p.admins # {}
      BY <2>2, Zenon DEF AdminOf
    <3> HIDE DEF groups, admin, p
    <3> QED BY <3>1, <3>2, <3>3
  <2> HIDE DEF p, groups, name, admin
  <2>3. to.step = "done" /\ to.at = p /\ to.begun = journey[j].begun /\ to.response = sent
        /\ to.admin = admin
    OBVIOUS
  <2> HIDE DEF to
  <2>4. PassedGroups(to)
    BY <2>2, <2>3 DEF PassedGroups
  <2>5. to.at.id = to.begun
    BY <1>1, <2>3 DEF p
  <2> QED BY <2>1, <2>3, <2>4, <2>5, TravelsKeep
<1> QED BY <1>2, <1>3

LEMMA CallbackKeeps ==
  ASSUME JourneysInv, NEW j \in Journeys, NEW slug, BeginJourney(j, slug) \/ Callback(j, slug)
  PROVE  JourneysInv'
<1>1. CASE BeginJourney(j, slug)
  <2>1. PICK p : Travels(j, [step |-> "away", id |-> p.id, slug |-> slug])
    BY <1>1, Zenon DEF BeginJourney
  <2>2. [step |-> "away", id |-> p.id, slug |-> slug].step = "away"
    OBVIOUS
  <2> QED BY <2>1, <2>2, TravelsKeep
<1>2. CASE Travels(j, NotBegun)
  <2>1. NotBegun.step = "out"
    BY DEF NotBegun
  <2> QED BY <1>2, <2>1, TravelsKeep
<1>3. CASE Callback(j, slug) /\ ~Travels(j, NotBegun)
  <2>1. PICK p : /\ journey[j].id = p.id
                 /\ Travels(j, [step |-> "redeem", at |-> p, begun |-> journey[j].id])
    BY <1>3, Zenon DEF Callback, CallbackMatches
  <2> DEFINE to == [step |-> "redeem", at |-> p, begun |-> journey[j].id]
  <2>2. to.step = "redeem" /\ to.at.id = to.begun
    BY <2>1
  <2> HIDE DEF to
  <2>3. Travels(j, to)
    BY <2>1 DEF to
  <2> QED BY <2>2, <2>3, TravelsKeep
<1> QED BY <1>1, <1>2, <1>3

LEMMA JourneysInvariance == ProvidersSpec => []JourneysInv
<1>1. ProvidersInit => JourneysInv
  <2> SUFFICES ASSUME ProvidersInit PROVE JourneysInv
    OBVIOUS
  <2>1. DOMAIN journey = Journeys /\ \A j \in Journeys : journey[j].step = "out"
    BY DEF ProvidersInit, NotBegun
  <2> QED BY <2>1 DEF JourneysInv
<1>2. JourneysInv /\ [ProvidersNext]_providerVars => JourneysInv'
  <2> SUFFICES ASSUME JourneysInv, [ProvidersNext]_providerVars PROVE JourneysInv'
    OBVIOUS
  <2>1. CASE journey' = journey
    BY <2>1 DEF JourneysInv
  <2>2. ASSUME NEW j \in Journeys, NEW slug, BeginJourney(j, slug) \/ Callback(j, slug)
        PROVE  JourneysInv'
    BY <2>2, CallbackKeeps
  <2>3. ASSUME NEW j \in Journeys, NEW sent, CompleteJourney(j, sent)
        PROVE  JourneysInv'
    BY <2>3, CompleteKeeps
  <2>4. ASSUME NEW j \in Journeys, LoseJourney(j) PROVE JourneysInv'
    <3>1. Travels(j, NotBegun) /\ NotBegun.step = "out"
      BY <2>4 DEF LoseJourney, NotBegun
    <3> QED BY <3>1, TravelsKeep
  <2>5. ASSUME NEW e, NEW request,
               \/ BeginCreate(e, request) \/ BeginUpdate(e, request) \/ BeginDelete(e, request)
               \/ StoreCreated(e) \/ CheckSlug(e) \/ StoreUpdated(e) \/ DeleteStored(e)
               \/ AbandonEdit(e)
        PROVE  journey' = journey
    BY <2>5, Zenon DEF BeginCreate, BeginUpdate, BeginDelete, StoreCreated, CheckSlug,
                       StoreUpdated, DeleteStored, AbandonEdit
  <2> QED BY <2>1, <2>2, <2>3, <2>4, <2>5, Zenon DEF ProvidersNext, providerVars
<1> QED BY <1>1, <1>2, PTL DEF ProvidersSpec

\* Whatever admins do to the providers while browsers are away, nobody comes in
\* through a provider but past its own checks: the code is redeemed at the
\* provider the login began with, and with groups configured only who was named
\* in one gets in, or is an admin (external_callback, check_allowed_groups).
THEOREM LoginsPass == ProvidersSpec => []LoginsPassTheirProvider
<1>1. JourneysInv => LoginsPassTheirProvider
  BY Zenon DEF JourneysInv, PassedGroups, LoginsPassTheirProvider, RedeemedWhereBegun,
               GroupsFailClosed
<1> QED BY <1>1, JourneysInvariance, PTL

\* A provider whose secret was typed in with its url.
WithItsUrl(p) == p.kind = "oidc" /\ p.secret # NoSecret => <<p.url, p.secret>> \in entered

\* The secret an update settled on is the one it brings, or was typed in with
\* the url that it brings.
SecretSettled(e) ==
  LET config == edit[e].request.config
      secret == edit[e].secret
  IN edit[e].step \in {"slug", "update"} =>
       /\ DOMAIN edit[e] = {"step", "request", "slug", "secret"}
       /\ \/ config.secret \notin {NoSecret, Redacted} /\ secret = config.secret
          \/ config.kind = "oidc" /\ secret # NoSecret => <<config.url, secret>> \in entered

CatalogInv ==
  /\ \E S : catalog \in Seq(S) /\ \A p \in S : WithItsUrl(p)
  /\ DOMAIN edit = Editor
  /\ \A e \in Editor : SecretSettled(e)

LEMMA RemovedFrom ==
  ASSUME NEW S, NEW s \in Seq(S), NEW k \in DOMAIN s
  PROVE  RemoveAt(s, k) \in Seq(S)
<1>1. k \in 1..Len(s) /\ Len(s) \in Nat
  OBVIOUS
<1>2. SubSeq(s, 1, k - 1) \in Seq(S) /\ SubSeq(s, k + 1, Len(s)) \in Seq(S)
  BY <1>1
<1> QED BY <1>2, ConcatProperties DEF RemoveAt

\* One request goes on; pairs that were entered stay so.
LEMMA EditsKeep ==
  ASSUME CatalogInv, NEW e \in Editor, NEW to, Edits(e, to), entered \subseteq entered',
         SecretSettled(e)'
  PROVE  /\ DOMAIN edit' = Editor
         /\ \A f \in Editor : SecretSettled(f)'
         /\ \A p : WithItsUrl(p) => WithItsUrl(p)'
<1>1. /\ DOMAIN edit' = Editor
      /\ \A f \in Editor : f # e => edit'[f] = edit[f]
  BY DEF CatalogInv, Edits
<1>2. ASSUME NEW f \in Editor, f # e PROVE SecretSettled(f)'
  <2>1. SecretSettled(f) /\ edit'[f] = edit[f]
    BY <1>1, <1>2 DEF CatalogInv
  <2> QED BY <2>1 DEF SecretSettled
<1>3. \A p : WithItsUrl(p) => WithItsUrl(p)'
  BY DEF WithItsUrl
<1> QED BY <1>1, <1>2, <1>3, Zenon

\* A request that ends, or that settles on no secret.
LEMMA SettledOtherwise ==
  ASSUME CatalogInv, NEW e \in Editor, NEW to, Edits(e, to), to.step \notin {"slug", "update"}
  PROVE  SecretSettled(e)'
<1>1. edit'[e] = to
  BY DEF CatalogInv, Edits
<1> QED BY <1>1 DEF SecretSettled

\* The list may be replaced by one with what was in it, and with p.
LEMMA CatalogKeeps ==
  ASSUME CatalogInv, NEW e \in Editor, NEW to, Edits(e, to), entered \subseteq entered',
         SecretSettled(e)', NEW p, WithItsUrl(p)',
         \A S : catalog \in Seq(S) => catalog' \in Seq(S \cup {p})
  PROVE  CatalogInv'
<1>1. PICK S : catalog \in Seq(S) /\ \A q \in S : WithItsUrl(q)
  BY DEF CatalogInv
<1>2. catalog' \in Seq(S \cup {p}) /\ \A q \in S \cup {p} : WithItsUrl(q)'
  BY <1>1, EditsKeep
<1>3. \E T : catalog' \in Seq(T) /\ \A q \in T : WithItsUrl(q)'
  BY <1>2, Zenon
<1>4. DOMAIN edit' = Editor /\ \A f \in Editor : SecretSettled(f)'
  BY EditsKeep
<1> QED BY <1>3, <1>4, Zenon DEF CatalogInv

\* The same where nothing is stored.
LEMMA EditOnly ==
  ASSUME CatalogInv, NEW e \in Editor, NEW to, Edits(e, to), UNCHANGED <<catalog, entered>>,
         SecretSettled(e)'
  PROVE  CatalogInv'
<1>1. DOMAIN edit' = Editor /\ \A f \in Editor : SecretSettled(f)'
  BY EditsKeep
<1>2. \E S : catalog' \in Seq(S) /\ \A p \in S : WithItsUrl(p)'
  BY DEF CatalogInv, WithItsUrl
<1> QED BY <1>1, <1>2, Zenon DEF CatalogInv

LEMMA BeginUpdateKeeps ==
  ASSUME CatalogInv, NEW e \in Editor, NEW request, BeginUpdate(e, request)
  PROVE  CatalogInv'
<1> DEFINE config == request.config
<1>1. PICK existing \in WithId(request.id) :
        LET secret == KeepExistingSecret(config, existing, request.clear)
        IN /\ ~IsStatic(existing) /\ config.kind = existing.kind /\ secret # Refused
           /\ Edits(e, [step |-> IF request.slug = <<>> THEN "update" ELSE "slug",
                        request |-> request, slug |-> existing.slug, secret |-> secret])
  BY Zenon DEF BeginUpdate
<1> DEFINE secret == KeepExistingSecret(config, existing, request.clear)
           step1 == IF request.slug = <<>> THEN "update" ELSE "slug"
           to == [step |-> step1, request |-> request, slug |-> existing.slug, secret |-> secret]
<1>2. WithItsUrl(existing)
  <2>1. existing \notin ToSet(StaticProviders)
    <3>1. DOMAIN StaticProviders = 1..Len(StaticProviders)
      BY ProvidersAssumption
    <3> QED BY <1>1, <3>1, Zenon DEF IsStatic, Contains, ToSet
  <2>2. existing \in ToSet(catalog)
    BY <1>1, <2>1, Zenon DEF WithId
  <2>3. PICK S : catalog \in Seq(S) /\ \A p \in S : WithItsUrl(p)
    BY DEF CatalogInv
  <2>4. existing \in S
    BY <2>2, <2>3 DEF ToSet
  <2> QED BY <2>3, <2>4
<1>3. \/ config.secret \notin {NoSecret, Redacted} /\ secret = config.secret
      \/ config.kind = "oidc" /\ secret # NoSecret => <<config.url, secret>> \in entered
  <2>1. config.kind = existing.kind /\ secret # Refused
    BY <1>1
  <2> DEFINE new == config.secret \notin {NoSecret, Redacted}
             elsewhere == config.kind = "oidc" /\ config.url # existing.url /\ existing.secret # NoSecret
  <2>2. CASE request.clear
    <3>1. secret = NoSecret
      BY <2>1, <2>2, Zenon DEF KeepExistingSecret
    <3> QED BY <3>1
  <2>3. CASE ~request.clear /\ new
    <3>1. secret = config.secret
      BY <2>3, Zenon DEF KeepExistingSecret
    <3> QED BY <2>3, <3>1
  <2>4. CASE ~request.clear /\ ~new
    <3>1. secret = IF elsewhere THEN Refused ELSE existing.secret
      BY <2>4, Zenon DEF KeepExistingSecret
    <3>2. secret = existing.secret /\ ~elsewhere
      BY <2>1, <3>1
    <3> HIDE DEF secret, config
    <3> QED BY <1>2, <2>1, <3>2 DEF WithItsUrl
  <2> QED BY <2>2, <2>3, <2>4
<1>4. UNCHANGED <<catalog, entered>>
  BY Zenon DEF BeginUpdate
<1>5. Edits(e, to)
  BY <1>1
<1> HIDE DEF secret, step1
<1>6. edit'[e] = to
  BY <1>5 DEF CatalogInv, Edits
<1>7. SecretSettled(e)'
  BY <1>3, <1>4, <1>6 DEF SecretSettled
<1> QED BY <1>4, <1>5, <1>7, EditOnly

LEMMA StoreCreatedKeeps ==
  ASSUME CatalogInv, NEW e \in Editor, StoreCreated(e)
  PROVE  CatalogInv'
<1>0. PICK p : p = Provider(IdOf(created + 1), edit[e].slug, edit[e].request.config.secret,
                            edit[e].request)
  OBVIOUS
<1>1. /\ catalog' = Append(catalog, p) \/ catalog' = catalog
      /\ entered' = entered \cup {<<p.url, p.secret>>}
      /\ Edits(e, NoRequest)
  BY <1>0, Zenon DEF StoreCreated
<1>2. NoRequest.step \notin {"slug", "update"}
  BY DEF NoRequest
<1>3. SecretSettled(e)'
  BY <1>1, <1>2, SettledOtherwise
<1>4. WithItsUrl(p)' /\ entered \subseteq entered'
  BY <1>1 DEF WithItsUrl
<1>5. ASSUME NEW S, catalog \in Seq(S) PROVE catalog' \in Seq(S \cup {p})
  <2>1. catalog \in Seq(S \cup {p})
    BY <1>5, SeqMonotonic
  <2> QED BY <1>1, <2>1, AppendProperties
<1> QED BY <1>1, <1>3, <1>4, <1>5, CatalogKeeps

LEMMA StoreUpdatedKeeps ==
  ASSUME CatalogInv, NEW e \in Editor, StoreUpdated(e)
  PROVE  CatalogInv'
<1> DEFINE request == edit[e].request
<1>0. PICK p : p = Provider(request.id, edit[e].slug, edit[e].secret, request)
  OBVIOUS
<1>1. /\ edit[e].step = "update" /\ Edits(e, NoRequest)
      /\ catalog' = [i \in 1..Len(catalog) |-> IF catalog[i].id = p.id THEN p ELSE catalog[i]]
      /\ entered' = IF request.config.secret \in {NoSecret, Redacted} THEN entered
                    ELSE entered \cup {<<p.url, p.secret>>}
  BY <1>0, Zenon DEF StoreUpdated
<1>2. NoRequest.step \notin {"slug", "update"}
  BY DEF NoRequest
<1>3. SecretSettled(e)'
  BY <1>1, <1>2, SettledOtherwise
<1>4. p.kind = request.config.kind /\ p.url = request.config.url /\ p.secret = edit[e].secret
  BY <1>0 DEF Provider
<1>5. SecretSettled(e)
  BY DEF CatalogInv
<1>6. WithItsUrl(p)' /\ entered \subseteq entered'
  BY <1>1, <1>4, <1>5 DEF SecretSettled, WithItsUrl
<1>7. ASSUME NEW S, catalog \in Seq(S) PROVE catalog' \in Seq(S \cup {p})
  <2>1. Len(catalog) \in Nat /\ \A i \in 1..Len(catalog) : catalog[i] \in S
    BY <1>7
  <2>2. catalog' \in [1..Len(catalog) -> S \cup {p}]
    BY <1>1, <2>1
  <2> QED BY <2>1, <2>2, SeqDef
<1> QED BY <1>1, <1>3, <1>6, <1>7, CatalogKeeps

LEMMA DeleteStoredKeeps ==
  ASSUME CatalogInv, NEW e \in Editor, DeleteStored(e)
  PROVE  CatalogInv'
<1>1. /\ Edits(e, NoRequest) /\ entered' = entered
      /\ catalog' = catalog \/ \E k \in DOMAIN catalog : catalog' = RemoveAt(catalog, k)
  BY Zenon DEF DeleteStored
<1>2. NoRequest.step \notin {"slug", "update"}
  BY DEF NoRequest
<1>3. DOMAIN edit' = Editor /\ \A f \in Editor : SecretSettled(f)'
  BY <1>1, <1>2, SettledOtherwise, EditsKeep
<1>4. PICK S : catalog \in Seq(S) /\ \A p \in S : WithItsUrl(p)
  BY DEF CatalogInv
<1>5. catalog' \in Seq(S) /\ \A p \in S : WithItsUrl(p)'
  BY <1>1, <1>4, RemovedFrom DEF WithItsUrl
<1> QED BY <1>3, <1>5, Zenon DEF CatalogInv

LEMMA CatalogInvariance == ProvidersSpec => []CatalogInv
<1>1. ProvidersInit => CatalogInv
  <2> SUFFICES ASSUME ProvidersInit PROVE CatalogInv
    OBVIOUS
  <2>1. catalog \in Seq(ToSet(catalog))
    BY ProvidersAssumption DEF ProvidersInit
  <2>2. \A p \in ToSet(catalog) : WithItsUrl(p)
    BY DEF ProvidersInit, WithItsUrl
  <2>3. DOMAIN edit = Editor /\ \A e \in Editor : edit[e].step = "none"
    BY DEF ProvidersInit, NoRequest
  <2>4. \A e \in Editor : SecretSettled(e)
    BY <2>3 DEF SecretSettled
  <2> QED BY <2>1, <2>2, <2>3, <2>4, Zenon DEF CatalogInv
<1>2. CatalogInv /\ [ProvidersNext]_providerVars => CatalogInv'
  <2> SUFFICES ASSUME CatalogInv, [ProvidersNext]_providerVars PROVE CatalogInv'
    OBVIOUS
  <2>1. CASE UNCHANGED <<catalog, entered, edit>>
    BY <2>1 DEF CatalogInv, WithItsUrl, SecretSettled
  <2>2. ASSUME NEW j \in Journeys, NEW slug, NEW sent,
               \/ BeginJourney(j, slug) \/ Callback(j, slug)
               \/ CompleteJourney(j, sent) \/ LoseJourney(j)
        PROVE  UNCHANGED <<catalog, entered, edit>>
    BY <2>2, Zenon DEF BeginJourney, Callback, CompleteJourney, LoseJourney, Travels
  <2>3. ASSUME NEW e \in Editor, NEW request, BeginCreate(e, request) PROVE CatalogInv'
    <3>1. PICK slug : Edits(e, [step |-> "create", request |-> request, slug |-> slug])
      BY <2>3, Zenon DEF BeginCreate
    <3>2. [step |-> "create", request |-> request, slug |-> slug].step = "create"
      OBVIOUS
    <3>3. SecretSettled(e)'
      BY <3>1, <3>2, SettledOtherwise
    <3>4. UNCHANGED <<catalog, entered>>
      BY <2>3, Zenon DEF BeginCreate
    <3> QED BY <3>1, <3>3, <3>4, EditOnly
  <2>4. ASSUME NEW e \in Editor, NEW request, BeginDelete(e, request) PROVE CatalogInv'
    <3>1. Edits(e, [step |-> "delete", request |-> request]) /\ UNCHANGED <<catalog, entered>>
      BY <2>4, Zenon DEF BeginDelete
    <3>2. [step |-> "delete", request |-> request].step = "delete"
      OBVIOUS
    <3>3. SecretSettled(e)'
      BY <3>1, <3>2, SettledOtherwise
    <3> QED BY <3>1, <3>3, EditOnly
  <2>5. ASSUME NEW e \in Editor, CheckSlug(e) PROVE CatalogInv'
    <3>1. edit[e].step = "slug" /\ UNCHANGED <<catalog, entered>>
      BY <2>5, Zenon DEF CheckSlug
    <3>2. CASE Edits(e, NoRequest)
      <4>1. NoRequest.step = "none"
        BY DEF NoRequest
      <4>2. SecretSettled(e)'
        BY <3>2, <4>1, SettledOtherwise
      <4> QED BY <3>1, <3>2, <4>2, EditOnly
    <3>3. CASE ~Edits(e, NoRequest)
      <4>1. PICK slug : Edits(e, [edit[e] EXCEPT !.step = "update", !.slug = slug])
        BY <2>5, <3>3, Zenon DEF CheckSlug
      <4>2. SecretSettled(e)
        BY DEF CatalogInv
      <4>3. edit'[e] = [edit[e] EXCEPT !.step = "update", !.slug = slug]
        BY <4>1 DEF Edits, CatalogInv
      <4>4. /\ DOMAIN edit[e] = {"step", "request", "slug", "secret"}
            /\ DOMAIN edit'[e] = DOMAIN edit[e]
            /\ edit'[e].request = edit[e].request /\ edit'[e].secret = edit[e].secret
        BY <3>1, <4>2, <4>3 DEF SecretSettled
      <4>5. SecretSettled(e)'
        BY <3>1, <4>2, <4>4 DEF SecretSettled
      <4> QED BY <3>1, <4>1, <4>5, EditOnly
    <3> QED BY <3>2, <3>3
  <2>6. ASSUME NEW e \in Editor, AbandonEdit(e) PROVE CatalogInv'
    <3>1. Edits(e, NoRequest) /\ UNCHANGED <<catalog, entered>> /\ NoRequest.step = "none"
      BY <2>6 DEF AbandonEdit, NoRequest
    <3>2. SecretSettled(e)'
      BY <3>1, SettledOtherwise
    <3> QED BY <3>1, <3>2, EditOnly
  <2>7. ASSUME NEW e \in Editor, NEW request,
               \/ BeginUpdate(e, request) \/ StoreCreated(e) \/ StoreUpdated(e) \/ DeleteStored(e)
        PROVE  CatalogInv'
    BY <2>7, BeginUpdateKeeps, StoreCreatedKeeps, StoreUpdatedKeeps, DeleteStoredKeeps, Zenon
  <2> QED BY <2>1, <2>2, <2>3, <2>4, <2>5, <2>6, <2>7, Zenon DEF ProvidersNext, providerVars
<1> QED BY <1>1, <1>2, PTL DEF ProvidersSpec

\* However admins' edits of the providers interleave, an update based on a
\* provider that was since changed included, a stored secret is only ever stored
\* with a url it was typed in with: no update sends it to another server
\* (keep_existing_secret).
THEOREM SecretsStayWithUrl == ProvidersSpec => []SecretStaysWithUrl
<1>1. CatalogInv => SecretStaysWithUrl
  <2> SUFFICES ASSUME CatalogInv, NEW i \in 1..Len(catalog) PROVE WithItsUrl(catalog[i])
    BY Zenon DEF SecretStaysWithUrl, WithItsUrl
  <2>1. PICK S : catalog \in Seq(S) /\ \A p \in S : WithItsUrl(p)
    BY DEF CatalogInv
  <2>2. catalog[i] \in S
    BY <2>1
  <2> QED BY <2>1, <2>2
<1> QED BY <1>1, CatalogInvariance, PTL

----------------------------------------------------------------------------
(* Slugs of providers *)

\* Text of letters, digits and single hyphens that begins with none.
Clean(s) ==
  /\ \A i \in 1..Len(s) : s[i] # Hyphen => IsAlphanumeric(s[i]) /\ Lowercase(s[i]) = s[i]
  /\ s # <<>> => s[1] # Hyphen
  /\ \A i \in 2..Len(s) : s[i] = Hyphen => s[i - 1] # Hyphen

LEMMA Lowercased ==
  ASSUME NEW S, NEW c \in S
  PROVE  Lowercase(c) \in S \cup {"a"} /\ Lowercase(Lowercase(c)) = Lowercase(c)
  BY DEF Lowercase

\* A character more keeps text clean.
LEMMA AddedIsClean ==
  ASSUME NEW S, NEW s \in Seq(S \cup {"a", Hyphen}), Clean(s), NEW c \in S
  PROVE  AddToSlug(s, c) \in Seq(S \cup {"a", Hyphen}) /\ Clean(AddToSlug(s, c))
<1> DEFINE T == S \cup {"a", Hyphen}
<1>1. ASSUME NEW d \in T, d # Hyphen => IsAlphanumeric(d) /\ Lowercase(d) = d,
             d = Hyphen => s # <<>> /\ Last(s) # Hyphen
      PROVE  Append(s, d) \in Seq(T) /\ Clean(Append(s, d))
  <2>1. PICK n \in Nat : n = Len(s)
    OBVIOUS
  <2>2. PICK t : t = Append(s, d)
    OBVIOUS
  <2>3. /\ t \in Seq(T) /\ Len(t) = n + 1 /\ t[n + 1] = d /\ t # <<>>
        /\ \A i \in 1..n : t[i] = s[i]
    BY <2>1, <2>2, AppendProperties
  <2>4. \A i \in 1..(n + 1) : t[i] # Hyphen => IsAlphanumeric(t[i]) /\ Lowercase(t[i]) = t[i]
    BY <1>1, <2>1, <2>3 DEF Clean
  <2>5. t[1] # Hyphen
    <3>1. CASE s = <<>>
      <4>1. n = 0
        BY <2>1, <3>1
      <4> QED BY <1>1, <2>3, <3>1, <4>1
    <3>2. CASE s # <<>>
      <4>1. 1 \in 1..n
        BY <2>1, <3>2
      <4>2. s[1] # Hyphen
        BY <3>2, Zenon DEF Clean
      <4> QED BY <2>3, <4>1, <4>2
    <3> QED BY <3>1, <3>2
  <2>6. \A i \in 2..(n + 1) : t[i] = Hyphen => t[i - 1] # Hyphen
    <3> SUFFICES ASSUME NEW i \in 2..(n + 1), t[i] = Hyphen PROVE t[i - 1] # Hyphen
      OBVIOUS
    <3>1. CASE i = n + 1
      <4>1. d = Hyphen /\ n \in 1..n
        BY <2>3, <3>1
      <4>2. s[n] # Hyphen
        BY <1>1, <2>1, <4>1 DEF Last
      <4> QED BY <2>3, <3>1, <4>1, <4>2
    <3>2. CASE i # n + 1
      <4>1. i \in 2..n /\ i \in 1..n /\ i - 1 \in 1..n
        BY <3>2
      <4>2. t[i] = s[i] /\ t[i - 1] = s[i - 1]
        BY <2>3, <4>1
      <4>3. s[i] = Hyphen => s[i - 1] # Hyphen
        BY <2>1, <4>1 DEF Clean
      <4> QED BY <4>2, <4>3
    <3> QED BY <3>1, <3>2
  <2> QED BY <2>2, <2>3, <2>4, <2>5, <2>6 DEF Clean
<1>2. CASE IsAlphanumeric(Lowercase(c))
  <2>1. Lowercase(c) \in T /\ Lowercase(Lowercase(c)) = Lowercase(c)
    BY Lowercased
  <2>2. Lowercase(c) # Hyphen
    BY <1>2 DEF IsAlphanumeric
  <2>3. AddToSlug(s, c) = Append(s, Lowercase(c))
    BY <1>2, Zenon DEF AddToSlug
  <2>4. PICK d \in T : d = Lowercase(c)
    BY <2>1
  <2>5. IsAlphanumeric(d) /\ Lowercase(d) = d /\ d # Hyphen
    BY <1>2, <2>1, <2>2, <2>4
  <2> HIDE DEF T
  <2>6. Append(s, d) \in Seq(T) /\ Clean(Append(s, d))
    BY <1>1, <2>5
  <2> QED BY <2>3, <2>4, <2>6 DEF T
<1>3. CASE ~IsAlphanumeric(Lowercase(c)) /\ s # <<>> /\ Last(s) # Hyphen
  <2>1. AddToSlug(s, c) = Append(s, Hyphen)
    BY <1>3, Zenon DEF AddToSlug
  <2>2. Hyphen \in T
    OBVIOUS
  <2> HIDE DEF T
  <2>3. Append(s, Hyphen) \in Seq(T) /\ Clean(Append(s, Hyphen))
    BY <1>1, <1>3, <2>2
  <2> QED BY <2>1, <2>3 DEF T
<1>4. CASE ~IsAlphanumeric(Lowercase(c)) /\ ~(s # <<>> /\ Last(s) # Hyphen)
  BY <1>4, Zenon DEF AddToSlug
<1> QED BY <1>2, <1>3, <1>4

\* The slugs of the first k characters of a name, by k.
Slugs(name, n, f) == f = [k \in 0..n |-> IF k = 0 THEN <<>> ELSE AddToSlug(f[k - 1], name[k])]

LEMMA SlugsOne ==
  ASSUME NEW name, NEW n \in Nat, NEW f, Slugs(name, n, f), NEW k \in 0..n
  PROVE  f[k] = IF k = 0 THEN <<>> ELSE AddToSlug(f[k - 1], name[k])
<1> DEFINE G(j) == IF j = 0 THEN <<>> ELSE AddToSlug(f[j - 1], name[j])
<1>1. f = [j \in 0..n |-> G(j)]
  BY Zenon DEF Slugs
<1> HIDE DEF G
<1>2. f[k] = G(k)
  BY <1>1
<1> QED BY <1>2 DEF G

LEMMA SlugsExist ==
  ASSUME NEW name, NEW n \in Nat
  PROVE  \E f : Slugs(name, n, f)
<1> DEFINE T == {k \in 0..n : ~\E f : Slugs(name, k, f)}
<1> SUFFICES ASSUME T # {} PROVE FALSE
  OBVIOUS
<1>1. PICK m \in T : \A k \in T : m <= k
  <2>1. T \subseteq Nat
    OBVIOUS
  <2> HIDE DEF T
  <2> QED BY <2>1, LeastNumber
<1>2. m # 0
  <2> SUFFICES \E f : Slugs(name, 0, f)
    BY <1>1
  <2>1. PICK f : f = [k \in 0..0 |-> <<>>]
    OBVIOUS
  <2>2. f = [k \in 0..0 |-> IF k = 0 THEN <<>> ELSE AddToSlug(f[k - 1], name[k])]
    BY <2>1
  <2> QED BY <2>2, Zenon DEF Slugs
<1>3. PICK f : Slugs(name, m - 1, f)
  <2>1. m - 1 \in 0..n /\ ~(m <= m - 1)
    BY <1>2
  <2>2. m - 1 \notin T
    BY <1>1, <2>1
  <2> QED BY <2>1, <2>2
<1>4. PICK g : g = [k \in 0..m |-> IF k = m THEN AddToSlug(f[m - 1], name[m]) ELSE f[k]]
  OBVIOUS
<1>5. \A k \in 0..m : g[k] = IF k = 0 THEN <<>> ELSE AddToSlug(g[k - 1], name[k])
  <2> SUFFICES ASSUME NEW k \in 0..m
               PROVE  g[k] = IF k = 0 THEN <<>> ELSE AddToSlug(g[k - 1], name[k])
    OBVIOUS
  <2>1. m \in Nat /\ m >= 1 /\ m - 1 \in Nat
    BY <1>2
  <2>2. CASE k = m
    <3>1. g[m] = AddToSlug(f[m - 1], name[m]) /\ g[m - 1] = f[m - 1]
      BY <1>4, <2>1
    <3> QED BY <2>1, <2>2, <3>1
  <2>3. CASE k # m
    <3>1. k \in 0..(m - 1) /\ (k # 0 => k - 1 \in 0..(m - 1))
      BY <2>1, <2>3
    <3>2. f[k] = IF k = 0 THEN <<>> ELSE AddToSlug(f[k - 1], name[k])
      BY <1>3, <2>1, <3>1, SlugsOne
    <3>3. g[k] = f[k] /\ (k # 0 => g[k - 1] = f[k - 1])
      BY <1>4, <2>1, <3>1
    <3> QED BY <3>2, <3>3
  <2> QED BY <2>2, <2>3
<1>6. g = [k \in 0..m |-> g[k]]
  BY <1>4
<1>7. Slugs(name, m, g)
  <2> DEFINE G(k) == IF k = 0 THEN <<>> ELSE AddToSlug(g[k - 1], name[k])
  <2>1. \A k \in 0..m : g[k] = G(k)
    BY <1>5
  <2> HIDE DEF G
  <2>2. g = [k \in 0..m |-> G(k)]
    BY <1>6, <2>1
  <2> QED BY <2>2, Zenon DEF Slugs, G
<1> QED BY <1>1, <1>7

LEMMA HyphenatedIs ==
  ASSUME NEW name, Len(name) \in Nat
  PROVE  \E f : Slugs(name, Len(name), f) /\ Hyphenated(name) = f[Len(name)]
<1> DEFINE F == CHOOSE f : f = [k \in 0..Len(name) |->
                                  IF k = 0 THEN <<>> ELSE AddToSlug(f[k - 1], name[k])]
<1>1. Hyphenated(name) = F[Len(name)]
  BY Zenon DEF Hyphenated
<1>2. F = [k \in 0..Len(name) |-> IF k = 0 THEN <<>> ELSE AddToSlug(F[k - 1], name[k])]
  BY SlugsExist, Zenon DEF Slugs
<1> HIDE DEF F
<1>3. Slugs(name, Len(name), F)
  BY <1>2, Zenon DEF Slugs
<1> QED BY <1>1, <1>3

\* What a name makes is clean.
LEMMA HyphenatedIsClean ==
  ASSUME NEW S, NEW name \in Seq(S)
  PROVE  Hyphenated(name) \in Seq(S \cup {"a", Hyphen}) /\ Clean(Hyphenated(name))
<1>1. PICK n \in Nat : n = Len(name)
  OBVIOUS
<1>2. PICK f : Slugs(name, n, f) /\ Hyphenated(name) = f[n]
  BY <1>1, HyphenatedIs
<1> DEFINE Q(k) == f[k] \in Seq(S \cup {"a", Hyphen}) /\ Clean(f[k])
           T == {k \in 0..n : ~Q(k)}
<1> SUFFICES ASSUME T # {} PROVE FALSE
  BY <1>2
<1>3. PICK m \in T : \A k \in T : m <= k
  <2>1. T \subseteq Nat
    OBVIOUS
  <2> HIDE DEF T
  <2> QED BY <2>1, LeastNumber
<1>4. m \in 0..n /\ f[m] = IF m = 0 THEN <<>> ELSE AddToSlug(f[m - 1], name[m])
  BY <1>2, SlugsOne
<1>5. m # 0
  <2> SUFFICES Q(0)
    BY <1>3
  <2>1. 0 \in 0..n
    OBVIOUS
  <2>2. f[0] = <<>>
    BY <1>2, <2>1, SlugsOne
  <2> QED BY <2>2 DEF Clean
<1>6. Q(m - 1)
  <2>1. m - 1 \in 0..n /\ ~(m <= m - 1)
    BY <1>4, <1>5
  <2>2. m - 1 \notin T
    BY <1>3, <2>1
  <2> HIDE DEF Q
  <2> QED BY <2>1, <2>2
<1>7. name[m] \in S
  BY <1>1, <1>4, <1>5
<1>8. Q(m)
  <2>1. f[m] = AddToSlug(f[m - 1], name[m])
    BY <1>4, <1>5
  <2> QED BY <1>6, <1>7, <2>1, AddedIsClean
<1> QED BY <1>3, <1>8

\* A character of clean text comes next as it is.
LEMMA CleanStays ==
  ASSUME NEW S, NEW s \in Seq(S), Clean(s), NEW k \in 1..Len(s)
  PROVE  AddToSlug(SubSeq(s, 1, k - 1), s[k]) = SubSeq(s, 1, k)
<1>1. PICK r, t : r = SubSeq(s, 1, k - 1) /\ t = SubSeq(s, 1, k)
  OBVIOUS
<1>2. k \in Nat /\ k - 1 \in Nat /\ Len(s) \in Nat
  OBVIOUS
<1>3. /\ r \in Seq(S) /\ Len(r) = k - 1 /\ t \in Seq(S) /\ Len(t) = k
      /\ \A i \in 1..(k - 1) : r[i] = s[i]
      /\ \A i \in 1..k : t[i] = s[i]
  BY <1>1, <1>2
<1>4. s[k] \in S
  OBVIOUS
<1>5. t = Append(r, s[k])
  <2>1. PICK u : u = Append(r, s[k])
    OBVIOUS
  <2>2. /\ u \in Seq(S) /\ Len(u) = k /\ u[k] = s[k]
        /\ \A i \in 1..(k - 1) : u[i] = r[i]
    BY <1>2, <1>3, <1>4, <2>1, AppendProperties
  <2>3. \A i \in 1..k : u[i] = t[i]
    BY <1>2, <1>3, <2>2
  <2>4. u = t
    BY <1>3, <2>2, <2>3
  <2> QED BY <2>1, <2>4
<1>6. CASE s[k] # Hyphen
  <2>1. IsAlphanumeric(s[k]) /\ Lowercase(s[k]) = s[k]
    BY <1>6 DEF Clean
  <2>2. AddToSlug(r, s[k]) = Append(r, s[k])
    BY <2>1 DEF AddToSlug
  <2> QED BY <1>1, <1>5, <2>2
<1>7. CASE s[k] = Hyphen
  <2>1. k # 1 /\ k \in 2..Len(s)
    BY <1>2, <1>7 DEF Clean
  <2>2. s[k - 1] # Hyphen
    BY <1>7, <2>1 DEF Clean
  <2>3. r # <<>> /\ Last(r) # Hyphen
    BY <1>2, <1>3, <2>1, <2>2 DEF Last
  <2>4. ~IsAlphanumeric(Lowercase(s[k]))
    BY <1>7 DEF Lowercase, IsAlphanumeric, Hyphen
  <2>5. AddToSlug(r, s[k]) = Append(r, Hyphen)
    BY <2>3, <2>4, Zenon DEF AddToSlug
  <2> QED BY <1>1, <1>5, <1>7, <2>5
<1> QED BY <1>6, <1>7

LEMMA CleanIsItself ==
  ASSUME NEW S, NEW s \in Seq(S), Clean(s)
  PROVE  Hyphenated(s) = s
<1>1. PICK n \in Nat : n = Len(s)
  OBVIOUS
<1>2. PICK f : Slugs(s, n, f) /\ Hyphenated(s) = f[n]
  BY <1>1, HyphenatedIs
<1> DEFINE T == {k \in 0..n : f[k] # SubSeq(s, 1, k)}
<1>3. T = {}
  <2> SUFFICES ASSUME T # {} PROVE FALSE
    OBVIOUS
  <2>1. PICK m \in T : \A k \in T : m <= k
    <3>1. T \subseteq Nat
      OBVIOUS
    <3> HIDE DEF T
    <3> QED BY <3>1, LeastNumber
  <2>2. m \in 0..n /\ f[m] = IF m = 0 THEN <<>> ELSE AddToSlug(f[m - 1], s[m])
    BY <1>2, SlugsOne
  <2>3. m # 0
    <3>1. SubSeq(s, 1, 0) = <<>>
      OBVIOUS
    <3> QED BY <2>1, <2>2, <3>1
  <2>4. f[m - 1] = SubSeq(s, 1, m - 1)
    <3>1. m - 1 \in 0..n /\ ~(m <= m - 1)
      BY <2>2, <2>3
    <3>2. m - 1 \notin T
      BY <2>1, <3>1
    <3> QED BY <3>1, <3>2
  <2>5. AddToSlug(SubSeq(s, 1, m - 1), s[m]) = SubSeq(s, 1, m)
    <3>1. m \in 1..Len(s)
      BY <1>1, <2>2, <2>3
    <3> QED BY <3>1, CleanStays
  <2> QED BY <2>1, <2>2, <2>3, <2>4, <2>5
<1>4. f[n] = SubSeq(s, 1, n)
  BY <1>3
<1>5. SubSeq(s, 1, n) = s
  BY <1>1
<1> QED BY <1>2, <1>4, <1>5

\* The last place a slug is cut at.
LEMMA LastLetter ==
  ASSUME NEW s, Len(s) \in Nat
  PROVE  \E k \in 0..Len(s) :
           /\ TrimHyphens(s) = SubSeq(s, 1, k)
           /\ k # 0 => s[k] # Hyphen
           /\ \A i \in 1..Len(s) : s[i] # Hyphen => i <= k
<1> DEFINE Letters == {0} \cup {i \in 1..Len(s) : s[i] # Hyphen}
<1>1. PICK k \in Letters : \A i \in Letters : i <= k
  <2>1. CASE Letters = {0}
    <3>1. 0 \in Letters /\ \A i \in Letters : i <= 0
      BY <2>1
    <3> HIDE DEF Letters
    <3> QED BY <3>1, Zenon
  <2>2. CASE Letters # {0}
    <3> DEFINE Places == {i \in 1..Len(s) : s[i] # Hyphen}
    <3>1. Places \subseteq 1..Len(s) /\ Places # {}
      BY <2>2
    <3>2. PICK k \in Places : \A i \in Places : i <= k
      <4> HIDE DEF Places
      <4> QED BY <3>1, LastPlace
    <3>3. k \in Letters /\ \A i \in Letters : i <= k
      BY <3>2
    <3> HIDE DEF Letters, Places
    <3> QED BY <3>3
  <2> QED BY <2>1, <2>2
<1>2. Max(Letters) = k
  <2>1. Letters \subseteq Nat
    OBVIOUS
  <2>2. \E m \in Letters : \A i \in Letters : m >= i
    <3> HIDE DEF Letters
    <3> QED BY <1>1, <2>1
  <2>3. Max(Letters) \in Letters /\ \A i \in Letters : Max(Letters) >= i
    <3> HIDE DEF Letters
    <3> QED BY <2>2 DEF Max
  <2> HIDE DEF Letters
  <2>4. PICK m \in Nat : m = Max(Letters)
    BY <2>1, <2>3
  <2>5. m <= k /\ m >= k /\ k \in Nat
    BY <1>1, <2>1, <2>3, <2>4
  <2> QED BY <2>4, <2>5
<1>3. TrimHyphens(s) = SubSeq(s, 1, k)
  BY <1>2, Zenon DEF TrimHyphens
<1> QED BY <1>1, <1>3

\* Cutting leaves clean text.
LEMMA CutIsClean ==
  ASSUME NEW S, NEW s \in Seq(S), Clean(s), NEW k \in 0..Len(s)
  PROVE  /\ SubSeq(s, 1, k) \in Seq(S) /\ Len(SubSeq(s, 1, k)) = k
         /\ \A i \in 1..k : SubSeq(s, 1, k)[i] = s[i]
         /\ Clean(SubSeq(s, 1, k))
<1>1. PICK t : t = SubSeq(s, 1, k)
  OBVIOUS
<1>2. k \in Nat /\ Len(s) \in Nat /\ k <= Len(s)
  OBVIOUS
<1>3. t \in Seq(S) /\ Len(t) = k /\ \A i \in 1..k : t[i] = s[i]
  BY <1>1, <1>2
<1>4. \A i \in 1..k : t[i] # Hyphen => IsAlphanumeric(t[i]) /\ Lowercase(t[i]) = t[i]
  BY <1>2, <1>3 DEF Clean
<1>5. t # <<>> => t[1] # Hyphen
  <2> SUFFICES ASSUME t # <<>> PROVE t[1] # Hyphen
    OBVIOUS
  <2>1. k # 0
    BY <1>3
  <2>2. 1 \in 1..k /\ s # <<>>
    BY <1>2, <2>1
  <2>3. s[1] # Hyphen
    BY <2>2 DEF Clean
  <2> QED BY <1>3, <2>2, <2>3
<1>6. \A i \in 2..k : t[i] = Hyphen => t[i - 1] # Hyphen
  <2> SUFFICES ASSUME NEW i \in 2..k, t[i] = Hyphen PROVE t[i - 1] # Hyphen
    OBVIOUS
  <2>1. i \in 1..k /\ i - 1 \in 1..k /\ i \in 2..Len(s)
    BY <1>2
  <2>2. s[i] = Hyphen => s[i - 1] # Hyphen
    BY <2>1 DEF Clean
  <2> QED BY <1>3, <2>1, <2>2
<1> QED BY <1>1, <1>3, <1>4, <1>5, <1>6 DEF Clean

LEMMA SmallerOfTwo ==
  ASSUME NEW a \in Int, NEW b \in Int
  PROVE  Min({a, b}) = IF a <= b THEN a ELSE b
<1>1. \E x \in {a, b} : \A y \in {a, b} : x <= y
  OBVIOUS
<1>2. Min({a, b}) \in {a, b} /\ \A y \in {a, b} : Min({a, b}) <= y
  BY <1>1 DEF Min
<1> QED BY <1>2

\* The slug a name makes is one that can be typed: making a slug of it again
\* changes nothing.
LEMMA SlugifyIsValid ==
  ASSUME NEW S, NEW name \in Seq(S), Slugify(name) # <<>>
  PROVE  ValidSlug(Slugify(name))
<1> DEFINE T == S \cup {"a", Hyphen}
<1>1. PICK whole \in Seq(T) : whole = Hyphenated(name) /\ Clean(whole)
  BY HyphenatedIsClean
<1>2. PICK n \in 0..Len(whole) : n = Min({Len(whole), MaxSlugLength}) /\ n <= MaxSlugLength
  BY SmallerOfTwo DEF MaxSlugLength
<1>3. PICK cut : cut = SubSeq(whole, 1, n)
  OBVIOUS
<1>4. cut \in Seq(T) /\ Len(cut) = n /\ Clean(cut)
  <2> HIDE DEF T
  <2> QED BY <1>1, <1>3, CutIsClean
<1>5. Slugify(name) = TrimHyphens(cut)
  BY <1>1, <1>2, <1>3, Zenon DEF Slugify
<1>6. Len(cut) \in Nat
  BY <1>4
<1>7. PICK k \in 0..Len(cut) : /\ TrimHyphens(cut) = SubSeq(cut, 1, k)
                               /\ k # 0 => cut[k] # Hyphen
  BY <1>6, LastLetter
<1>8. PICK slug : slug = Slugify(name)
  OBVIOUS
<1>9. slug = SubSeq(cut, 1, k)
  BY <1>5, <1>7, <1>8
<1>10. slug \in Seq(T) /\ Len(slug) = k /\ Clean(slug) /\ \A i \in 1..k : slug[i] = cut[i]
  <2> HIDE DEF T
  <2> QED BY <1>4, <1>9, CutIsClean
<1>11. k # 0 /\ k \in Nat /\ k <= MaxSlugLength /\ slug[k] # Hyphen
  <2>1. k # 0
    BY <1>8, <1>10
  <2>2. k \in 1..k /\ k \in Nat /\ k <= n
    BY <1>2, <1>4, <2>1
  <2>3. slug[k] = cut[k] /\ cut[k] # Hyphen
    BY <1>7, <1>10, <2>1, <2>2
  <2> QED BY <1>2, <2>1, <2>2, <2>3 DEF MaxSlugLength
<1>12. Hyphenated(slug) = slug
  <2> HIDE DEF T
  <2> QED BY <1>10, CleanIsItself
<1>13. Min({Len(slug), MaxSlugLength}) = k /\ SubSeq(slug, 1, k) = slug
  <2>1. Min({Len(slug), MaxSlugLength}) = k
    BY <1>10, <1>11, SmallerOfTwo DEF MaxSlugLength
  <2>2. SubSeq(slug, 1, k) = slug
    BY <1>10
  <2> QED BY <2>1, <2>2
<1>14. TrimHyphens(slug) = slug
  <2>1. Len(slug) \in Nat
    BY <1>10
  <2>2. PICK l \in 0..Len(slug) :
          /\ TrimHyphens(slug) = SubSeq(slug, 1, l)
          /\ \A i \in 1..Len(slug) : slug[i] # Hyphen => i <= l
    BY <2>1, LastLetter
  <2>3. l = k
    <3>1. k \in 1..Len(slug)
      BY <1>10, <1>11
    <3>2. k <= l
      BY <1>11, <2>2, <3>1
    <3> QED BY <1>10, <1>11, <3>2
  <2> QED BY <1>13, <2>2, <2>3
<1>15. Slugify(slug) = slug
  BY <1>12, <1>13, <1>14, Zenon DEF Slugify
<1>16. slug # <<>> /\ Len(slug) <= MaxSlugLength
  BY <1>8, <1>10, <1>11
<1> QED BY <1>8, <1>15, <1>16, Zenon DEF ValidSlug

SlugFits(slug) == slug # <<>> => ValidSlug(slug)

\* The slug a request settled on is valid, and one that is still to be looked
\* at was typed in.
SlugSettled(e) ==
  /\ edit[e].step \in {"create", "slug", "update"} => SlugFits(edit[e].slug)
  /\ edit[e].step = "slug" => /\ DOMAIN edit[e] = {"step", "request", "slug", "secret"}
                              /\ edit[e].request.slug # <<>>

SlugsInv ==
  /\ \E S : catalog \in Seq(S) /\ \A p \in S : SlugFits(p.slug)
  /\ \A request \in agenda : request.op = "create" => request.name \in Seq(ToSet(request.name))
  /\ DOMAIN edit = Editor
  /\ \A e \in Editor : SlugSettled(e)

\* A slug that passes validate_provider_slug is valid.
LEMMA SlugForIsValid ==
  ASSUME NEW request, NEW except, NEW slug \in SlugFor(request, except),
         request.slug = <<>> => request.name \in Seq(ToSet(request.name))
  PROVE  ValidSlug(slug)
<1> DEFINE given == IF request.slug = <<>> THEN Slugify(request.name) ELSE request.slug
           usable == IF request.slug = <<>> THEN given # <<>> ELSE ValidSlug(given)
           taken == \E p \in ToSet(MergeProviders(catalog)) : p.id # except /\ SlugOf(p) = given
<1>1. SlugFor(request, except) = IF usable /\ ~taken THEN {given} ELSE {}
  BY Zenon DEF SlugFor
<1>2. slug = given /\ usable
  <2> HIDE DEF usable, taken, given
  <2> QED BY <1>1
<1>3. CASE request.slug = <<>>
  <2>1. slug = Slugify(request.name) /\ slug # <<>>
    BY <1>2, <1>3
  <2> QED BY <1>3, <2>1, SlugifyIsValid
<1>4. CASE request.slug # <<>>
  BY <1>2, <1>4
<1> QED BY <1>3, <1>4

\* One request goes on.
LEMMA SlugEdits ==
  ASSUME SlugsInv, NEW e \in Editor, NEW to, Edits(e, to), agenda' \subseteq agenda,
         to.step \in {"create", "slug", "update"} => SlugFits(to.slug),
         to.step = "slug" => /\ DOMAIN to = {"step", "request", "slug", "secret"}
                             /\ to.request.slug # <<>>
  PROVE  /\ DOMAIN edit' = Editor
         /\ \A f \in Editor : SlugSettled(f)'
         /\ \A request \in agenda' : request.op = "create" => request.name \in Seq(ToSet(request.name))
<1>1. /\ DOMAIN edit' = Editor /\ edit'[e] = to
      /\ \A f \in Editor : f # e => edit'[f] = edit[f]
  BY DEF SlugsInv, Edits
<1>2. SlugSettled(e)'
  BY <1>1 DEF SlugSettled
<1>3. ASSUME NEW f \in Editor, f # e PROVE SlugSettled(f)'
  <2>1. SlugSettled(f) /\ edit'[f] = edit[f]
    BY <1>1, <1>3 DEF SlugsInv
  <2> QED BY <2>1 DEF SlugSettled
<1>4. \A request \in agenda' : request.op = "create" => request.name \in Seq(ToSet(request.name))
  BY DEF SlugsInv
<1> QED BY <1>1, <1>2, <1>3, <1>4, Zenon

\* A request that ends, or that stores nothing.
LEMMA SlugEnds ==
  ASSUME SlugsInv, NEW e \in Editor, NEW to, Edits(e, to), agenda' \subseteq agenda,
         to.step \notin {"create", "slug", "update"}, catalog' = catalog
  PROVE  SlugsInv'
<1>1. /\ DOMAIN edit' = Editor /\ \A f \in Editor : SlugSettled(f)'
      /\ \A request \in agenda' : request.op = "create" => request.name \in Seq(ToSet(request.name))
  BY SlugEdits
<1>2. \E S : catalog' \in Seq(S) /\ \A p \in S : SlugFits(p.slug)
  BY DEF SlugsInv
<1> QED BY <1>1, <1>2, Zenon DEF SlugsInv

LEMMA SlugBegins ==
  ASSUME SlugsInv, NEW e \in Editor, NEW request, BeginCreate(e, request) \/ BeginUpdate(e, request)
  PROVE  SlugsInv'
<1>1. /\ catalog' = catalog /\ agenda' \subseteq agenda /\ request \in agenda
  BY Zenon DEF BeginCreate, BeginUpdate, Takes
<1>2. PICK to : /\ Edits(e, to)
                /\ to.step \in {"create", "slug", "update"} => SlugFits(to.slug)
                /\ to.step = "slug" => /\ DOMAIN to = {"step", "request", "slug", "secret"}
                                       /\ to.request.slug # <<>>
  <2>1. CASE BeginCreate(e, request)
    <3>1. PICK slug \in SlugFor(request, <<>>) :
            Edits(e, [step |-> "create", request |-> request, slug |-> slug])
      BY <2>1, Zenon DEF BeginCreate
    <3>2. request.op = "create"
      BY <2>1, Zenon DEF BeginCreate, Takes
    <3>3. request.name \in Seq(ToSet(request.name))
      BY <1>1, <3>2 DEF SlugsInv
    <3>4. ValidSlug(slug)
      BY <3>3, SlugForIsValid
    <3>5. PICK to : to = [step |-> "create", request |-> request, slug |-> slug]
      OBVIOUS
    <3>6. to.step = "create" /\ SlugFits(to.slug)
      BY <3>4, <3>5 DEF SlugFits
    <3> QED BY <3>1, <3>5, <3>6
  <2>2. CASE BeginUpdate(e, request)
    <3>1. PICK existing, secret :
            /\ existing \in WithId(request.id) /\ ~IsStatic(existing)
            /\ Edits(e, [step |-> IF request.slug = <<>> THEN "update" ELSE "slug",
                         request |-> request, slug |-> existing.slug, secret |-> secret])
      BY <2>2, Zenon DEF BeginUpdate
    <3>2. SlugFits(existing.slug)
      <4>1. existing \notin ToSet(StaticProviders)
        <5>1. DOMAIN StaticProviders = 1..Len(StaticProviders)
          BY ProvidersAssumption
        <5> QED BY <3>1, <5>1, Zenon DEF IsStatic, Contains, ToSet
      <4>2. existing \in ToSet(catalog)
        BY <3>1, <4>1, Zenon DEF WithId
      <4>3. PICK S : catalog \in Seq(S) /\ \A p \in S : SlugFits(p.slug)
        BY DEF SlugsInv
      <4>4. existing \in S
        BY <4>2, <4>3 DEF ToSet
      <4> QED BY <4>3, <4>4
    <3>3. PICK to : to = [step |-> IF request.slug = <<>> THEN "update" ELSE "slug",
                          request |-> request, slug |-> existing.slug, secret |-> secret]
      OBVIOUS
    <3>4. /\ SlugFits(to.slug) /\ DOMAIN to = {"step", "request", "slug", "secret"}
          /\ to.step = "slug" => to.request.slug # <<>>
      BY <3>2, <3>3
    <3> QED BY <3>1, <3>3, <3>4
  <2> QED BY <2>1, <2>2
<1>3. /\ DOMAIN edit' = Editor /\ \A f \in Editor : SlugSettled(f)'
      /\ \A r \in agenda' : r.op = "create" => r.name \in Seq(ToSet(r.name))
  BY <1>1, <1>2, SlugEdits
<1>4. \E S : catalog' \in Seq(S) /\ \A p \in S : SlugFits(p.slug)
  BY <1>1 DEF SlugsInv
<1> QED BY <1>3, <1>4, Zenon DEF SlugsInv

LEMMA SlugChecked ==
  ASSUME SlugsInv, NEW e \in Editor, CheckSlug(e)
  PROVE  SlugsInv'
<1>1. edit[e].step = "slug" /\ UNCHANGED <<catalog, agenda>>
  BY Zenon DEF CheckSlug
<1>2. CASE Edits(e, NoRequest)
  <2>1. NoRequest.step \notin {"create", "slug", "update"}
    BY DEF NoRequest
  <2> QED BY <1>1, <1>2, <2>1, SlugEnds
<1>3. CASE ~Edits(e, NoRequest)
  <2>1. PICK slug \in SlugFor(edit[e].request, edit[e].request.id) :
          Edits(e, [edit[e] EXCEPT !.step = "update", !.slug = slug])
    BY <1>3, Zenon DEF CheckSlug
  <2>2. SlugSettled(e)
    BY DEF SlugsInv
  <2>3. PICK request : request = edit[e].request
    OBVIOUS
  <2>4. ValidSlug(slug)
    <3>1. slug \in SlugFor(request, request.id) /\ request.slug # <<>>
      BY <1>1, <2>1, <2>2, <2>3 DEF SlugSettled
    <3> QED BY <3>1, SlugForIsValid
  <2>5. PICK to : to = [edit[e] EXCEPT !.step = "update", !.slug = slug]
    OBVIOUS
  <2>6. to.step = "update" /\ to.slug = slug
    BY <1>1, <2>2, <2>5 DEF SlugSettled
  <2>7. to.step # "slug" /\ SlugFits(to.slug)
    BY <2>4, <2>6 DEF SlugFits
  <2>8. /\ DOMAIN edit' = Editor /\ \A f \in Editor : SlugSettled(f)'
        /\ \A r \in agenda' : r.op = "create" => r.name \in Seq(ToSet(r.name))
    BY <1>1, <2>1, <2>5, <2>7, SlugEdits
  <2>9. \E S : catalog' \in Seq(S) /\ \A p \in S : SlugFits(p.slug)
    BY <1>1 DEF SlugsInv
  <2> QED BY <2>8, <2>9, Zenon DEF SlugsInv
<1> QED BY <1>2, <1>3

LEMMA SlugStored ==
  ASSUME SlugsInv, NEW e \in Editor, StoreCreated(e) \/ StoreUpdated(e) \/ DeleteStored(e)
  PROVE  SlugsInv'
<1>1. Edits(e, NoRequest) /\ agenda' = agenda
  BY Zenon DEF StoreCreated, StoreUpdated, DeleteStored
<1>2. NoRequest.step \notin {"create", "slug", "update"}
  BY DEF NoRequest
<1>3. /\ DOMAIN edit' = Editor /\ \A f \in Editor : SlugSettled(f)'
      /\ \A r \in agenda' : r.op = "create" => r.name \in Seq(ToSet(r.name))
  BY <1>1, <1>2, SlugEdits
<1>4. PICK S : catalog \in Seq(S) /\ \A p \in S : SlugFits(p.slug)
  BY DEF SlugsInv
<1>5. SlugSettled(e)
  BY DEF SlugsInv
<1>6. \E T : catalog' \in Seq(T) /\ \A p \in T : SlugFits(p.slug)
  <2>1. CASE StoreCreated(e)
    <3>1. PICK p : /\ p = Provider(IdOf(created + 1), edit[e].slug, edit[e].request.config.secret,
                                   edit[e].request)
                   /\ catalog' = Append(catalog, p) \/ catalog' = catalog
      BY <2>1, Zenon DEF StoreCreated
    <3>2. p.slug = edit[e].slug
      BY <3>1 DEF Provider
    <3>3. edit[e].step = "create"
      BY <2>1, Zenon DEF StoreCreated
    <3>4. SlugFits(p.slug)
      BY <1>5, <3>2, <3>3 DEF SlugSettled
    <3>5. catalog \in Seq(S \cup {p})
      BY <1>4, SeqMonotonic
    <3>6. catalog' \in Seq(S \cup {p})
      BY <3>1, <3>5, AppendProperties
    <3>7. \A q \in S \cup {p} : SlugFits(q.slug)
      BY <1>4, <3>4
    <3> QED BY <3>6, <3>7, Zenon
  <2>2. CASE StoreUpdated(e)
    <3>1. PICK p : /\ p = Provider(edit[e].request.id, edit[e].slug, edit[e].secret, edit[e].request)
                   /\ catalog' = [i \in 1..Len(catalog) |->
                                    IF catalog[i].id = p.id THEN p ELSE catalog[i]]
      BY <2>2, Zenon DEF StoreUpdated
    <3>2. p.slug = edit[e].slug
      BY <3>1 DEF Provider
    <3>3. edit[e].step = "update"
      BY <2>2, Zenon DEF StoreUpdated
    <3>4. SlugFits(p.slug)
      BY <1>5, <3>2, <3>3 DEF SlugSettled
    <3>5. Len(catalog) \in Nat /\ \A i \in 1..Len(catalog) : catalog[i] \in S
      BY <1>4
    <3>6. catalog' \in [1..Len(catalog) -> S \cup {p}]
      BY <3>1, <3>5
    <3>7. catalog' \in Seq(S \cup {p})
      BY <3>5, <3>6, SeqDef
    <3>8. \A q \in S \cup {p} : SlugFits(q.slug)
      BY <1>4, <3>4
    <3> QED BY <3>7, <3>8, Zenon
  <2>3. CASE DeleteStored(e)
    <3>1. catalog' = catalog \/ \E k \in DOMAIN catalog : catalog' = RemoveAt(catalog, k)
      BY <2>3, Zenon DEF DeleteStored
    <3>2. catalog' \in Seq(S)
      BY <1>4, <3>1, RemovedFrom
    <3> QED BY <1>4, <3>2, Zenon
  <2> QED BY <2>1, <2>2, <2>3
<1> QED BY <1>3, <1>6, Zenon DEF SlugsInv

LEMMA SlugsInvariance == ProvidersSpec => []SlugsInv
<1>1. ProvidersInit => SlugsInv
  <2> SUFFICES ASSUME ProvidersInit PROVE SlugsInv
    OBVIOUS
  <2>1. catalog \in Seq(ToSet(catalog))
    BY ProvidersAssumption DEF ProvidersInit
  <2>2. \A p \in ToSet(catalog) : SlugFits(p.slug)
    BY <2>1, SlugsAssumption DEF ProvidersInit, SlugFits, ToSet
  <2>3. DOMAIN edit = Editor /\ \A e \in Editor : edit[e].step = "none"
    BY DEF ProvidersInit, NoRequest
  <2>4. \A e \in Editor : SlugSettled(e)
    BY <2>3 DEF SlugSettled
  <2>5. \A request \in agenda : request.op = "create" => request.name \in Seq(ToSet(request.name))
    BY SlugsAssumption DEF ProvidersInit
  <2> QED BY <2>1, <2>2, <2>3, <2>4, <2>5, Zenon DEF SlugsInv
<1>2. SlugsInv /\ [ProvidersNext]_providerVars => SlugsInv'
  <2> SUFFICES ASSUME SlugsInv, [ProvidersNext]_providerVars PROVE SlugsInv'
    OBVIOUS
  <2>1. CASE UNCHANGED <<catalog, agenda, edit>>
    BY <2>1 DEF SlugsInv, SlugSettled
  <2>2. ASSUME NEW j \in Journeys, NEW slug, NEW sent,
               \/ BeginJourney(j, slug) \/ Callback(j, slug)
               \/ CompleteJourney(j, sent) \/ LoseJourney(j)
        PROVE  UNCHANGED <<catalog, agenda, edit>>
    BY <2>2, Zenon DEF BeginJourney, Callback, CompleteJourney, LoseJourney, Travels
  <2>3. ASSUME NEW e \in Editor, NEW request, BeginDelete(e, request) PROVE SlugsInv'
    <3>1. /\ Edits(e, [step |-> "delete", request |-> request])
          /\ catalog' = catalog /\ agenda' \subseteq agenda
      BY <2>3, Zenon DEF BeginDelete, Takes
    <3>2. [step |-> "delete", request |-> request].step \notin {"create", "slug", "update"}
      OBVIOUS
    <3> QED BY <3>1, <3>2, SlugEnds
  <2>4. ASSUME NEW e \in Editor, AbandonEdit(e) PROVE SlugsInv'
    <3>1. Edits(e, NoRequest) /\ UNCHANGED <<catalog, agenda>> /\ NoRequest.step = "none"
      BY <2>4 DEF AbandonEdit, NoRequest
    <3> QED BY <3>1, SlugEnds
  <2>5. ASSUME NEW e \in Editor, NEW request,
               \/ BeginCreate(e, request) \/ BeginUpdate(e, request) \/ CheckSlug(e)
               \/ StoreCreated(e) \/ StoreUpdated(e) \/ DeleteStored(e)
        PROVE  SlugsInv'
    BY <2>5, SlugBegins, SlugChecked, SlugStored, Zenon
  <2> QED BY <2>1, <2>2, <2>3, <2>4, <2>5, Zenon DEF ProvidersNext, providerVars
<1> QED BY <1>1, <1>2, PTL DEF ProvidersSpec

\* Slugs that are stored are such as an admin could have typed, whatever names
\* they were made of: making a slug of a slug changes nothing (slugify,
\* validate_slug).
THEOREM SlugsStayValid == ProvidersSpec => []StoredSlugsAreValid
<1>1. SlugsInv => StoredSlugsAreValid
  <2> SUFFICES ASSUME SlugsInv, NEW i \in 1..Len(catalog) PROVE SlugFits(catalog[i].slug)
    BY Zenon DEF StoredSlugsAreValid, SlugFits
  <2>1. PICK S : catalog \in Seq(S) /\ \A p \in S : SlugFits(p.slug)
    BY DEF SlugsInv
  <2>2. catalog[i] \in S
    BY <2>1
  <2> QED BY <2>1, <2>2
<1> QED BY <1>1, SlugsInvariance, PTL

\* Whatever admins' interleaved edits store, secrets stay with the url they were
\* typed in with and slugs pass their own validation (create_provider,
\* update_provider).
THEOREM ProvidersStaySound == ProvidersSpec => []StoredProvidersSound
  BY SecretsStayWithUrl, SlugsStayValid, PTL DEF StoredProvidersSound

----------------------------------------------------------------------------
(* The session store *)

\* The sessions held that have not expired.
ActiveSessions == {id \in DOMAIN records : IsActive(records[id])}

\* Ids are drawn once and held with an expiry, no more than max_sessions.
StoreInv ==
  /\ hour \in Nat /\ drawn \in Nat
  /\ DOMAIN records \subseteq 1..drawn
  /\ records = [id \in DOMAIN records |-> records[id]]
  /\ \A id \in DOMAIN records : records[id] \in Nat
  /\ IsFiniteSet(DOMAIN records) /\ Cardinality(DOMAIN records) <= MaxSessions
  /\ visit \in [Visit -> {Idle, NoSession} \cup 1..drawn]

\* A part of the sessions held, as they are held.
PartOf(r) ==
  /\ DOMAIN r \subseteq DOMAIN records
  /\ r = [id \in DOMAIN r |-> r[id]]
  /\ \A id \in DOMAIN r : r[id] = records[id]

LEMMA MaxOfTwo ==
  ASSUME NEW a \in Int, NEW b \in Int
  PROVE  Max({a, b}) = IF a >= b THEN a ELSE b
<1>1. \E x \in {a, b} : \A y \in {a, b} : x >= y
  OBVIOUS
<1>2. Max({a, b}) \in {a, b} /\ \A y \in {a, b} : Max({a, b}) >= y
  BY <1>1 DEF Max
<1> QED BY <1>2

LEMMA MinOfTwo ==
  ASSUME NEW a \in Int, NEW b \in Int
  PROVE  Min({a, b}) = IF a <= b THEN a ELSE b
<1>1. \E x \in {a, b} : \A y \in {a, b} : x <= y
  OBVIOUS
<1>2. Min({a, b}) \in {a, b} /\ \A y \in {a, b} : Min({a, b}) <= y
  BY <1>1 DEF Min
<1> QED BY <1>2

LEMMA SweepOfPart ==
  ASSUME StoreInv, NEW r, PartOf(r), ActiveSessions \subseteq DOMAIN r
  PROVE  PartOf(Sweep(r)) /\ DOMAIN Sweep(r) = ActiveSessions
BY DEF PartOf, Sweep, Keep, ActiveSessions

LEMMA MaybeSweepIsPart ==
  ASSUME StoreInv
  PROVE  /\ PartOf(MaybeSweep(records)) /\ ActiveSessions \subseteq DOMAIN MaybeSweep(records)
         /\ MaybeSweep(records) = records \/ DOMAIN MaybeSweep(records) = ActiveSessions
<1>1. PartOf(records) /\ ActiveSessions \subseteq DOMAIN records
  BY DEF PartOf, StoreInv, ActiveSessions
<1> QED BY <1>1, SweepOfPart DEF MaybeSweep

\* make_room: what is left is a part of the store with room for one more, and
\* without an unexpired session only if all were unexpired and the store full.
LEMMA RoomIsMade ==
  ASSUME StoreInv, NEW r, PartOf(r), ActiveSessions \subseteq DOMAIN r,
         NEW left \in MakeRoom(r)
  PROVE  /\ PartOf(left) /\ DOMAIN left \subseteq DOMAIN r
         /\ IsFiniteSet(DOMAIN left) /\ Cardinality(DOMAIN left) < MaxSessions
         /\ \/ ActiveSessions \subseteq DOMAIN left
            \/ /\ Cardinality(ActiveSessions) = MaxSessions
               /\ DOMAIN r = ActiveSessions
               /\ Cardinality(ActiveSessions \ DOMAIN left)
                    <= Max({1, MaxSessions \div EvictedShare})
               /\ \A id \in ActiveSessions \ DOMAIN left, other \in DOMAIN left :
                    records[id] <= records[other]
<1>1. IsFiniteSet(DOMAIN r) /\ Cardinality(DOMAIN r) <= MaxSessions
      /\ Cardinality(DOMAIN r) \in Nat
  <2>1. PICK all, some : all = DOMAIN records /\ some = DOMAIN r
    BY Zenon
  <2>2. IsFiniteSet(all) /\ some \in SUBSET all /\ Cardinality(all) <= MaxSessions
    BY <2>1 DEF StoreInv, PartOf
  <2>3. IsFiniteSet(some) /\ Cardinality(some) <= Cardinality(all)
    BY <2>2, FS_Subset, Zenon
  <2>4. Cardinality(some) \in Nat /\ Cardinality(all) \in Nat
    BY <2>2, <2>3, FS_CardinalityType, Zenon
  <2> QED BY <2>1, <2>2, <2>3, <2>4, StoreAssumption
<1>2. CASE Cardinality(DOMAIN r) < MaxSessions
  BY <1>1, <1>2 DEF MakeRoom
<1>3. CASE ~(Cardinality(DOMAIN r) < MaxSessions)
  <2> DEFINE swept == Sweep(r)
             held == Cardinality(DOMAIN swept)
             share == MaxSessions \div EvictedShare
             excess == held + 1 - MaxSessions
             count == Min({held, Max({excess, share})})
  <2>1. PartOf(swept) /\ DOMAIN swept = ActiveSessions
    BY SweepOfPart
  <2>2. IsFiniteSet(ActiveSessions) /\ held <= Cardinality(DOMAIN r) /\ held \in Nat
        /\ (held = Cardinality(DOMAIN r) => DOMAIN r = ActiveSessions)
    <3>1. PICK all : all = DOMAIN r
      BY Zenon
    <3>2. IsFiniteSet(all) /\ ActiveSessions \in SUBSET all
      BY <3>1, <1>1
    <3>3. /\ IsFiniteSet(ActiveSessions) /\ Cardinality(ActiveSessions) <= Cardinality(all)
          /\ Cardinality(all) = Cardinality(ActiveSessions) => all = ActiveSessions
      BY <3>2, FS_Subset, Zenon
    <3>4. Cardinality(ActiveSessions) \in Nat
      BY <3>3, FS_CardinalityType, Zenon
    <3> QED BY <3>1, <3>3, <3>4, <2>1, Zenon
  <2>3. share \in Nat
    BY StoreAssumption
  <2>4. /\ excess <= 0 => left = swept
        /\ ~(excess <= 0) => \E s \in ClosestToExpiry(swept, count) :
                               left = Keep(swept, DOMAIN swept \ s)
    BY <1>3, Zenon DEF MakeRoom
  <2>5. CASE excess <= 0
    BY <2>1, <2>2, <2>4, <2>5, <1>1, StoreAssumption
  <2>6. CASE ~(excess <= 0)
    <3>1. held = MaxSessions /\ excess = 1 /\ DOMAIN r = ActiveSessions
      BY <1>1, <2>2, <2>6, StoreAssumption
    <3>2. count \in Nat /\ count >= 1 /\ count <= held /\ count <= Max({1, share})
      <4>1. Max({1, share}) \in Nat /\ Max({1, share}) >= 1
        BY <2>3, MaxOfTwo
      <4>2. Min({held, Max({1, share})}) =
              IF held <= Max({1, share}) THEN held ELSE Max({1, share})
        BY <4>1, <2>2, MinOfTwo
      <4>3. count = Min({held, Max({1, share})})
        BY <3>1
      <4> HIDE DEF count, held, share
      <4> QED BY <4>1, <4>2, <4>3, <2>2, <3>1, StoreAssumption
    <3>3. PICK s \in ClosestToExpiry(swept, count) : left = Keep(swept, DOMAIN swept \ s)
      BY <2>4, <2>6
    <3>4. s \subseteq ActiveSessions /\ Cardinality(s) = count
          /\ \A id \in s, other \in ActiveSessions \ s : swept[id] <= swept[other]
      BY <3>3, <2>1 DEF ClosestToExpiry, kSubset
    <3>5. DOMAIN left = ActiveSessions \ s /\ PartOf(left)
      BY <3>3, <2>1 DEF Keep, PartOf
    <3>6. IsFiniteSet(DOMAIN left) /\ Cardinality(DOMAIN left) = held - count
      <4>1. PICK all, rest : all = ActiveSessions /\ rest = DOMAIN left
        BY Zenon
      <4>2. IsFiniteSet(all) /\ rest = all \ s /\ all \cap s = s
        BY <3>4, <3>5, <2>2, <4>1
      <4>3. IsFiniteSet(rest) /\ Cardinality(rest) = Cardinality(all) - Cardinality(all \cap s)
        BY <4>2, FS_Difference, Zenon
      <4>4. Cardinality(all) = held /\ Cardinality(all \cap s) = count
        BY <4>1, <4>2, <3>4, <2>1, Zenon
      <4> HIDE DEF held, count
      <4> QED BY <4>1, <4>3, <4>4
    <3>7. ActiveSessions \ DOMAIN left = s
      BY <3>4, <3>5
    <3>8. Cardinality(DOMAIN left) < MaxSessions
      <4> HIDE DEF count, held
      <4> QED BY <3>1, <3>2, <3>6, StoreAssumption
    <3>9. \A id \in s, other \in DOMAIN left : records[id] <= records[other]
      BY <3>4, <3>5, <2>1 DEF PartOf
    <3>10. Cardinality(s) <= Max({1, share}) /\ Cardinality(ActiveSessions) = MaxSessions
      BY <3>1, <3>2, <3>4, <2>1, Zenon
    <3>11. DOMAIN left \subseteq DOMAIN r
      BY <3>1, <3>5
    <3> QED
      BY <3>1, <3>5, <3>6, <3>7, <3>8, <3>9, <3>10, <3>11, Zenon
  <2> QED BY <2>5, <2>6
<1> QED BY <1>2, <1>3

LEMMA NothingLost ==
  ASSUME StoreInv', ActiveSessions \subseteq DOMAIN records'
  PROVE  EvictedOnlyForRoom
<1>1. ActiveSessions \ DOMAIN records' = {}
  OBVIOUS
<1>2. {id \in DOMAIN records : IsActive(records[id])} \ DOMAIN records' = {}
  BY <1>1 DEF ActiveSessions
<1>3. Cardinality(DOMAIN records') <= MaxSessions
  BY DEF StoreInv
<1> QED BY <1>2, <1>3, Zenon DEF EvictedOnlyForRoom

\* What the store holds once a session is put in.
LEMMA Inserted ==
  ASSUME StoreInv, NEW left, PartOf(left), NEW id \in 1..drawn',
         drawn' \in Nat, drawn <= drawn', hour' = hour,
         visit' \in [Visit -> {Idle, NoSession} \cup 1..drawn'],
         IsFiniteSet(DOMAIN left), Cardinality(DOMAIN left) <= MaxSessions,
         id \in DOMAIN left \/ Cardinality(DOMAIN left) < MaxSessions,
         records' = Insert(left, id)
  PROVE  StoreInv' /\ DOMAIN records' = DOMAIN left \cup {id}
<1>1. PICK held : held = DOMAIN left
  BY Zenon
<1>2. /\ DOMAIN records' = held \cup {id}
      /\ records' = [i \in DOMAIN records' |-> records'[i]]
      /\ \A i \in DOMAIN records' : records'[i] \in Nat
  BY <1>1, StoreAssumption DEF Insert, StoreInv, PartOf
<1>3. IsFiniteSet(held \cup {id}) /\ Cardinality(held \cup {id}) =
        IF id \in held THEN Cardinality(held) ELSE Cardinality(held) + 1
  BY <1>1, FS_AddElement, Zenon
<1>4. Cardinality(held) \in Nat
  BY <1>1, FS_CardinalityType, Zenon
<1>5. Cardinality(held \cup {id}) <= MaxSessions
  BY <1>1, <1>3, <1>4, StoreAssumption
<1>6. held \cup {id} \subseteq 1..drawn'
  BY <1>1 DEF StoreInv, PartOf
<1>7. hour' \in Nat
  BY DEF StoreInv
<1>8. DOMAIN records' \subseteq 1..drawn' /\ IsFiniteSet(DOMAIN records')
      /\ Cardinality(DOMAIN records') <= MaxSessions
  BY <1>2, <1>3, <1>5, <1>6, Zenon
<1> QED BY <1>1, <1>2, <1>7, <1>8, Zenon DEF StoreInv

\* A session that make_room made room for: the ones lost were closest to expiry.
LEMMA InsertedWithRoom ==
  ASSUME StoreInv, StoreInv', NEW r, r = MaybeSweep(records), NEW left \in MakeRoom(r),
         NEW id, id \notin DOMAIN r, DOMAIN records' = DOMAIN left \cup {id}
  PROVE  EvictedOnlyForRoom
<1>1. /\ PartOf(r) /\ ActiveSessions \subseteq DOMAIN r
      /\ r = records \/ DOMAIN r = ActiveSessions
  BY MaybeSweepIsPart
<1>2. CASE ActiveSessions \subseteq DOMAIN left
  BY <1>2, NothingLost
<1>3. CASE ~(ActiveSessions \subseteq DOMAIN left)
  <2>1. /\ Cardinality(ActiveSessions) = MaxSessions /\ DOMAIN r = ActiveSessions
        /\ Cardinality(ActiveSessions \ DOMAIN left)
             <= Max({1, MaxSessions \div EvictedShare})
        /\ \A i \in ActiveSessions \ DOMAIN left, other \in DOMAIN left :
             records[i] <= records[other]
    BY <1>1, <1>3, RoomIsMade, Zenon
  <2>2. PICK lost, came : /\ lost = ActiveSessions \ DOMAIN records'
                          /\ came = DOMAIN records' \ DOMAIN records
    BY Zenon
  <2>3. lost = ActiveSessions \ DOMAIN left
    BY <2>1, <2>2
  <2>4. ActiveSessions \ lost \subseteq DOMAIN left
    BY <2>3
  <2>5. came # {}
    <3>1. PICK all : all = DOMAIN records
      BY Zenon
    <3>2. IsFiniteSet(all) /\ ActiveSessions \in SUBSET all /\ Cardinality(all) <= MaxSessions
      BY <3>1 DEF StoreInv, ActiveSessions
    <3>3. /\ Cardinality(ActiveSessions) <= Cardinality(all)
          /\ Cardinality(all) = Cardinality(ActiveSessions) => all = ActiveSessions
      BY <3>2, FS_Subset, Zenon
    <3>4. Cardinality(all) \in Nat
      BY <3>2, FS_CardinalityType, Zenon
    <3>5. all = ActiveSessions
      BY <3>2, <3>3, <3>4, <2>1, StoreAssumption
    <3> QED BY <3>1, <3>5, <2>1, <2>2
  <2>6. Cardinality(DOMAIN records') <= MaxSessions
    BY DEF StoreInv
  <2>7. /\ lost = {i \in DOMAIN records : IsActive(records[i])} \ DOMAIN records'
        /\ Cardinality({i \in DOMAIN records : IsActive(records[i])}) >= MaxSessions
        /\ Cardinality(lost) <= Max({1, MaxSessions \div EvictedShare})
        /\ \A i \in lost, other \in {i \in DOMAIN records : IsActive(records[i])} \ lost :
             records[i] <= records[other]
    <3>1. {i \in DOMAIN records : IsActive(records[i])} = ActiveSessions
      BY DEF ActiveSessions
    <3>2. Cardinality(ActiveSessions) >= MaxSessions
      BY <2>1, StoreAssumption
    <3> QED BY <2>1, <2>2, <2>3, <2>4, <3>1, <3>2, Zenon
  <2> QED BY <2>2, <2>5, <2>6, <2>7, Zenon DEF EvictedOnlyForRoom
<1> QED BY <1>2, <1>3

LEMMA CreateKeeps ==
  ASSUME StoreInv, NEW v \in Visit, Create(v)
  PROVE  StoreInv' /\ EvictedOnlyForRoom
<1>1. PICK r : r = MaybeSweep(records)
  BY Zenon
<1>2. PICK left \in MakeRoom(r) : records' = Insert(left, drawn')
  BY <1>1, Zenon DEF Create
<1>3. PartOf(r) /\ ActiveSessions \subseteq DOMAIN r
  BY <1>1, MaybeSweepIsPart
<1>4. /\ PartOf(left) /\ IsFiniteSet(DOMAIN left) /\ Cardinality(DOMAIN left) < MaxSessions
  BY <1>2, <1>3, RoomIsMade, Zenon
<1>5. /\ drawn' \in Nat /\ drawn <= drawn' /\ drawn' \in 1..drawn' /\ hour' = hour
      /\ visit' \in [Visit -> {Idle, NoSession} \cup 1..drawn'] /\ drawn' \notin 1..drawn
  BY DEF Create, StoreInv
<1>6. Cardinality(DOMAIN left) <= MaxSessions
  <2>1. PICK held : held = DOMAIN left
    BY Zenon
  <2>2. Cardinality(held) \in Nat
    BY <2>1, <1>4, FS_CardinalityType, Zenon
  <2> QED BY <2>1, <2>2, <1>4, StoreAssumption
<1>7. PICK id : id = drawn'
  BY Zenon
<1>8. StoreInv' /\ DOMAIN records' = DOMAIN left \cup {id}
  BY <1>2, <1>4, <1>5, <1>6, <1>7, Inserted
<1>9. id \notin DOMAIN r
  BY <1>3, <1>5, <1>7 DEF PartOf, StoreInv
<1> QED BY <1>1, <1>2, <1>8, <1>9, InsertedWithRoom

\* save: a session still held keeps its place, one lost meanwhile needs room.
LEMMA SaveSessionKeeps ==
  ASSUME StoreInv, NEW v \in Visit, Save(v)
  PROVE  StoreInv' /\ EvictedOnlyForRoom
<1>1. PICK r, id : r = MaybeSweep(records) /\ id = visit[v]
  BY Zenon
<1>2. PICK left \in RoomFor(r, id) : records' = Insert(left, id)
  BY <1>1, Zenon DEF Save
<1>3. PartOf(r) /\ ActiveSessions \subseteq DOMAIN r
  BY <1>1, MaybeSweepIsPart
<1>4. /\ drawn' = drawn /\ drawn \in Nat /\ id \in 1..drawn /\ hour' = hour
      /\ visit' \in [Visit -> {Idle, NoSession} \cup 1..drawn']
  BY <1>1 DEF Save, StoreInv, SessionId, Idle, NoSession
<1>5. CASE id \in DOMAIN r
  <2>1. left = r
    BY <1>2, <1>5 DEF RoomFor
  <2>2. IsFiniteSet(DOMAIN r) /\ Cardinality(DOMAIN r) <= MaxSessions
    <3>1. PICK all, some : all = DOMAIN records /\ some = DOMAIN r
      BY Zenon
    <3>2. IsFiniteSet(all) /\ some \in SUBSET all /\ Cardinality(all) <= MaxSessions
      BY <3>1, <1>3 DEF StoreInv, PartOf
    <3>3. IsFiniteSet(some) /\ Cardinality(some) <= Cardinality(all)
      BY <3>2, FS_Subset, Zenon
    <3>4. Cardinality(some) \in Nat /\ Cardinality(all) \in Nat
      BY <3>2, <3>3, FS_CardinalityType, Zenon
    <3> QED BY <3>1, <3>2, <3>3, <3>4, StoreAssumption
  <2>3. /\ PartOf(left) /\ IsFiniteSet(DOMAIN left) /\ Cardinality(DOMAIN left) <= MaxSessions
        /\ id \in DOMAIN left
    BY <1>3, <1>5, <2>1, <2>2, Zenon
  <2>4. /\ id \in 1..drawn' /\ drawn' \in Nat /\ drawn <= drawn'
    BY <1>4
  <2>5. StoreInv' /\ DOMAIN records' = DOMAIN left \cup {id}
    BY <1>2, <1>4, <2>3, <2>4, Inserted
  <2>6. StoreInv' /\ DOMAIN records' = DOMAIN r \cup {id}
    BY <2>1, <2>5, Zenon
  <2> QED BY <2>6, <1>3, NothingLost
<1>6. CASE id \notin DOMAIN r
  <2>1. left \in MakeRoom(r)
    BY <1>2, <1>6 DEF RoomFor
  <2>2. /\ PartOf(left) /\ IsFiniteSet(DOMAIN left) /\ Cardinality(DOMAIN left) < MaxSessions
    BY <2>1, <1>3, RoomIsMade, Zenon
  <2>3. Cardinality(DOMAIN left) <= MaxSessions
    <3>1. PICK held : held = DOMAIN left
      BY Zenon
    <3>2. Cardinality(held) \in Nat
      BY <3>1, <2>2, FS_CardinalityType, Zenon
    <3> QED BY <3>1, <3>2, <2>2, StoreAssumption
  <2>4. StoreInv' /\ DOMAIN records' = DOMAIN left \cup {id}
    BY <1>2, <1>4, <2>2, <2>3, Inserted
  <2> QED BY <1>1, <1>6, <2>1, <2>4, InsertedWithRoom
<1> QED BY <1>5, <1>6

\* load, delete and delete_expired leave a part of what is held.
LEMMA RemovedKeeps ==
  ASSUME StoreInv, NEW ids, records' = Keep(records, ids), ids \subseteq DOMAIN records,
         hour' \in Nat, drawn' = drawn, visit' \in [Visit -> {Idle, NoSession} \cup 1..drawn]
  PROVE  StoreInv' /\ DOMAIN records' = ids
<1>1. /\ DOMAIN records' = ids /\ records' = [id \in ids |-> records[id]]
      /\ \A id \in ids : records'[id] \in Nat
  BY DEF Keep, StoreInv
<1>2. IsFiniteSet(ids) /\ Cardinality(ids) <= MaxSessions
  <2>1. PICK all : all = DOMAIN records
    BY Zenon
  <2>2. IsFiniteSet(all) /\ ids \in SUBSET all /\ Cardinality(all) <= MaxSessions
    BY <2>1 DEF StoreInv
  <2>3. IsFiniteSet(ids) /\ Cardinality(ids) <= Cardinality(all)
    BY <2>2, FS_Subset, Zenon
  <2>4. Cardinality(ids) \in Nat /\ Cardinality(all) \in Nat
    BY <2>2, <2>3, FS_CardinalityType, Zenon
  <2> QED BY <2>2, <2>3, <2>4, StoreAssumption
<1>3. ids \subseteq 1..drawn' /\ drawn' \in Nat
      /\ visit' \in [Visit -> {Idle, NoSession} \cup 1..drawn']
  BY DEF StoreInv
<1>4. records' = [id \in DOMAIN records' |-> records'[id]]
  BY <1>1
<1> QED BY <1>1, <1>2, <1>3, <1>4, Zenon DEF StoreInv

LEMMA HeldAsBefore ==
  ASSUME StoreInv, records' = records, hour' \in Nat, drawn' = drawn,
         visit' \in [Visit -> {Idle, NoSession} \cup 1..drawn]
  PROVE  StoreInv' /\ EvictedOnlyForRoom
<1>1. StoreInv'
  BY Zenon DEF StoreInv
<1> QED BY <1>1, NothingLost DEF ActiveSessions

LEMMA LoadKeeps ==
  ASSUME StoreInv, NEW v \in Visit, NEW id \in 1..drawn, Load(v, id)
  PROVE  StoreInv' /\ EvictedOnlyForRoom
<1>1. /\ hour' \in Nat /\ drawn' = drawn
      /\ visit' \in [Visit -> {Idle, NoSession} \cup 1..drawn]
  BY DEF Load, StoreInv
<1>2. CASE id \in DOMAIN records /\ IsActive(records[id])
  <2>1. records' = records
    BY <1>2 DEF Load
  <2> QED BY <1>1, <2>1, HeldAsBefore
<1>3. CASE ~(id \in DOMAIN records /\ IsActive(records[id]))
  <2>1. PICK ids : ids = DOMAIN records \ {id}
    BY Zenon
  <2>2. records' = Keep(records, ids)
    BY <1>3, <2>1, Zenon DEF Load
  <2>3. StoreInv' /\ DOMAIN records' = ids
    BY <1>1, <2>1, <2>2, RemovedKeeps
  <2>4. ActiveSessions \subseteq ids
    BY <1>3, <2>1 DEF ActiveSessions
  <2> QED BY <2>3, <2>4, NothingLost
<1> QED BY <1>2, <1>3

LEMMA DeleteKeeps ==
  ASSUME StoreInv, NEW v \in Visit, Delete(v)
  PROVE  StoreInv' /\ EvictedOnlyForRoom
<1>1. /\ hour' \in Nat /\ drawn' = drawn /\ visit[v] \in SessionId
      /\ visit' \in [Visit -> {Idle, NoSession} \cup 1..drawn]
  BY DEF Delete, StoreInv
<1>2. PICK ids : ids = DOMAIN records \ {visit[v]}
  BY Zenon
<1>3. records' = Keep(records, ids)
  BY <1>2, Zenon DEF Delete
<1>4. StoreInv' /\ DOMAIN records' = ids
  BY <1>1, <1>2, <1>3, RemovedKeeps
<1>5. CASE visit[v] \notin ActiveSessions
  BY <1>2, <1>4, <1>5, NothingLost DEF ActiveSessions
<1>6. CASE visit[v] \in ActiveSessions
  <2>1. ActiveSessions \ DOMAIN records' = {visit[v]} /\ DOMAIN records' \ DOMAIN records = {}
    BY <1>2, <1>4, <1>6 DEF ActiveSessions
  <2>2. {id \in DOMAIN records : IsActive(records[id])} \ DOMAIN records' = {visit[v]}
    BY <2>1 DEF ActiveSessions
  <2>3. Cardinality(DOMAIN records') <= MaxSessions
    BY <1>4 DEF StoreInv
  <2> QED BY <1>1, <1>4, <2>1, <2>2, <2>3, Zenon DEF EvictedOnlyForRoom
<1> QED BY <1>5, <1>6

LEMMA StoreStep ==
  ASSUME StoreInv, [StoreNext]_storeVars
  PROVE  StoreInv' /\ EvictedOnlyForRoom
<1>1. ASSUME NEW v \in Visit, Arrives(v)
      PROVE  StoreInv' /\ EvictedOnlyForRoom
  <2>1. /\ records' = records /\ hour' \in Nat /\ drawn' = drawn
        /\ visit' \in [Visit -> {Idle, NoSession} \cup 1..drawn]
    BY <1>1 DEF Arrives, StoreInv
  <2> QED BY <2>1, HeldAsBefore
<1>2. CASE DeleteExpired
  <2>1. PICK ids : ids = ActiveSessions
    BY Zenon
  <2>2. /\ records' = Keep(records, ids) /\ hour' \in Nat /\ drawn' = drawn
        /\ visit' \in [Visit -> {Idle, NoSession} \cup 1..drawn]
    BY <1>2, <2>1 DEF DeleteExpired, Sweep, ActiveSessions, StoreInv
  <2>3. ids \subseteq DOMAIN records
    BY <2>1 DEF ActiveSessions
  <2>4. StoreInv' /\ DOMAIN records' = ids
    BY <2>2, <2>3, RemovedKeeps
  <2> QED BY <2>1, <2>4, NothingLost
<1>3. CASE HourPasses \/ UNCHANGED storeVars
  <2>1. /\ records' = records /\ hour' \in Nat /\ drawn' = drawn
        /\ visit' \in [Visit -> {Idle, NoSession} \cup 1..drawn]
    BY <1>3 DEF HourPasses, storeVars, StoreInv
  <2> QED BY <2>1, HeldAsBefore
<1>4. CASE StoreNext
  BY <1>1, <1>2, <1>3, <1>4, LoadKeeps, CreateKeeps, SaveSessionKeeps, DeleteKeeps, Zenon
     DEF StoreNext
<1> QED BY <1>3, <1>4

\* Whatever the limit, the share and the requests in flight: the store never
\* holds more than max_sessions, and a session that has not expired is only lost
\* to its own deletion or, closest to expiry, to the room a full store makes for
\* one it does not hold (make_room, save, create and load of MemorySessionStore).
THEOREM SessionsAreKept == StoreSpec => StoreKeepsSessions
<1>1. StoreInit => StoreInv
  <2> SUFFICES ASSUME StoreInit PROVE StoreInv
    OBVIOUS
  <2>1. DOMAIN records = {} /\ records = [id \in DOMAIN records |-> records[id]]
    BY DEF StoreInit
  <2>2. IsFiniteSet(DOMAIN records) /\ Cardinality(DOMAIN records) = 0
    BY <2>1, FS_EmptySet, Zenon
  <2>3. hour \in Nat /\ drawn \in Nat /\ visit \in [Visit -> {Idle, NoSession} \cup 1..drawn]
    BY DEF StoreInit
  <2> QED BY <2>1, <2>2, <2>3, StoreAssumption DEF StoreInv
<1>2. StoreInv /\ [StoreNext]_storeVars => StoreInv' /\ [EvictedOnlyForRoom]_storeVars
  BY StoreStep
<1> QED BY <1>1, <1>2, PTL DEF StoreSpec, StoreKeepsSessions

----------------------------------------------------------------------------
(* The login tokens of a browser *)

TabFields == {"raw", "state", "notifiedRaw", "selected", "subscribed"}

\* What a tab keeps, and a flag for every tab.
TabShape ==
  /\ DOMAIN tab = Tab /\ tab = [t \in Tab |-> tab[t]]
  /\ \A t \in Tab : DOMAIN tab[t] = TabFields /\ tab[t] = [f \in TabFields |-> tab[t][f]]
  /\ events \in [Tab -> BOOLEAN] /\ missed \in [Tab -> BOOLEAN]

TabsInv == TabShape /\ ListenersAreTold

\* LoadStored changes what a tab knows of the storage, and nothing else.
LEMMA LoadsWhatIsStored ==
  ASSUME TabShape, NEW t \in Tab, NEW readable \in BOOLEAN
  PROVE  LET loaded == LoadStored(t, readable)
         IN /\ DOMAIN loaded = TabFields /\ loaded = [f \in TabFields |-> loaded[f]]
            /\ loaded.selected = tab[t].selected /\ loaded.subscribed = tab[t].subscribed
            /\ loaded.notifiedRaw = tab[t].notifiedRaw
            /\ readable => loaded.raw = storage
BY DEF LoadStored, TabShape, TabFields

\* A tab sends the token of the user it shows, or none.
LEMMA SendsItsUser ==
  ASSUME NEW loaded PROVE SenderOf(loaded) \in {loaded.selected, NoUser}
BY DEF SenderOf

\* A tab that replaces what it keeps, all others left alone, keeps the shape.
LEMMA TabReplaced ==
  ASSUME TabShape, NEW t \in Tab, NEW new,
         DOMAIN new = TabFields, new = [f \in TabFields |-> new[f]],
         tab' = [tab EXCEPT ![t] = new],
         events' \in [Tab -> BOOLEAN], missed' \in [Tab -> BOOLEAN]
  PROVE  /\ TabShape' /\ tab'[t] = new
         /\ \A o \in Tab : o # t => tab'[o] = tab[o]
<1>1. DOMAIN tab' = Tab /\ tab' = [o \in Tab |-> tab'[o]]
  BY DEF TabShape
<1>2. tab'[t] = new /\ \A o \in Tab : o # t => tab'[o] = tab[o]
  BY DEF TabShape
<1>3. \A o \in Tab : DOMAIN tab'[o] = TabFields /\ tab'[o] = [f \in TabFields |-> tab'[o][f]]
  <2> TAKE o \in Tab
  <2>1. CASE o = t
    BY <2>1, <1>2, Zenon
  <2>2. CASE o # t
    BY <2>2, <1>2, Zenon DEF TabShape
  <2> QED BY <2>1, <2>2
<1> QED BY <1>1, <1>2, <1>3, Zenon DEF TabShape, TabFields

\* save: the tab's own listeners are told of what it stores, the other tabs get
\* an event; a tab that could not read or write knows that it may be behind.
LEMMA SaveKeeps ==
  ASSUME TabsInv, NEW t \in Tab, NEW loaded, NEW next, NEW selected,
         NEW readable \in BOOLEAN, NEW writable \in BOOLEAN,
         DOMAIN loaded = TabFields, loaded = [f \in TabFields |-> loaded[f]],
         readable => loaded.raw = storage,
         SaveTokens(t, loaded, next, selected, readable, writable)
  PROVE  TabsInv' /\ \A o \in Tab : o # t => tab'[o] = tab[o]
<1> DEFINE raw == IF writable THEN next ELSE loaded.raw
           new == [loaded EXCEPT !.state = next, !.raw = raw,
                                 !.notifiedRaw = raw, !.selected = selected]
<1>1. DOMAIN new = TabFields /\ new = [f \in TabFields |-> new[f]] /\ new.notifiedRaw = raw
  BY DEF TabFields
<1>2. /\ tab' = [tab EXCEPT ![t] = new]
      /\ storage' = IF writable THEN next ELSE storage
      /\ events' = [o \in Tab |-> events[o] \/ (o # t /\ storage' # storage)]
      /\ missed' = [missed EXCEPT ![t] = ~writable /\ (@ \/ ~readable)]
  BY Zenon DEF SaveTokens
<1>3. missed' \in [Tab -> BOOLEAN] /\ events' \in [Tab -> BOOLEAN]
  BY <1>2 DEF TabsInv, TabShape
<1> HIDE DEF new
<1>4. TabShape' /\ tab'[t] = new /\ \A o \in Tab : o # t => tab'[o] = tab[o]
  BY <1>1, <1>2, <1>3, TabReplaced, Zenon DEF TabsInv
<1>5. ListenersAreTold'
  <2> SUFFICES ASSUME NEW o \in Tab, tab'[o].subscribed, ~events'[o], ~missed'[o]
               PROVE  tab'[o].notifiedRaw = storage'
    BY DEF ListenersAreTold
  <2>1. CASE o = t
    <3>1. missed'[t] = (~writable /\ (missed[t] \/ ~readable))
      BY <1>2 DEF TabsInv, TabShape
    <3>2. writable \/ readable
      BY <2>1, <3>1
    <3> QED BY <3>2, <2>1, <1>1, <1>2, <1>4
  <2>2. CASE o # t
    <3>1. events'[o] = (events[o] \/ storage' # storage)
      BY <2>2, <1>2, Zenon
    <3>2. ~events[o] /\ storage' = storage
      BY <3>1
    <3>3. missed'[o] = missed[o] /\ tab'[o] = tab[o]
      BY <2>2, <1>2, <1>4 DEF TabsInv, TabShape
    <3> QED BY <3>2, <3>3, Zenon DEF TabsInv, ListenersAreTold
  <2> QED BY <2>1, <2>2
<1> QED BY <1>4, <1>5 DEF TabsInv

\* addAndChange, remove, changeUser and removeAll save what they loaded, changed.
LEMMA OwnSavesKeep ==
  ASSUME TabsInv, NEW t \in Tab, NEW readable \in BOOLEAN, NEW writable \in BOOLEAN,
         \/ \E u \in Account : \/ AddAndChange(t, u, readable, writable)
                               \/ RemoveUser(t, u, readable, writable)
                               \/ ChangeUser(t, u, readable, writable)
         \/ RemoveAll(t, writable)
  PROVE  TabsInv' /\ \A o \in Tab : o # t => tab'[o] = tab[o]
<1>1. PICK loaded : loaded = LoadStored(t, readable)
  BY Zenon
<1>2. /\ DOMAIN loaded = TabFields /\ loaded = [f \in TabFields |-> loaded[f]]
      /\ readable => loaded.raw = storage
  BY <1>1, LoadsWhatIsStored, Zenon DEF TabsInv
<1>3. CASE \E u \in Account : \/ AddAndChange(t, u, readable, writable)
                              \/ RemoveUser(t, u, readable, writable)
                              \/ ChangeUser(t, u, readable, writable)
  <2>1. PICK next, selected : SaveTokens(t, loaded, next, selected, readable, writable)
    BY <1>1, <1>3, Zenon DEF AddAndChange, RemoveUser, ChangeUser
  <2> QED BY <2>1, <1>2, SaveKeeps
<1>4. CASE RemoveAll(t, writable)
  <2>0. PICK no \in BOOLEAN : no = FALSE
    OBVIOUS
  <2>1. PICK known, next, selected : known = tab[t] /\ next = SignedOut /\ selected = NoUser
    BY Zenon
  <2>2. SaveTokens(t, known, next, selected, no, writable)
    BY <1>4, <2>0, <2>1, Zenon DEF RemoveAll
  <2>3. DOMAIN known = TabFields /\ known = [f \in TabFields |-> known[f]]
    BY <2>1 DEF TabsInv, TabShape
  <2> QED BY <2>0, <2>1, <2>2, <2>3, SaveKeeps
<1> QED BY <1>3, <1>4

\* createLoginTokens: a tab that is reloaded has no listeners yet.
LEMMA ReloadKeeps ==
  ASSUME TabsInv, NEW t \in Tab, Reload(t)
  PROVE  TabsInv' /\ \A o \in Tab : o # t => tab'[o] = tab[o]
<1>1. PICK new : new = Opened(storage)
  BY Zenon
<1>2. DOMAIN new = TabFields /\ new = [f \in TabFields |-> new[f]]
      /\ new.notifiedRaw = storage
  BY <1>1 DEF Opened, TabFields
<1>3. tab' = [tab EXCEPT ![t] = new] /\ storage' = storage
  BY <1>1, Zenon DEF Reload
<1>4. /\ events' \in [Tab -> BOOLEAN] /\ missed' \in [Tab -> BOOLEAN]
      /\ \A o \in Tab : o # t => events'[o] = events[o] /\ missed'[o] = missed[o]
  BY DEF Reload, TabsInv, TabShape
<1>5. TabShape' /\ tab'[t] = new /\ \A o \in Tab : o # t => tab'[o] = tab[o]
  BY <1>2, <1>3, <1>4, TabReplaced, Zenon DEF TabsInv
<1>6. ListenersAreTold'
  BY <1>2, <1>3, <1>4, <1>5, Zenon DEF ListenersAreTold, TabsInv
<1> QED BY <1>5, <1>6 DEF TabsInv

\* jwt and accounts: what a tab reads does not count as told, and changes no user.
LEMMA ReadKeeps ==
  ASSUME TabsInv, NEW t \in Tab, NEW readable \in BOOLEAN, ReadTokens(t, readable)
  PROVE  TabsInv' /\ \A o \in Tab : tab'[o].selected = tab[o].selected
<1>1. PICK loaded : loaded = LoadStored(t, readable)
  BY Zenon
<1>2. /\ DOMAIN loaded = TabFields /\ loaded = [f \in TabFields |-> loaded[f]]
      /\ loaded.selected = tab[t].selected /\ loaded.subscribed = tab[t].subscribed
      /\ loaded.notifiedRaw = tab[t].notifiedRaw
  BY <1>1, LoadsWhatIsStored, Zenon DEF TabsInv
<1>3. /\ tab' = [tab EXCEPT ![t] = loaded]
      /\ storage' = storage /\ events' = events /\ missed' = missed
  BY <1>1, Zenon DEF ReadTokens
<1>4. TabShape' /\ tab'[t] = loaded /\ \A o \in Tab : o # t => tab'[o] = tab[o]
  <2>1. events' \in [Tab -> BOOLEAN] /\ missed' \in [Tab -> BOOLEAN]
    BY <1>3 DEF TabsInv, TabShape
  <2> QED BY <2>1, <1>2, <1>3, TabReplaced, Zenon DEF TabsInv
<1>5. ListenersAreTold'
  BY <1>2, <1>3, <1>4, Zenon DEF ListenersAreTold, TabsInv
<1> QED BY <1>2, <1>4, <1>5, Zenon DEF TabsInv

\* onStorage: the listeners are told of the stored value as it is, unless it
\* cannot be read.
LEMMA OnStorageKeeps ==
  ASSUME TabsInv, NEW t \in Tab, NEW readable \in BOOLEAN, OnStorage(t, readable)
  PROVE  TabsInv' /\ \A o \in Tab : tab'[o].selected = tab[o].selected
<1>1. /\ storage' = storage /\ events' = [events EXCEPT ![t] = FALSE]
      /\ events' \in [Tab -> BOOLEAN]
      /\ \A o \in Tab : o # t => events'[o] = events[o]
  BY DEF OnStorage, TabsInv, TabShape
<1>2. CASE tab[t].subscribed
  <2>1. PICK loaded : loaded = LoadStored(t, readable)
    BY Zenon
  <2>2. /\ DOMAIN loaded = TabFields /\ loaded = [f \in TabFields |-> loaded[f]]
        /\ loaded.selected = tab[t].selected
        /\ readable => loaded.raw = storage
    BY <2>1, LoadsWhatIsStored, Zenon DEF TabsInv
  <2>3. PICK new : new = NotifyIfUntold(tab[t], loaded)
    BY Zenon
  <2>4. /\ DOMAIN new = TabFields /\ new = [f \in TabFields |-> new[f]]
        /\ new.selected = tab[t].selected
        /\ readable => new.notifiedRaw = storage
    BY <2>2, <2>3 DEF NotifyIfUntold, TabFields
  <2>5. tab' = [tab EXCEPT ![t] = new] /\ missed' = [missed EXCEPT ![t] = ~readable]
    BY <1>2, <2>1, <2>3, Zenon DEF OnStorage
  <2>6. /\ missed' \in [Tab -> BOOLEAN] /\ missed'[t] = ~readable
        /\ \A o \in Tab : o # t => missed'[o] = missed[o]
    BY <2>5 DEF TabsInv, TabShape
  <2>7. TabShape' /\ tab'[t] = new /\ \A o \in Tab : o # t => tab'[o] = tab[o]
    BY <1>1, <2>4, <2>5, <2>6, TabReplaced, Zenon DEF TabsInv
  <2>8. ListenersAreTold'
    BY <1>1, <2>4, <2>6, <2>7, Zenon DEF ListenersAreTold, TabsInv
  <2> QED BY <2>4, <2>7, <2>8, Zenon DEF TabsInv
<1>3. CASE ~tab[t].subscribed
  <2>1. tab' = tab /\ missed' = missed
    BY <1>3, Zenon DEF OnStorage
  <2>2. TabShape'
    BY <1>1, <2>1, Zenon DEF TabsInv, TabShape, TabFields
  <2>3. ListenersAreTold'
    BY <1>1, <1>3, <2>1, Zenon DEF ListenersAreTold, TabsInv
  <2> QED BY <2>1, <2>2, <2>3, Zenon DEF TabsInv
<1> QED BY <1>2, <1>3

\* subscribe: a tab that subscribes after a change it was not told of is behind.
LEMMA SubscribeKeeps ==
  ASSUME TabsInv, NEW t \in Tab, Subscribe(t) \/ Unsubscribe(t)
  PROVE  TabsInv' /\ \A o \in Tab : tab'[o].selected = tab[o].selected
<1>1. PICK on \in BOOLEAN : /\ tab' = [tab EXCEPT ![t].subscribed = on]
                            /\ on = Subscribe(t)
  <2>1. PICK on \in BOOLEAN : on = Subscribe(t)
    BY Zenon DEF Subscribe
  <2>2. CASE on = TRUE
    BY <2>1, <2>2, Zenon DEF Subscribe
  <2>3. CASE on = FALSE
    BY <2>1, <2>3, Zenon DEF Unsubscribe
  <2> QED BY <2>1, <2>2, <2>3
<1>2. PICK new : new = [tab[t] EXCEPT !.subscribed = on]
  BY Zenon
<1>3. /\ DOMAIN new = TabFields /\ new = [f \in TabFields |-> new[f]]
      /\ new.selected = tab[t].selected /\ new.notifiedRaw = tab[t].notifiedRaw
      /\ new.subscribed = on
  BY <1>2 DEF TabFields, TabsInv, TabShape
<1>4. storage' = storage /\ events' = events
  BY DEF Subscribe, Unsubscribe
<1>5. /\ missed' \in [Tab -> BOOLEAN]
      /\ Subscribe(t) => missed'[t] = (tab[t].notifiedRaw # storage)
      /\ \A o \in Tab : o # t => missed'[o] = missed[o]
  BY DEF Subscribe, Unsubscribe, TabsInv, TabShape
<1>6. TabShape' /\ tab'[t] = new /\ \A o \in Tab : o # t => tab'[o] = tab[o]
  <2>1. events' \in [Tab -> BOOLEAN]
    BY <1>4 DEF TabsInv, TabShape
  <2>2. tab' = [tab EXCEPT ![t] = new]
    BY <1>1, <1>2, Zenon
  <2> QED BY <2>1, <2>2, <1>3, <1>5, TabReplaced, Zenon DEF TabsInv
<1>7. ListenersAreTold'
  BY <1>1, <1>3, <1>4, <1>5, <1>6, Zenon DEF ListenersAreTold, TabsInv
<1> QED BY <1>3, <1>6, <1>7, Zenon DEF TabsInv

LEMMA TabsInvInit == TokensInit => TabsInv
<1> SUFFICES ASSUME TokensInit PROVE TabsInv
  OBVIOUS
<1>1. PICK new : new = Opened(storage)
  BY Zenon
<1>2. DOMAIN new = TabFields /\ new = [f \in TabFields |-> new[f]]
      /\ new.notifiedRaw = storage
  BY <1>1 DEF Opened, TabFields
<1>3. tab = [t \in Tab |-> new] /\ events = [t \in Tab |-> FALSE]
      /\ missed = [t \in Tab |-> FALSE]
  BY <1>1, Zenon DEF TokensInit
<1>4. TabShape
  BY <1>2, <1>3 DEF TabShape
<1>5. ListenersAreTold
  BY <1>2, <1>3, Zenon DEF ListenersAreTold
<1> QED BY <1>4, <1>5 DEF TabsInv

\* A step of one tab: its own call, or one that changes no tab's user.
LEMMA TabStep ==
  ASSUME TabsInv, NEW t \in Tab,
         \/ Own(t)
         \/ \E readable \in BOOLEAN : ReadTokens(t, readable) \/ OnStorage(t, readable)
         \/ Subscribe(t) \/ Unsubscribe(t)
  PROVE  /\ TabsInv'
         /\ \A o \in Tab : tab'[o].selected = tab[o].selected \/ Own(o)
<1>1. ASSUME Own(t)
      PROVE  TabsInv' /\ \A o \in Tab : o # t => tab'[o] = tab[o]
  <2>1. CASE Reload(t)
    BY <2>1, ReloadKeeps
  <2>2. CASE ~Reload(t)
    <3>1. PICK readable \in BOOLEAN, writable \in BOOLEAN :
            \/ \E u \in Account : \/ AddAndChange(t, u, readable, writable)
                                  \/ RemoveUser(t, u, readable, writable)
                                  \/ ChangeUser(t, u, readable, writable)
            \/ RemoveAll(t, writable)
      BY <1>1, <2>2, Zenon DEF Own
    <3> QED BY <3>1, OwnSavesKeep
  <2> QED BY <2>1, <2>2
<1>2. CASE Own(t)
  BY <1>1, <1>2, Zenon
<1>3. CASE \E readable \in BOOLEAN : ReadTokens(t, readable) \/ OnStorage(t, readable)
  BY <1>3, ReadKeeps, OnStorageKeeps, Zenon
<1>4. CASE Subscribe(t) \/ Unsubscribe(t)
  BY <1>4, SubscribeKeeps
<1> QED BY <1>2, <1>3, <1>4

LEMMA TabsStep ==
  ASSUME TabsInv, [TokensNext]_tabVars
  PROVE  /\ TabsInv'
         /\ \A o \in Tab : tab'[o].selected = tab[o].selected \/ Own(o)
<1>1. CASE TokensNext
  BY <1>1, TabStep, Zenon DEF TokensNext
<1>2. CASE UNCHANGED tabVars
  <2>1. storage' = storage /\ tab' = tab /\ events' = events /\ missed' = missed
    BY <1>2 DEF tabVars
  <2>2. TabShape'
    BY <2>1 DEF TabsInv, TabShape
  <2>3. ListenersAreTold'
    BY <2>1, Zenon DEF TabsInv, ListenersAreTold
  <2> QED BY <2>1, <2>2, <2>3 DEF TabsInv
<1> QED BY <1>1, <1>2

\* However the calls, renders, events and reloads of a browser's tabs interleave,
\* and whichever reads and writes of the storage fail: the listeners of a tab
\* learn what is stored, and no tab starts to send another user's token because
\* of what another tab did (load, save, onStorage and jwt of tokens.ts).
THEOREM TabsConsistent == TokensSpec => TabsStayConsistent
<1>1. TabsInv /\ [TokensNext]_tabVars => TabsInv'
  BY TabsStep
<1>2. TabsInv /\ [TokensNext]_tabVars => [ListenersAreTold' /\ TabKeepsItsUser]_tabVars
  <2> SUFFICES ASSUME TabsInv, [TokensNext]_tabVars
               PROVE  ListenersAreTold' /\ TabKeepsItsUser
    OBVIOUS
  <2>1. ListenersAreTold'
    BY TabsStep DEF TabsInv
  <2>2. ASSUME NEW t \in Tab
        PROVE  Sends(t)' \in {tab[t].selected, NoUser} \/ Own(t)
    <3>1. PICK loaded : loaded = LoadStored(t, TRUE)'
      BY Zenon
    <3>2. Sends(t)' = SenderOf(loaded)
      BY <3>1, Zenon DEF Sends, SenderOf
    <3>3. loaded.selected = tab'[t].selected
      BY <3>1, TabsStep DEF LoadStored, TabsInv, TabShape, TabFields
    <3>4. tab'[t].selected = tab[t].selected \/ Own(t)
      BY TabsStep, Zenon
    <3>5. SenderOf(loaded) \in {loaded.selected, NoUser}
      BY SendsItsUser, Zenon
    <3> QED BY <3>2, <3>3, <3>4, <3>5, Zenon
  <2> QED BY <2>1, <2>2, Zenon DEF TabKeepsItsUser
<1> QED BY <1>1, <1>2, TabsInvInit, PTL DEF TokensSpec, TabsStayConsistent

----------------------------------------------------------------------------
(* Client addresses: the entries of a header *)

\* The concatenations of the first n of some sequences, by n.
Flattens(ss, n, f) == f = [i \in 1..n |-> IF i = 1 THEN ss[i] ELSE f[i - 1] \o ss[i]]

LEMMA FlattensOne ==
  ASSUME NEW ss, NEW n \in Nat, NEW f, Flattens(ss, n, f), NEW i \in 1..n
  PROVE  f[i] = IF i = 1 THEN ss[i] ELSE f[i - 1] \o ss[i]
<1> DEFINE G(k) == IF k = 1 THEN ss[k] ELSE f[k - 1] \o ss[k]
<1>1. f = [k \in 1..n |-> G(k)]
  BY Zenon DEF Flattens
<1> HIDE DEF G
<1>2. f[i] = G(i)
  BY <1>1
<1> QED BY <1>2 DEF G

\* They exist, and are sequences.
LEMMA FlattensExists ==
  ASSUME NEW S, NEW ss \in Seq(Seq(S)), NEW n \in 0..Len(ss)
  PROVE  \E f : Flattens(ss, n, f) /\ \A i \in 1..n : f[i] \in Seq(S)
<1> DEFINE Exists(k) == \E f : Flattens(ss, k, f) /\ \A i \in 1..k : f[i] \in Seq(S)
           T == {k \in 0..Len(ss) : ~Exists(k)}
<1> SUFFICES ASSUME T # {} PROVE FALSE
  OBVIOUS
<1>1. PICK m \in T : \A k \in T : m <= k
  <2>1. T \subseteq Nat
    OBVIOUS
  <2> HIDE DEF T
  <2> QED BY <2>1, LeastNumber
<1>2. m # 0
  <2>1. Flattens(ss, 0, [i \in 1..0 |-> IF i = 1 THEN ss[i] ELSE <<>>])
    BY DEF Flattens
  <2>2. Exists(0)
    BY <2>1
  <2> QED BY <2>2
<1>3. Exists(m - 1)
  <2>1. m - 1 \in 0..Len(ss) /\ ~(m <= m - 1)
    BY <1>2
  <2> HIDE DEF Exists
  <2> QED BY <2>1, <1>1
<1>4. PICK f : Flattens(ss, m - 1, f) /\ \A i \in 1..(m - 1) : f[i] \in Seq(S)
  BY <1>3
<1> DEFINE last == IF m = 1 THEN ss[m] ELSE f[m - 1] \o ss[m]
           g == [i \in 1..m |-> IF i = m THEN last ELSE f[i]]
<1>5. m \in 1..Len(ss) /\ ss[m] \in Seq(S)
  BY <1>2
<1>6. last \in Seq(S)
  BY <1>4, <1>5
<1>7. \A i \in 1..m : g[i] \in Seq(S)
  <2> HIDE DEF last
  <2> QED BY <1>4, <1>5, <1>6
<1>8. Flattens(ss, m, g)
  <2>1. \A i \in 1..m : g[i] = IF i = 1 THEN ss[i] ELSE g[i - 1] \o ss[i]
    <3> TAKE i \in 1..m
    <3>1. CASE i = m
      <4>1. m # 1 => m - 1 \in 1..m /\ m - 1 # m
        BY <1>5
      <4> QED BY <3>1, <4>1
    <3>2. CASE i # m
      <4>1. i \in 1..(m - 1) /\ m - 1 \in Nat
        BY <3>2, <1>5
      <4>2. f[i] = IF i = 1 THEN ss[i] ELSE f[i - 1] \o ss[i]
        BY <1>4, <4>1, FlattensOne
      <4>3. g[i] = f[i] /\ (i # 1 => g[i - 1] = f[i - 1])
        <5> HIDE DEF last
        <5> QED BY <4>1, <1>5
      <4> HIDE DEF g
      <4> QED BY <4>2, <4>3
    <3> QED BY <3>1, <3>2
  <2>2. g = [i \in 1..m |-> g[i]]
    OBVIOUS
  <2> HIDE DEF g
  <2> QED BY <2>1, <2>2, Zenon DEF Flattens
<1>9. Exists(m)
  <2> HIDE DEF g
  <2> QED BY <1>7, <1>8
<1> QED BY <1>9

\* They depend on what is concatenated only.
LEMMA FlattensAgree ==
  ASSUME NEW S, NEW ss \in Seq(S), NEW tt \in Seq(S), NEW n \in Nat, NEW m \in Nat, n <= m,
         \A i \in 1..n : ss[i] = tt[i],
         NEW f, Flattens(ss, n, f), NEW g, Flattens(tt, m, g)
  PROVE  \A i \in 1..n : f[i] = g[i]
<1> DEFINE T == {i \in 1..n : f[i] # g[i]}
<1> SUFFICES ASSUME T # {} PROVE FALSE
  OBVIOUS
<1>1. PICK k \in T : \A i \in T : k <= i
  <2>1. T \subseteq Nat
    OBVIOUS
  <2> HIDE DEF T
  <2> QED BY <2>1, LeastNumber
<1>2. f[k] = (IF k = 1 THEN ss[k] ELSE f[k - 1] \o ss[k]) /\ k \in 1..n
  BY FlattensOne
<1>3. g[k] = (IF k = 1 THEN tt[k] ELSE g[k - 1] \o tt[k])
  <2>1. k \in 1..m
    OBVIOUS
  <2> QED BY <2>1, FlattensOne
<1>4. k # 1 => f[k - 1] = g[k - 1]
  BY <1>1
<1>5. f[k] = g[k]
  BY <1>2, <1>3, <1>4
<1> QED BY <1>5

LEMMA FlattenIs ==
  ASSUME NEW S, NEW ss \in Seq(Seq(S)), Len(ss) # 0
  PROVE  \E f : /\ Flattens(ss, Len(ss), f) /\ FlattenSeq(ss) = f[Len(ss)]
                /\ \A i \in 1..Len(ss) : f[i] \in Seq(S)
<1>1. PICK f : Flattens(ss, Len(ss), f) /\ \A i \in 1..Len(ss) : f[i] \in Seq(S)
  BY FlattensExists
<1> DEFINE F == CHOOSE g : g = [i \in 1..Len(ss) |-> IF i = 1 THEN ss[i] ELSE g[i - 1] \o ss[i]]
<1>2. FlattenSeq(ss) = F[Len(ss)]
  BY Zenon DEF FlattenSeq
<1>3. F = [i \in 1..Len(ss) |-> IF i = 1 THEN ss[i] ELSE F[i - 1] \o ss[i]]
  BY <1>1, Zenon DEF Flattens
<1> HIDE DEF F
<1>4. Flattens(ss, Len(ss), F)
  BY <1>3, Zenon DEF Flattens
<1>5. \A i \in 1..Len(ss) : F[i] = f[i]
  BY <1>1, <1>4, FlattensAgree
<1> QED BY <1>1, <1>2, <1>4, <1>5

\* Flattening goes from left to right.
LEMMA FlattenAppend ==
  ASSUME NEW S, NEW ss \in Seq(Seq(S)), NEW s \in Seq(S)
  PROVE  /\ FlattenSeq(ss) \in Seq(S)
         /\ FlattenSeq(Append(ss, s)) = FlattenSeq(ss) \o s
<1>1. PICK tt : tt = Append(ss, s)
  OBVIOUS
<1>2. PICK n \in Nat : n = Len(ss)
  OBVIOUS
<1>3. PICK m \in Nat : m = n + 1
  OBVIOUS
<1>4. /\ tt \in Seq(Seq(S)) /\ Len(tt) = m /\ tt[m] = s /\ m \in 1..m /\ m # 0 /\ m - 1 = n
      /\ \A i \in 1..n : ss[i] = tt[i]
  BY <1>1, <1>2, <1>3
<1>5. PICK g : /\ Flattens(tt, m, g) /\ FlattenSeq(tt) = g[m]
  BY <1>4, FlattenIs
<1>6. g[m] = IF m = 1 THEN s ELSE g[n] \o s
  <2>1. Flattens(tt, m, g) /\ m \in 1..m
    BY <1>4, <1>5
  <2>2. ASSUME NEW i \in 1..m PROVE g[i] = IF i = 1 THEN tt[i] ELSE g[i - 1] \o tt[i]
    BY <2>1, FlattensOne
  <2>3. g[m] = IF m = 1 THEN tt[m] ELSE g[m - 1] \o tt[m]
    BY <2>1, <2>2, Zenon
  <2> QED BY <2>3, <1>4, Zenon
<1>7. CASE n = 0
  <2>1. FlattenSeq(ss) = ss /\ ss = <<>>
    BY <1>7, <1>2 DEF FlattenSeq
  <2> QED BY <1>1, <1>3, <1>4, <1>5, <1>6, <1>7, <2>1
<1>8. CASE n # 0
  <2>1. PICK f : /\ Flattens(ss, n, f) /\ FlattenSeq(ss) = f[n]
                 /\ \A i \in 1..n : f[i] \in Seq(S)
    BY <1>2, <1>8, FlattenIs
  <2>2. n \in 1..n /\ n <= m
    BY <1>3, <1>8
  <2>3. \A i \in 1..n : f[i] = g[i]
    <3>1. /\ Flattens(ss, n, f) /\ Flattens(tt, m, g) /\ n <= m
          /\ \A i \in 1..n : ss[i] = tt[i]
      BY <1>4, <1>5, <2>1, <2>2
    <3>2. ss \in Seq(Seq(S)) /\ tt \in Seq(Seq(S))
      BY <1>4
    <3> QED BY <3>1, <3>2, FlattensAgree, SMTT(30)
  <2>4. f[n] = g[n] /\ f[n] \in Seq(S) /\ m # 1
    BY <1>3, <1>8, <2>1, <2>2, <2>3
  <2>5. FlattenSeq(tt) = FlattenSeq(ss) \o s
    BY <1>5, <1>6, <2>1, <2>4, Zenon
  <2> QED BY <1>1, <2>1, <2>4, <2>5, Zenon
<1> QED BY <1>7, <1>8

----------------------------------------------------------------------------
(* Addresses and entries *)

\* An address is told from everything that is none.
LEMMA AddressFields ==
  ASSUME NEW ip \in Addresses
  PROVE  /\ DOMAIN ip = {"v", "n"} /\ ip = [v |-> ip.v, n |-> ip.n]
         /\ \/ ip.v = 4 /\ ip.n \in 0..3
            \/ ip.v = 6 /\ ip.n \in 0..15
<1>1. CASE \E n \in 0..3 : ip = V4(n)
  BY <1>1 DEF V4
<1>2. CASE \E n \in 0..15 : ip = V6(n)
  BY <1>2 DEF V6
<1> QED BY <1>1, <1>2 DEF Addresses

LEMMA AddressIsOne ==
  ASSUME NEW ip \in Addresses
  PROVE  /\ ip \notin {NotYet, NoAddress, Unauthorized, BlankEntry, Garbage, Invalid}
         /\ "port" \notin DOMAIN ip /\ "ip" \notin DOMAIN ip /\ "notText" \notin DOMAIN ip
<1>1. DOMAIN ip = {"v", "n"}
  BY AddressFields
<1>2. /\ DOMAIN NotYet = {"waiting"} /\ DOMAIN NoAddress = {"none"}
      /\ DOMAIN Unauthorized = {"status"} /\ DOMAIN BlankEntry = {"blank"}
      /\ DOMAIN Garbage = {"garbage"} /\ DOMAIN Invalid = {"invalid"}
  BY DEF NotYet, NoAddress, Unauthorized, BlankEntry, Garbage, Invalid
<1> QED BY <1>1, <1>2

LEMMA CanonicalIs ==
  ASSUME NEW ip \in Addresses
  PROVE  Canonical(ip) \in Addresses /\ Canonical(Canonical(ip)) = Canonical(ip)
<1>1. CASE IsMapped(ip)
  <2>1. ip.n % 4 \in 0..3
    BY <1>1, AddressFields DEF IsMapped
  <2>2. Canonical(ip) = V4(ip.n % 4) /\ V4(ip.n % 4) \in Addresses
    BY <1>1, <2>1 DEF Canonical, Addresses
  <2>3. ~IsMapped(V4(ip.n % 4))
    BY DEF IsMapped, V4
  <2> QED BY <2>2, <2>3 DEF Canonical
<1>2. CASE ~IsMapped(ip)
  BY <1>2 DEF Canonical
<1> QED BY <1>1, <1>2

\* An address with a port is no address.
LEMMA PortFields ==
  ASSUME NEW ip
  PROVE  /\ DOMAIN WithPort(ip) = {"port"} /\ WithPort(ip).port = ip
         /\ WithPort(ip) \notin {BlankEntry, Garbage}
<1>1. DOMAIN WithPort(ip) = {"port"} /\ WithPort(ip).port = ip
  BY DEF WithPort
<1>2. DOMAIN BlankEntry = {"blank"} /\ DOMAIN Garbage = {"garbage"}
  BY DEF BlankEntry, Garbage
<1> QED BY <1>1, <1>2

\* What an entry stands for.
LEMMA ParsedEntry ==
  ASSUME NEW e \in Entry, e # BlankEntry
  PROVE  ParseForwardedIp(e) \in Addresses \cup {Unauthorized}
<1>1. CASE e = Garbage
  <2>1. DOMAIN Garbage = {"garbage"}
    BY DEF Garbage
  <2> QED BY <1>1, <2>1 DEF ParseForwardedIp
<1>2. CASE e \in Addresses
  <2>1. e # Garbage /\ "port" \notin DOMAIN e
    BY <1>2, AddressIsOne
  <2>2. ParseForwardedIp(e) = Canonical(e)
    BY <2>1 DEF ParseForwardedIp
  <2> QED BY <1>2, <2>2, CanonicalIs
<1>3. CASE \E ip \in Addresses : e = WithPort(ip)
  <2>1. PICK ip \in Addresses : e = WithPort(ip)
    BY <1>3
  <2>2. e # Garbage /\ "port" \in DOMAIN e /\ e.port = ip
    BY <2>1, PortFields
  <2>3. ParseForwardedIp(e) = Canonical(ip)
    BY <2>2 DEF ParseForwardedIp
  <2> QED BY <2>3, CanonicalIs
<1> QED BY <1>1, <1>2, <1>3 DEF Entry

\* What a proxy appends stands for the sender it got the request from.
LEMMA AppendedEntry ==
  ASSUME NEW ip \in Addresses, Canonical(ip) = ip, NEW e \in {ip, WithPort(ip)}
  PROVE  /\ e \in Entry /\ e # BlankEntry /\ "notText" \notin DOMAIN e
         /\ ParseForwardedIp(e) = ip
<1>1. CASE e = ip
  <2>1. e \notin {BlankEntry, Garbage} /\ "port" \notin DOMAIN e /\ "notText" \notin DOMAIN e
    BY <1>1, AddressIsOne
  <2> QED BY <1>1, <2>1 DEF Entry, ParseForwardedIp
<1>2. CASE e = WithPort(ip)
  <2>1. /\ e \notin {BlankEntry, Garbage} /\ DOMAIN e = {"port"} /\ e.port = ip
    BY <1>2, PortFields
  <2>2. e \in Entry
    BY <1>2 DEF Entry
  <2>3. ParseForwardedIp(e) = Canonical(ip)
    BY <2>1 DEF ParseForwardedIp
  <2> QED BY <2>1, <2>2, <2>3
<1> QED BY <1>1, <1>2

\* The values of a header: lists of entries, or no text.
Values == Seq(Entry) \cup {NotText}

LEMMA EntriesOfValue ==
  ASSUME NEW v \in Values
  PROVE  EntriesOf(v) \in Seq(Entry)
<1>1. Garbage \in Entry
  BY DEF Entry
<1> QED BY <1>1 DEF EntriesOf, Values

\* The entries of one more value come last.
LEMMA EntriesAppend ==
  ASSUME NEW vs \in Seq(Values), NEW v \in Values
  PROVE  /\ Entries(vs) \in Seq(Entry)
         /\ Entries(Append(vs, v)) = Entries(vs) \o EntriesOf(v)
<1> DEFINE All(s) == [k \in DOMAIN s |-> EntriesOf(s[k])]
<1>1. \A s \in Seq(Values) : All(s) \in Seq(Seq(Entry)) /\ DOMAIN s = 1..Len(s)
  <2> TAKE s \in Seq(Values)
  <2>1. DOMAIN s = 1..Len(s) /\ Len(s) \in Nat /\ \A k \in 1..Len(s) : s[k] \in Values
    OBVIOUS
  <2>2. \A k \in 1..Len(s) : EntriesOf(s[k]) \in Seq(Entry)
    BY <2>1, EntriesOfValue
  <2> HIDE DEF All
  <2>3. All(s) = [k \in 1..Len(s) |-> EntriesOf(s[k])]
    BY <2>1 DEF All
  <2> QED BY <2>1, <2>2, <2>3
<1>2. All(Append(vs, v)) = Append(All(vs), EntriesOf(v))
  <2>1. PICK n \in Nat : n = Len(vs)
    OBVIOUS
  <2>2. PICK ws : ws = Append(vs, v)
    OBVIOUS
  <2>3. /\ DOMAIN ws = 1..(n + 1) /\ ws[n + 1] = v
        /\ \A k \in 1..n : ws[k] = vs[k] /\ DOMAIN vs = 1..n
    BY <2>1, <2>2
  <2>4. DOMAIN vs = 1..n
    BY <2>1
  <2>5. All(ws) = [k \in 1..(n + 1) |-> EntriesOf(ws[k])] /\ All(vs) = [k \in 1..n |-> EntriesOf(vs[k])]
    BY <2>3, <2>4
  <2>6. PICK x : x = EntriesOf(v)
    OBVIOUS
  <2>7. PICK a : a = All(vs)
    OBVIOUS
  <2>8. PICK b : b = All(ws)
    OBVIOUS
  <2>9. /\ a \in Seq(Seq(Entry)) /\ Len(a) = n
        /\ b = [k \in 1..(n + 1) |-> IF k = n + 1 THEN x ELSE a[k]]
    <3> HIDE DEF All
    <3>1. a \in Seq(Seq(Entry)) /\ a = [k \in 1..n |-> EntriesOf(vs[k])]
      BY <1>1, <2>5, <2>7
    <3>2. \A k \in 1..(n + 1) : EntriesOf(ws[k]) = IF k = n + 1 THEN x ELSE a[k]
      BY <2>3, <2>6, <3>1
    <3>3. Len(a) = n
      BY <3>1
    <3>4. b = [k \in 1..(n + 1) |-> EntriesOf(ws[k])]
      BY <2>5, <2>8
    <3>5. b = [k \in 1..(n + 1) |-> IF k = n + 1 THEN x ELSE a[k]]
      BY <3>2, <3>4
    <3> QED BY <3>1, <3>3, <3>5
  <2>10. b = Append(a, x)
    <3>1. PICK c : c = Append(a, x)
      OBVIOUS
    <3>2. x \in Seq(Entry)
      BY <2>6, EntriesOfValue
    <3>3. /\ c \in Seq(Seq(Entry)) /\ Len(c) = n + 1 /\ c[n + 1] = x
          /\ \A i \in 1..n : c[i] = a[i]
      BY <2>9, <3>1, <3>2, AppendProperties
    <3>4. c = [k \in 1..(n + 1) |-> c[k]]
      BY <3>3
    <3>5. \A k \in 1..(n + 1) : c[k] = IF k = n + 1 THEN x ELSE a[k]
      BY <3>3
    <3> QED BY <2>9, <3>1, <3>4, <3>5
  <2> HIDE DEF All
  <2> QED BY <2>2, <2>6, <2>7, <2>8, <2>10, Zenon
<1>3. EntriesOf(v) \in Seq(Entry) /\ All(vs) \in Seq(Seq(Entry))
  BY <1>1, EntriesOfValue
<1>4. /\ FlattenSeq(All(vs)) \in Seq(Entry)
      /\ FlattenSeq(Append(All(vs), EntriesOf(v))) = FlattenSeq(All(vs)) \o EntriesOf(v)
  <2> HIDE DEF All
  <2> QED BY <1>3, FlattenAppend, Zenon
<1>5. /\ Entries(vs) = FlattenSeq(All(vs))
      /\ Entries(Append(vs, v)) = FlattenSeq(All(Append(vs, v)))
  BY Zenon DEF Entries
<1> HIDE DEF All
<1> QED BY <1>2, <1>4, <1>5, Zenon

\* A proxy's entry comes last, in a value of its own or at the end of one.
LEMMA EntriesPassOn ==
  ASSUME NEW vs \in Seq(Values), NEW e \in Entry, "notText" \notin DOMAIN e, NEW ws,
         \/ ws = Append(vs, <<e>>)
         \/ vs # <<>> /\ Last(vs) # NotText /\ ws = Append(Front(vs), Append(Last(vs), e))
  PROVE  ws \in Seq(Values) /\ Entries(ws) = Append(Entries(vs), e)
<1>1. ASSUME NEW s \in Seq(Entry)
      PROVE  Append(s, e) \in Values /\ EntriesOf(Append(s, e)) = Append(s, e)
  <2>1. Append(s, e) # NotText
    <3>1. NotText[1] = [notText |-> TRUE] /\ Len(NotText) = 1
      BY DEF NotText
    <3>2. "notText" \in DOMAIN NotText[1]
      BY <3>1
    <3>3. Append(s, e)[Len(Append(s, e))] = e
      OBVIOUS
    <3> QED BY <3>1, <3>2, <3>3
  <2> QED BY <2>1 DEF Values, EntriesOf
<1>2. CASE ws = Append(vs, <<e>>)
  <2>1. <<e>> = Append(<<>>, e) /\ <<>> \in Seq(Entry)
    OBVIOUS
  <2>2. <<e>> \in Values /\ EntriesOf(<<e>>) = <<e>>
    BY <1>1, <2>1
  <2>3. Entries(vs) \in Seq(Entry) /\ Entries(ws) = Entries(vs) \o <<e>>
    BY <1>2, <2>2, EntriesAppend
  <2> QED BY <1>2, <2>2, <2>3
<1>3. CASE vs # <<>> /\ Last(vs) # NotText /\ ws = Append(Front(vs), Append(Last(vs), e))
  <2>1. PICK front, last : front = Front(vs) /\ last = Last(vs)
    OBVIOUS
  <2>2. front \in Seq(Values) /\ last \in Values /\ vs = Append(front, last)
    BY <1>3, <2>1 DEF Front, Last
  <2>3. last \in Seq(Entry) /\ EntriesOf(last) = last
    BY <1>3, <2>1, <2>2 DEF Values, EntriesOf
  <2>4. Append(last, e) \in Values /\ EntriesOf(Append(last, e)) = Append(last, e)
    BY <1>1, <2>3
  <2>5. Entries(front) \in Seq(Entry) /\ Entries(vs) = Entries(front) \o last
    BY <2>2, <2>3, EntriesAppend
  <2>6. Entries(ws) = Entries(front) \o Append(last, e)
    BY <1>3, <2>1, <2>2, <2>4, EntriesAppend
  <2>7. ws \in Seq(Values)
    BY <1>3, <2>1, <2>2, <2>4
  <2>8. PICK all : all = Entries(front)
    OBVIOUS
  <2>9. all \in Seq(Entry) /\ Append(last, e) \in Seq(Entry)
    BY <2>3, <2>5, <2>8
  <2>10. all \o Append(last, e) = Append(all \o last, e)
    BY <2>3, <2>9
  <2> QED BY <2>5, <2>6, <2>7, <2>8, <2>10, Zenon
<1> QED BY <1>2, <1>3

----------------------------------------------------------------------------
(* The walk *)

LEMMA ForwardedIpsAre ==
  ASSUME NEW values \in Seq(Values)
  PROVE  /\ DOMAIN ForwardedIps(values) = {k \in 1..Len(Entries(values)) : Entries(values)[k] # BlankEntry}
         /\ \A k \in DOMAIN ForwardedIps(values) :
              /\ ForwardedIps(values)[k] = ParseForwardedIp(Entries(values)[k])
              /\ ForwardedIps(values)[k] \in Addresses \cup {Unauthorized}
<1>1. PICK entries : entries = Entries(values)
  OBVIOUS
<1>2. entries \in Seq(Entry)
  <2>1. PICK v : v \in Values
    BY DEF Values
  <2> QED BY <1>1, <2>1, EntriesAppend
<1>3. DOMAIN entries = 1..Len(entries)
  BY <1>2
<1> DEFINE F == [k \in {k \in DOMAIN entries : entries[k] # BlankEntry} |-> ParseForwardedIp(entries[k])]
<1>4. ForwardedIps(values) = F
  BY <1>1, Zenon DEF ForwardedIps
<1>5. \A k \in DOMAIN F : ParseForwardedIp(entries[k]) \in Addresses \cup {Unauthorized}
  BY <1>2, <1>3, ParsedEntry
<1> QED BY <1>1, <1>3, <1>4, <1>5, Zenon

\* What the walk ends at is an address, or an error, or nothing.
LEMMA WalkType ==
  ASSUME NEW values \in Seq(Values), NEW proxies, NEW lenient
  PROVE  WalkForwardingHeader(values, proxies, lenient) \in Addresses \cup {NoAddress, Unauthorized}
<1> DEFINE parsed == ForwardedIps(values)
<1>2. PICK n \in Nat : DOMAIN parsed \subseteq 1..n
  <2>1. Len(Entries(values)) \in Nat
    <3>1. Entries(values) \in Seq(Entry)
      <4>1. PICK v : v \in Values
        BY DEF Values
      <4> QED BY <4>1, EntriesAppend
    <3> QED BY <3>1
  <2> QED BY <2>1, ForwardedIpsAre
<1>3. \A k \in DOMAIN parsed : parsed[k] \in Addresses \cup {Unauthorized}
  BY ForwardedIpsAre
<1> DEFINE Ends(ip) == IF ip = Unauthorized THEN ~lenient ELSE ~Trusts(proxies, ip)
           stops == {k \in DOMAIN parsed : Ends(parsed[k])}
           known == {k \in DOMAIN parsed : parsed[k] # Unauthorized}
           atStop == CHOOSE k \in stops : \A j \in stops : j <= k
           atKnown == CHOOSE k \in known : \A j \in known : k <= j
<1>4. WalkForwardingHeader(values, proxies, lenient) =
        IF stops # {} THEN parsed[atStop]
        ELSE IF known = {} THEN NoAddress ELSE parsed[atKnown]
  BY Zenon DEF WalkForwardingHeader
<1>5. stops \subseteq DOMAIN parsed /\ known \subseteq DOMAIN parsed
  BY Zenon
<1> HIDE DEF parsed, Ends, stops, known
<1>6. stops # {} => atStop \in stops
  <2>1. stops # {} => \E k \in stops : \A j \in stops : j <= k
    BY <1>2, <1>5, LastPlace
  <2> QED BY <2>1, Zenon
<1>7. known # {} => atKnown \in known
  <2>1. known # {} => \E k \in known : \A j \in known : k <= j
    <3>1. known \subseteq Nat
      BY <1>2, <1>5
    <3> QED BY <3>1, LeastNumber
  <2> QED BY <2>1, Zenon
<1> HIDE DEF atStop, atKnown
<1> QED BY <1>3, <1>4, <1>5, <1>6, <1>7

\* The walk ends at an address that is not trusted once all after it are.
LEMMA WalkEnds ==
  ASSUME NEW values \in Seq(Values), NEW proxies,
         NEW k \in DOMAIN ForwardedIps(values),
         ForwardedIps(values)[k] # Unauthorized, ~Trusts(proxies, ForwardedIps(values)[k]),
         \A j \in DOMAIN ForwardedIps(values) :
           j > k => /\ ForwardedIps(values)[j] # Unauthorized
                    /\ Trusts(proxies, ForwardedIps(values)[j])
  PROVE  WalkForwardingHeader(values, proxies, FALSE) = ForwardedIps(values)[k]
<1> DEFINE parsed == ForwardedIps(values)
<1> DEFINE Ends(ip) == IF ip = Unauthorized THEN ~FALSE ELSE ~Trusts(proxies, ip)
           stops == {i \in DOMAIN parsed : Ends(parsed[i])}
           known == {i \in DOMAIN parsed : parsed[i] # Unauthorized}
           atStop == CHOOSE i \in stops : \A j \in stops : j <= i
           atKnown == CHOOSE i \in known : \A j \in known : i <= j
<1>2. WalkForwardingHeader(values, proxies, FALSE) =
        IF stops # {} THEN parsed[atStop]
        ELSE IF known = {} THEN NoAddress ELSE parsed[atKnown]
  BY Zenon DEF WalkForwardingHeader
<1>3. k \in stops
  BY Zenon
<1>4. DOMAIN parsed \subseteq Int
  BY ForwardedIpsAre
<1>5. \A j \in stops : j <= k
  <2> SUFFICES ASSUME NEW j \in stops, ~(j <= k) PROVE FALSE
    OBVIOUS
  <2>1. j \in DOMAIN parsed /\ j > k
    BY <1>4
  <2>2. parsed[j] # Unauthorized /\ Trusts(proxies, parsed[j])
    BY <2>1
  <2>3. Ends(parsed[j])
    BY Zenon
  <2> QED BY <2>2, <2>3, Zenon
<1>6. stops \subseteq Int
  BY <1>4
<1> HIDE DEF parsed, Ends, stops, known
<1>7. atStop \in stops /\ \A j \in stops : j <= atStop
  <2>1. \E i \in stops : \A j \in stops : j <= i
    BY <1>3, <1>5, Zenon
  <2> QED BY <2>1, Zenon
<1> HIDE DEF atStop, atKnown
<1>8. atStop = k
  BY <1>3, <1>5, <1>6, <1>7
<1>9. WalkForwardingHeader(values, proxies, FALSE) = parsed[k]
  BY <1>2, <1>3, <1>8, Zenon
<1> QED BY <1>9 DEF parsed

----------------------------------------------------------------------------
(* Whitelists *)

LEMMA Powers == 2^0 = 1 /\ 2^1 = 2 /\ 2^2 = 4 /\ 2^3 = 8 /\ 2^4 = 16
OBVIOUS

\* The bits of an address in the IPv6 space, whose last quarter is the mapped one.
LEMMA EmbeddedIs ==
  ASSUME NEW ip \in Addresses
  PROVE  /\ Embedded(ip) \in 0..15
         /\ Canonical(ip) = IF Embedded(ip) >= 12 THEN V4(Embedded(ip) - 12) ELSE V6(Embedded(ip))
<1>1. CASE ip.v = 4
  <2>1. ip.n \in 0..3 /\ ip = V4(ip.n) /\ Embedded(ip) = 12 + ip.n
    BY <1>1, AddressFields DEF V4, Embedded
  <2>2. Canonical(ip) = ip
    BY <1>1 DEF Canonical, IsMapped
  <2>3. (12 + ip.n) - 12 = ip.n /\ 12 + ip.n \in 0..15 /\ 12 + ip.n >= 12
    BY <2>1
  <2> QED BY <2>1, <2>2, <2>3
<1>2. CASE ip.v # 4
  <2>1. ip.v = 6 /\ ip.n \in 0..15 /\ ip = V6(ip.n) /\ Embedded(ip) = ip.n
    BY <1>2, AddressFields DEF V6, Embedded
  <2>2. IsMapped(ip) <=> ip.n >= 12
    BY <2>1 DEF IsMapped
  <2>3. ip.n >= 12 => ip.n % 4 = ip.n - 12
    BY <2>1
  <2>4. ip.n >= 12 => Canonical(ip) = V4(ip.n - 12)
    BY <2>2, <2>3 DEF Canonical
  <2>5. ~(ip.n >= 12) => Canonical(ip) = ip
    BY <2>2 DEF Canonical
  <2> QED BY <2>1, <2>4, <2>5
<1> QED BY <1>1, <1>2

\* A network in the form it is checked in keeps its bits.
LEMMA CanonicalNet ==
  ASSUME NEW net \in Networks
  PROVE  LET c == CanonicalizeNet(net)
         IN  /\ Lead(net) \in 0..4
             /\ c = IF Embedded(net.ip) >= 12 /\ Lead(net) >= 2
                    THEN [ip |-> V4(Embedded(net.ip) - 12), len |-> Lead(net) - 2]
                    ELSE [ip |-> V6(Embedded(net.ip)), len |-> Lead(net)]
<1>1. /\ net.ip \in Addresses /\ net.len \in 0..4 /\ net.len <= Width(net.ip.v)
      /\ net = [ip |-> net.ip, len |-> net.len]
  BY DEF Networks
<1>2. CASE net.ip.v = 4
  <2>1. net.ip.n \in 0..3 /\ net.ip = V4(net.ip.n) /\ Embedded(net.ip) = 12 + net.ip.n
    BY <1>1, <1>2, AddressFields DEF V4, Embedded
  <2>2. Lead(net) = net.len + 2 /\ net.len <= 2
    BY <1>1, <1>2 DEF Lead, Width, MappedBits
  <2>3. CanonicalizeNet(net) = net
    BY <1>2 DEF CanonicalizeNet, IsMapped
  <2>4. /\ Embedded(net.ip) >= 12 /\ Embedded(net.ip) - 12 = net.ip.n
        /\ Lead(net) >= 2 /\ Lead(net) - 2 = net.len /\ Lead(net) \in 0..4
    BY <1>1, <2>1, <2>2
  <2> QED BY <1>1, <2>1, <2>3, <2>4
<1>3. CASE net.ip.v # 4
  <2>1. net.ip.v = 6 /\ net.ip.n \in 0..15 /\ net.ip = V6(net.ip.n) /\ Embedded(net.ip) = net.ip.n
    BY <1>1, <1>3, AddressFields DEF V6, Embedded
  <2>2. Lead(net) = net.len /\ MappedBits = 2
    BY <1>3 DEF Lead, MappedBits
  <2>3. IsMapped(net.ip) <=> net.ip.n >= 12
    BY <2>1 DEF IsMapped
  <2>4. CASE net.ip.n >= 12 /\ net.len >= 2
    <3>1. Canonical(net.ip) = V4(Embedded(net.ip) - 12)
      BY <1>1, <2>1, <2>4, EmbeddedIs
    <3>2. CanonicalizeNet(net) = [ip |-> Canonical(net.ip), len |-> net.len - 2]
      BY <2>2, <2>3, <2>4 DEF CanonicalizeNet
    <3> QED BY <1>1, <2>1, <2>2, <2>4, <3>1, <3>2
  <2>5. CASE ~(net.ip.n >= 12 /\ net.len >= 2)
    <3>1. CanonicalizeNet(net) = net
      BY <2>2, <2>3, <2>5 DEF CanonicalizeNet
    <3> QED BY <1>1, <2>1, <2>2, <2>5, <3>1
  <2> QED BY <2>4, <2>5
<1> QED BY <1>2, <1>3

\* Whether a network holds an address is decided by their bits.
LEMMA FormsAgree ==
  ASSUME NEW net \in Networks, NEW ip \in Addresses
  PROVE  InNet(CanonicalizeNet(net), Canonical(ip)) <=> HoldsInBits(net, ip)
<1>0. SUFFICES
        LET rest == 2^(4 - Lead(net))
        IN  InNet(CanonicalizeNet(net), Canonical(ip)) <=>
              /\ Embedded(net.ip) \div rest = Embedded(ip) \div rest
              /\ Embedded(ip) \div 4 = 3 => Lead(net) >= MappedBits
  BY Zenon DEF HoldsInBits
<1>1. PICK e \in 0..15 : e = Embedded(net.ip)
  <2>1. net.ip \in Addresses
    BY DEF Networks
  <2> QED BY <2>1, EmbeddedIs
<1>2. PICK f \in 0..15 : f = Embedded(ip)
  BY EmbeddedIs
<1>3. PICK l \in 0..4 : l = Lead(net)
  BY CanonicalNet
<1>4. PICK r \in {1, 2, 4, 8, 16} : /\ r = 2^(4 - l)
                                    /\ r <= 4 <=> l >= 2
  <2>1. CASE l = 0
    <3>1. 4 - l = 4
      BY <2>1
    <3>2. 2^(4 - l) = 16
      BY <3>1, Powers, Zenon
    <3> QED BY <2>1, <3>2
  <2>2. CASE l = 1
    <3>1. 4 - l = 3
      BY <2>2
    <3>2. 2^(4 - l) = 8
      BY <3>1, Powers, Zenon
    <3> QED BY <2>2, <3>2
  <2>3. CASE l = 2
    <3>1. 4 - l = 2
      BY <2>3
    <3>2. 2^(4 - l) = 4
      BY <3>1, Powers, Zenon
    <3> QED BY <2>3, <3>2
  <2>4. CASE l = 3
    <3>1. 4 - l = 1
      BY <2>4
    <3>2. 2^(4 - l) = 2
      BY <3>1, Powers, Zenon
    <3> QED BY <2>4, <3>2
  <2>5. CASE l = 4
    <3>1. 4 - l = 0
      BY <2>5
    <3>2. 2^(4 - l) = 1
      BY <3>1, Powers, Zenon
    <3> QED BY <2>5, <3>2
  <2> QED BY <2>1, <2>2, <2>3, <2>4, <2>5
<1>5. Canonical(ip) = IF f >= 12 THEN V4(f - 12) ELSE V6(f)
  BY <1>2, EmbeddedIs
<1>6. CASE e >= 12 /\ l >= 2
  <2>1. CanonicalizeNet(net) = [ip |-> V4(e - 12), len |-> l - 2]
    BY <1>1, <1>3, <1>6, CanonicalNet
  <2>2. Width(4) - (l - 2) = 4 - l
    BY DEF Width
  <2>3. InNet(CanonicalizeNet(net), Canonical(ip)) <=>
          f >= 12 /\ (e - 12) \div r = (f - 12) \div r
    BY <1>4, <1>5, <2>1, <2>2 DEF InNet, V4, V6
  <2>4. (f >= 12 /\ (e - 12) \div r = (f - 12) \div r) <=> e \div r = f \div r
    BY <1>4, <1>6
  <2> QED BY <1>1, <1>2, <1>3, <1>4, <1>6, <2>3, <2>4 DEF MappedBits
<1>7. CASE ~(e >= 12 /\ l >= 2)
  <2>1. CanonicalizeNet(net) = [ip |-> V6(e), len |-> l]
    BY <1>1, <1>3, <1>7, CanonicalNet
  <2>2. Width(6) - l = 4 - l
    BY DEF Width
  <2>3. InNet(CanonicalizeNet(net), Canonical(ip)) <=> ~(f >= 12) /\ e \div r = f \div r
    BY <1>4, <1>5, <2>1, <2>2 DEF InNet, V4, V6
  <2>4. (~(f >= 12) /\ e \div r = f \div r) <=>
          (e \div r = f \div r /\ (f \div 4 = 3 => l >= 2))
    BY <1>4, <1>7
  <2> QED BY <1>1, <1>2, <1>3, <1>4, <2>3, <2>4 DEF MappedBits
<1> QED BY <1>6, <1>7

\* An entry of a whitelist as a network.
LEMMA NetOf ==
  ASSUME NEW e \in Networks \cup Addresses
  PROVE  AsNet(e) \in Networks
<1>1. CASE e \in Networks
  <2>1. "ip" \in DOMAIN e
    BY <1>1 DEF Networks
  <2> QED BY <1>1, <2>1 DEF AsNet
<1>2. CASE e \in Addresses
  <2>1. "ip" \notin DOMAIN e
    BY <1>2, AddressIsOne
  <2>2. e.v \in {4, 6}
    BY <1>2, AddressFields
  <2>3. Width(e.v) \in 0..4
    BY <2>2 DEF Width
  <2>4. [ip |-> e, len |-> Width(e.v)] \in Networks
    BY <1>2, <2>3 DEF Networks
  <2> QED BY <2>1, <2>4 DEF AsNet
<1> QED BY <1>1, <1>2

\* A whitelist lets in what one of its networks holds.
LEMMA WhitelistHolds ==
  ASSUME NEW list \in Whitelists, list # <<>>, Invalid \notin Range(list), NEW ip \in Addresses
  PROVE  (CheckCidrWhitelist(ip, list) = 200) <=>
           \E k \in DOMAIN list : HoldsInBits(AsNet(list[k]), ip)
<1>1. list \in Seq(Networks \cup Addresses \cup {Invalid})
  BY ClientIpAssumption
<1>2. \A k \in DOMAIN list : list[k] \in Networks \cup Addresses /\ list[k] # Invalid
  <2>1. \A k \in DOMAIN list : list[k] # Invalid
    BY Zenon DEF Range
  <2>2. \A k \in DOMAIN list : list[k] \in Networks \cup Addresses \cup {Invalid}
    BY <1>1
  <2> QED BY <2>1, <2>2, Zenon
<1>3. \A e \in Networks \cup Addresses :
        e # Invalid => /\ AsNet(e) \in Networks /\ ParseCidr(e) = CanonicalizeNet(AsNet(e))
                       /\ ParseCidr(e) # Invalid
  <2> SUFFICES ASSUME NEW e \in Networks \cup Addresses, e # Invalid
               PROVE  /\ AsNet(e) \in Networks /\ ParseCidr(e) = CanonicalizeNet(AsNet(e))
                      /\ ParseCidr(e) # Invalid
    OBVIOUS
  <2>1. AsNet(e) \in Networks
    BY NetOf
  <2>2. ParseCidr(e) = CanonicalizeNet(AsNet(e))
    BY Zenon DEF ParseCidr, AsNet
  <2>3. ParseCidr(e) # Invalid
    <3>1. PICK net \in Networks : net = AsNet(e)
      BY <2>1
    <3>2. DOMAIN CanonicalizeNet(net) = {"ip", "len"}
      BY CanonicalNet
    <3>3. DOMAIN Invalid = {"invalid"}
      BY DEF Invalid
    <3> QED BY <2>2, <3>1, <3>2, <3>3
  <2> QED BY <2>1, <2>2, <2>3
<1> DEFINE nets == {ParseCidr(list[k]) : k \in DOMAIN list}
<1>4. Invalid \notin nets /\ nets # {}
  <2>1. DOMAIN list # {}
    <3>1. PICK S : list \in Seq(S) /\ list # <<>>
      BY <1>1
    <3>2. 1 \in DOMAIN list
      BY <3>1
    <3> QED BY <3>2
  <2> QED BY <1>2, <1>3, <2>1
<1>5. ParseCidrSet(list) = [nets |-> nets] /\ [nets |-> nets] # Invalid
  <2>1. DOMAIN [nets |-> nets] = {"nets"} /\ DOMAIN Invalid = {"invalid"}
    BY DEF Invalid
  <2>2. [nets |-> nets] # Invalid
    <3> HIDE DEF nets
    <3> QED BY <2>1
  <2> QED BY <1>4, <2>2, Zenon DEF ParseCidrSet
<1>6. (CheckCidrWhitelist(ip, list) = 200) <=> \E net \in nets : InNet(net, Canonical(ip))
  <2> DEFINE set == ParseCidrSet(list)
  <2>1. set # Invalid /\ set.nets = nets /\ nets # {}
    <3> HIDE DEF nets
    <3> QED BY <1>4, <1>5
  <2>2. SetContains(set, ip) <=> \E net \in nets : InNet(net, Canonical(ip))
    BY <2>1, Zenon DEF SetContains
  <2>3. CheckCidrWhitelist(ip, list) =
          IF set = Invalid THEN 500
          ELSE IF set.nets = {} \/ SetContains(set, ip) THEN 200 ELSE 403
    BY Zenon DEF CheckCidrWhitelist
  <2> HIDE DEF set, nets
  <2> QED BY <2>1, <2>2, <2>3
<1>7. (\E net \in nets : InNet(net, Canonical(ip))) <=>
        \E k \in DOMAIN list : InNet(ParseCidr(list[k]), Canonical(ip))
  BY Zenon
<1> HIDE DEF nets
<1>8. \A k \in DOMAIN list : /\ AsNet(list[k]) \in Networks
                             /\ ParseCidr(list[k]) = CanonicalizeNet(AsNet(list[k]))
  <2> QED BY <1>2, <1>3
<1>9. \A k \in DOMAIN list :
        InNet(ParseCidr(list[k]), Canonical(ip)) <=> HoldsInBits(AsNet(list[k]), ip)
  BY <1>8, FormsAgree, Zenon
<1>10. (\E k \in DOMAIN list : InNet(ParseCidr(list[k]), Canonical(ip)))
         <=> \E k \in DOMAIN list : HoldsInBits(AsNet(list[k]), ip)
  BY <1>9, Zenon
<1> QED BY <1>6, <1>7, <1>10

\* What a whitelist says of a client does not depend on how its address, or a
\* network, is written.
LEMMA WhitelistsIgnoreForm ==
  ASSUME answer \in {NotYet, Unauthorized} \cup Addresses
  PROVE  WhitelistIgnoresForm
<1> DEFINE forms == {answer} \cup {V6(12 + n) : n \in {k \in 0..3 : answer = V4(k)}}
<1>1. ASSUME answer \in Addresses PROVE forms \subseteq Addresses
  <2>1. \A n \in 0..3 : V6(12 + n) \in Addresses
    BY DEF Addresses
  <2> QED BY <1>1, <2>1
<1>2. ASSUME answer \in Addresses, NEW list \in Whitelists, NEW ip \in forms,
             list # <<>> /\ Invalid \notin Range(list)
      PROVE  (CheckCidrWhitelist(ip, list) = 200) <=>
               \E k \in DOMAIN list : HoldsInBits(AsNet(list[k]), ip)
  <2>1. ip \in Addresses
    BY <1>1, <1>2
  <2> QED BY <1>2, <2>1, WhitelistHolds
<1>3. ASSUME answer \notin {NotYet, Unauthorized} PROVE answer \in Addresses
  BY <1>3
<1> HIDE DEF forms
<1>4. answer \notin {NotYet, Unauthorized} =>
        \A list \in Whitelists, ip \in forms :
          (list # <<>> /\ Invalid \notin Range(list)) =>
            ((CheckCidrWhitelist(ip, list) = 200)
               <=> \E k \in DOMAIN list : HoldsInBits(AsNet(list[k]), ip))
  BY <1>2, <1>3, Zenon
<1> QED BY <1>4, Zenon DEF WhitelistIgnoresForm, forms

----------------------------------------------------------------------------
(* A request on its way *)

\* The last entries of X-Forwarded-For stand for the senders the proxies got
\* the request from, in order.
EndsWithHops(values, hops) ==
  \E m \in Nat :
    /\ Len(Entries(values)) = m + Len(hops) - 1
    /\ \A j \in 1..(Len(hops) - 1) : /\ Entries(values)[m + j] # BlankEntry
                                     /\ ParseForwardedIp(Entries(values)[m + j]) = hops[j]

IsHops(hops) == hops \in Seq(Addresses) /\ \A j \in 1..Len(hops) : Canonical(hops[j]) = hops[j]

IpInv ==
  /\ IsHops(senders)
  /\ forwardedFor \in Seq(Values) /\ realIp \in Seq(Values)
  /\ senders = <<>> => answer = NotYet
  /\ senders # <<>> => EndsWithHops(forwardedFor, senders)
  /\ answer \in {NotYet, Unauthorized} \cup Addresses
  /\ ClientCannotChooseIp

LEMMA IpInit == ClientInit => IpInv
<1> SUFFICES ASSUME ClientInit PROVE IpInv
  OBVIOUS
<1>1. senders = <<>> /\ forwardedFor = <<>> /\ realIp = <<>> /\ answer = NotYet
  BY DEF ClientInit
<1>2. ClientCannotChooseIp
  BY <1>1, Zenon DEF ClientCannotChooseIp
<1> QED BY <1>1, <1>2 DEF IpInv, IsHops

\* A request that was just sent has no hop yet.
LEMMA IpSend ==
  ASSUME IpInv, NEW config \in ProxyConfigs, NEW client \in ClientIps,
         NEW values \in {<<>>} \cup {<<v>> : v \in SentValues},
         NEW real \in {<<>>} \cup {<<v>> : v \in SentValues},
         SendRequest(config, client, values, real)
  PROVE  IpInv'
<1>1. /\ senders = <<>> /\ senders' = <<Canonical(client)>> /\ forwardedFor' = values
      /\ realIp' = real /\ answer' = answer /\ answer = NotYet
  BY DEF SendRequest, IpInv
<1>2. Canonical(client) \in Addresses /\ Canonical(Canonical(client)) = Canonical(client)
  BY ClientIpAssumption, CanonicalIs
<1>3. PICK hops : hops = <<Canonical(client)>>
  OBVIOUS
<1>4. IsHops(hops) /\ hops # <<>> /\ Len(hops) = 1
  BY <1>2, <1>3 DEF IsHops
<1>5. values \in Seq(Values) /\ real \in Seq(Values)
  <2>1. \A v \in SentValues : v \in Values
    BY ClientIpAssumption DEF Values
  <2>2. <<>> \in Seq(Values) /\ \A v \in Values : <<v>> \in Seq(Values)
    OBVIOUS
  <2>3. \A h \in {<<>>} \cup {<<v>> : v \in SentValues} : h \in Seq(Values)
    BY <2>1, <2>2, Zenon
  <2> QED BY <2>3
<1>6. EndsWithHops(values, hops)
  <2>1. PICK m \in Nat : m = Len(Entries(values))
    <3>1. PICK v : v \in Values
      BY DEF Values
    <3>2. Entries(values) \in Seq(Entry)
      BY <1>5, <3>1, EntriesAppend
    <3> QED BY <3>2
  <2>2. m = m + Len(hops) - 1 /\ 1..(Len(hops) - 1) = {}
    BY <1>4
  <2> QED BY <2>1, <2>2 DEF EndsWithHops
<1>7. ClientCannotChooseIp'
  BY <1>1, Zenon DEF ClientCannotChooseIp
<1>8. senders' = hops
  BY <1>1, <1>3
<1>9. /\ IsHops(senders)' /\ (senders # <<>> => EndsWithHops(forwardedFor, senders))'
      /\ (senders # <<>>)'
  BY <1>1, <1>4, <1>6, <1>8 DEF IsHops, EndsWithHops
<1> QED BY <1>1, <1>5, <1>7, <1>9 DEF IpInv

\* A proxy adds a hop.
LEMMA IpPassOn ==
  ASSUME IpInv, NEW proxy \in ProxyIps, PassOn(proxy)
  PROVE  IpInv'
<1>1. PICK hops : hops = senders
  OBVIOUS
<1>2. IsHops(hops) /\ hops # <<>> /\ EndsWithHops(forwardedFor, hops)
  BY <1>1 DEF PassOn, IpInv
<1>3. PICK n \in Nat : n = Len(hops) /\ n >= 1
  <2>1. hops \in Seq(Addresses) /\ hops # <<>>
    BY <1>2 DEF IsHops
  <2>2. Len(hops) \in Nat /\ Len(hops) # 0
    BY <2>1
  <2> QED BY <2>2
<1>4. PICK sender : sender = Last(hops)
  OBVIOUS
<1>5. sender \in Addresses /\ Canonical(sender) = sender /\ sender = hops[n]
  BY <1>2, <1>3, <1>4 DEF IsHops, Last
<1>6. PICK e \in {sender, WithPort(sender)} :
        \/ forwardedFor' = Append(forwardedFor, <<e>>)
        \/ /\ forwardedFor # <<>> /\ Last(forwardedFor) # NotText
           /\ forwardedFor' = Append(Front(forwardedFor), Append(Last(forwardedFor), e))
  BY <1>1, <1>4 DEF PassOn
<1>7. /\ e \in Entry /\ e # BlankEntry /\ "notText" \notin DOMAIN e
      /\ ParseForwardedIp(e) = sender
  BY <1>5, AppendedEntry
<1>8. PICK vs \in Seq(Values) : vs = forwardedFor
  BY DEF IpInv
<1>9. PICK ws : ws = forwardedFor'
  OBVIOUS
<1>10. ws \in Seq(Values) /\ Entries(ws) = Append(Entries(vs), e)
  BY <1>6, <1>7, <1>8, <1>9, EntriesPassOn
<1>11. Entries(vs) \in Seq(Entry)
  BY <1>8, <1>10, EntriesAppend DEF Values
<1>12. PICK next : next = Append(hops, Canonical(proxy))
  OBVIOUS
<1>13. /\ IsHops(next) /\ Len(next) = n + 1 /\ next # <<>>
       /\ \A j \in 1..n : next[j] = hops[j]
  <2>1. Canonical(proxy) \in Addresses /\ Canonical(Canonical(proxy)) = Canonical(proxy)
    BY ClientIpAssumption, CanonicalIs
  <2>2. hops \in Seq(Addresses)
    BY <1>2 DEF IsHops
  <2>3. /\ next \in Seq(Addresses) /\ Len(next) = n + 1 /\ next # <<>>
        /\ \A j \in 1..n : next[j] = hops[j] 
        /\ next[n + 1] = Canonical(proxy)
    BY <1>3, <1>12, <2>1, <2>2, AppendProperties
  <2>4. \A j \in 1..(n + 1) : Canonical(next[j]) = next[j]
    BY <1>2, <1>3, <2>1, <2>3 DEF IsHops
  <2> QED BY <2>3, <2>4 DEF IsHops
<1>14. EndsWithHops(ws, next)
  <2>1. PICK old, new : old = Entries(vs) /\ new = Entries(ws)
    OBVIOUS
  <2>2. PICK m \in Nat : /\ Len(old) = m + n - 1
                         /\ \A j \in 1..(n - 1) : /\ old[m + j] # BlankEntry
                                                  /\ ParseForwardedIp(old[m + j]) = hops[j]
    BY <1>2, <1>3, <1>8, <2>1 DEF EndsWithHops
  <2>3. /\ Len(new) = m + n /\ new[m + n] = e
        /\ \A j \in 1..(n - 1) : new[m + j] = old[m + j]
    <3>1. /\ old \in Seq(Entry) /\ new = Append(old, e)
      BY <1>10, <1>11, <2>1
    <3>2. /\ Len(new) = Len(old) + 1 /\ new[Len(old) + 1] = e
          /\ \A i \in 1..Len(old) : new[i] = old[i]
      BY <1>7, <3>1, AppendProperties
    <3>3. \A j \in 1..(n - 1) : m + j \in 1..Len(old)
      BY <1>3, <2>2
    <3>4. Len(old) + 1 = m + n
      BY <1>3, <2>2
    <3> QED BY <3>2, <3>3, <3>4
  <2>4. \A j \in 1..n : /\ new[m + j] # BlankEntry
                        /\ ParseForwardedIp(new[m + j]) = next[j]
    <3> SUFFICES ASSUME NEW j \in 1..n
                 PROVE  /\ new[m + j] # BlankEntry
                        /\ ParseForwardedIp(new[m + j]) = next[j]
      OBVIOUS
    <3>1. CASE j = n
      BY <1>5, <1>7, <1>13, <2>3, <3>1
    <3>2. CASE j # n
      <4>1. j \in 1..(n - 1)
        BY <1>3, <3>2
      <4> QED BY <1>13, <2>2, <2>3, <4>1
    <3> QED BY <3>1, <3>2
  <2>5. Len(new) = m + Len(next) - 1 /\ Len(next) - 1 = n
    BY <1>13, <2>3
  <2> QED BY <2>1, <2>4, <2>5 DEF EndsWithHops
<1>15. senders' = next /\ forwardedFor' = ws /\ realIp' = realIp /\ answer' = answer /\ answer = NotYet
  BY <1>1, <1>9, <1>12 DEF PassOn
<1>16. ClientCannotChooseIp'
  BY <1>15, Zenon DEF ClientCannotChooseIp
<1>17. /\ IsHops(senders)' /\ (senders # <<>> => EndsWithHops(forwardedFor, senders))'
       /\ (senders # <<>>)'
  BY <1>13, <1>14, <1>15 DEF IsHops, EndsWithHops
<1> QED BY <1>10, <1>15, <1>16, <1>17 DEF IpInv

\* What the server makes of the headers is an address, or it refuses.
LEMMA ClientIpType ==
  ASSUME NEW peer \in Addresses \cup {NoAddress}, NEW proxies,
         NEW xff \in Seq(Values), NEW real \in Seq(Values)
  PROVE  GetClientIp(peer, proxies, xff, real) \in Addresses \cup {Unauthorized}
<1> DEFINE lenient == proxies = TrustAll
           peerTrusted == \/ proxies = TrustAll
                          \/ peer # NoAddress /\ Trusts(proxies, peer)
           orPeer == IF peer = NoAddress THEN Unauthorized ELSE peer
           F == WalkForwardingHeader(xff, proxies, lenient)
           R == WalkForwardingHeader(real, proxies, lenient)
<1>1. GetClientIp(peer, proxies, xff, real) =
        CASE ~peerTrusted -> orPeer
          [] peerTrusted /\ F # NoAddress -> F
          [] peerTrusted /\ F = NoAddress /\ R # NoAddress -> R
          [] peerTrusted /\ F = NoAddress /\ R = NoAddress -> orPeer
  BY Zenon DEF GetClientIp
<1>2. orPeer \in Addresses \cup {Unauthorized}
  OBVIOUS
<1>3. F \in Addresses \cup {NoAddress, Unauthorized} /\ R \in Addresses \cup {NoAddress, Unauthorized}
  BY WalkType, Zenon
<1> HIDE DEF lenient, peerTrusted, orPeer, F, R
<1> QED BY <1>1, <1>2, <1>3

\* The walk over a request's hops ends at the last sender that is not trusted.
LEMMA WalkOverHops ==
  ASSUME NEW hops, NEW values \in Seq(Values), IsHops(hops), EndsWithHops(values, hops),
         NEW proxies, NEW n \in 1..(Len(hops) - 1), ~Trusts(proxies, hops[n]),
         \A j \in (n + 1)..(Len(hops) - 1) : Trusts(proxies, hops[j])
  PROVE  WalkForwardingHeader(values, proxies, FALSE) = hops[n]
<1>1. PICK entries : entries = Entries(values)
  OBVIOUS
<1>2. PICK m \in Nat :
        /\ Len(entries) = m + Len(hops) - 1
        /\ \A j \in 1..(Len(hops) - 1) : /\ entries[m + j] # BlankEntry
                                         /\ ParseForwardedIp(entries[m + j]) = hops[j]
  BY <1>1 DEF EndsWithHops
<1>3. PICK parsed : parsed = ForwardedIps(values)
  OBVIOUS
<1>4. Len(hops) \in Nat /\ \A j \in 1..(Len(hops) - 1) : hops[j] \in Addresses
  BY DEF IsHops
<1>5. /\ DOMAIN parsed = {k \in 1..Len(entries) : entries[k] # BlankEntry}
      /\ \A k \in DOMAIN parsed : parsed[k] = ParseForwardedIp(entries[k])
  BY <1>1, <1>3, ForwardedIpsAre
<1>6. \A j \in 1..(Len(hops) - 1) : /\ m + j \in DOMAIN parsed /\ parsed[m + j] = hops[j]
                                    /\ parsed[m + j] # Unauthorized
  <2> SUFFICES ASSUME NEW j \in 1..(Len(hops) - 1)
               PROVE  /\ m + j \in DOMAIN parsed /\ parsed[m + j] = hops[j]
                      /\ parsed[m + j] # Unauthorized
    OBVIOUS
  <2>1. m + j \in 1..Len(entries) /\ entries[m + j] # BlankEntry
    <3>1. entries[m + j] # BlankEntry
      BY <1>2
    <3>2. m + j \in 1..(m + Len(hops) - 1)
      BY <1>4
    <3> QED BY <1>2, <3>1, <3>2
  <2>2. m + j \in DOMAIN parsed /\ parsed[m + j] = hops[j]
    BY <1>2, <1>5, <2>1
  <2>3. hops[j] # Unauthorized
    BY <1>4, AddressIsOne
  <2> QED BY <2>2, <2>3
<1>7. PICK k : k = m + n
  OBVIOUS
<1>8. k \in DOMAIN parsed /\ parsed[k] = hops[n] /\ parsed[k] # Unauthorized
  BY <1>6, <1>7
<1>9. \A j \in DOMAIN parsed : j > k => /\ parsed[j] # Unauthorized
                                        /\ Trusts(proxies, parsed[j])
  <2> SUFFICES ASSUME NEW j \in DOMAIN parsed, j > k
               PROVE  parsed[j] # Unauthorized /\ Trusts(proxies, parsed[j])
    OBVIOUS
  <2>1. PICK i \in (n + 1)..(Len(hops) - 1) : j = m + i
    <3>1. j \in 1..(m + Len(hops) - 1) /\ j > m + n
      BY <1>2, <1>5, <1>7
    <3>2. j - m \in (n + 1)..(Len(hops) - 1) /\ j = m + (j - m)
      BY <1>4, <3>1
    <3> QED BY <3>2
  <2>2. i \in 1..(Len(hops) - 1)
    BY <1>4
  <2>3. parsed[j] = hops[i] /\ parsed[j] # Unauthorized
    BY <1>6, <2>1, <2>2
  <2>4. Trusts(proxies, hops[i])
    OBVIOUS
  <2> QED BY <2>3, <2>4, Zenon
<1>10. ~Trusts(proxies, parsed[k])
  BY <1>8, Zenon
<1>11. WalkForwardingHeader(values, proxies, FALSE) = parsed[k]
  BY <1>3, <1>8, <1>9, <1>10, WalkEnds
<1> QED BY <1>8, <1>11

\* What the server answers, whatever the headers begin with.
LEMMA AnswerIsLastOutside ==
  ASSUME NEW hops, IsHops(hops), hops # <<>>,
         NEW values \in Seq(Values), NEW real, EndsWithHops(values, hops),
         NEW proxies, proxies # TrustAll, NEW peer \in {Last(hops), NoAddress},
         NEW last \in DOMAIN hops, ~Trusts(proxies, hops[last]),
         \A j \in DOMAIN hops : ~Trusts(proxies, hops[j]) => j <= last
  PROVE  GetClientIp(peer, proxies, values, real) \in {hops[last], Unauthorized}
<1> DEFINE lenient == proxies = TrustAll
           peerTrusted == \/ proxies = TrustAll
                          \/ peer # NoAddress /\ Trusts(proxies, peer)
           orPeer == IF peer = NoAddress THEN Unauthorized ELSE peer
           F == WalkForwardingHeader(values, proxies, lenient)
           R == WalkForwardingHeader(real, proxies, lenient)
<1>1. GetClientIp(peer, proxies, values, real) =
        CASE ~peerTrusted -> orPeer
          [] peerTrusted /\ F # NoAddress -> F
          [] peerTrusted /\ F = NoAddress /\ R # NoAddress -> R
          [] peerTrusted /\ F = NoAddress /\ R = NoAddress -> orPeer
  BY Zenon DEF GetClientIp
<1>2. PICK n \in Nat : n = Len(hops) /\ n >= 1 /\ DOMAIN hops = 1..n
  <2>1. hops \in Seq(Addresses) /\ hops # <<>>
    BY DEF IsHops
  <2>2. Len(hops) \in Nat /\ Len(hops) # 0 /\ DOMAIN hops = 1..Len(hops)
    BY <2>1
  <2>3. Len(hops) \in Nat /\ Len(hops) >= 1 /\ DOMAIN hops = 1..Len(hops)
    BY <2>2
  <2> QED BY <2>3, Zenon
<1>3. \A j \in 1..n : hops[j] \in Addresses /\ hops[j] # NoAddress
  <2>1. \A j \in 1..n : hops[j] \in Addresses
    BY <1>2 DEF IsHops
  <2> QED BY <2>1, AddressIsOne
<1>4. Last(hops) = hops[n]
  BY <1>2 DEF Last
<1>5. CASE peer = NoAddress
  <2>1. ~peerTrusted /\ orPeer = Unauthorized
    BY <1>5
  <2> HIDE DEF peerTrusted, orPeer, F, R
  <2> QED BY <1>1, <2>1
<1>6. CASE peer # NoAddress /\ last = n
  <2>1. peer = hops[last]
    BY <1>4, <1>6
  <2>2. ~peerTrusted /\ orPeer = hops[last]
    BY <1>6, <2>1
  <2> HIDE DEF peerTrusted, orPeer, F, R
  <2> QED BY <1>1, <2>2
<1>7. CASE peer # NoAddress /\ last # n
  <2>1. last \in 1..(n - 1)
    BY <1>2, <1>7
  <2>2. \A j \in (last + 1)..n : Trusts(proxies, hops[j])
    <3>1. \A j \in (last + 1)..n : j \in DOMAIN hops /\ ~(j <= last)
      BY <1>2, <2>1
    <3> QED BY <3>1
  <2>3. peerTrusted
    <3>1. n \in (last + 1)..n
      BY <2>1
    <3>2. Trusts(proxies, hops[n])
      BY <2>2, <3>1
    <3> QED BY <1>4, <1>7, <3>2
  <2>4. F = hops[last]
    <3>1. last \in 1..(Len(hops) - 1)
      BY <1>2, <2>1
    <3>2. \A j \in (last + 1)..(Len(hops) - 1) : Trusts(proxies, hops[j])
      <4>1. \A j \in (last + 1)..(Len(hops) - 1) : j \in (last + 1)..n
        BY <1>2, <2>1
      <4> QED BY <2>2, <4>1
    <3>3. WalkForwardingHeader(values, proxies, FALSE) = hops[last]
      BY <3>1, <3>2, WalkOverHops
    <3>4. lenient = FALSE
      OBVIOUS
    <3> QED BY <3>3, <3>4
  <2>5. F # NoAddress
    BY <1>3, <2>1, <2>4
  <2> HIDE DEF peerTrusted, orPeer, F, R
  <2> QED BY <1>1, <2>3, <2>4, <2>5
<1> QED BY <1>5, <1>6, <1>7

\* The server makes an address of a request.
LEMMA IpReceive ==
  ASSUME IpInv, Receive
  PROVE  IpInv'
<1>1. PICK peer \in {Last(senders), NoAddress} :
        answer' = GetClientIp(peer, policy, forwardedFor, realIp)
  BY DEF Receive
<1>2. /\ policy' = policy /\ senders' = senders /\ senders # <<>>
      /\ forwardedFor' = forwardedFor /\ realIp' = realIp
  BY DEF Receive
<1>3. PICK hops, proxies : hops = senders /\ proxies = policy
  OBVIOUS
<1>4. /\ IsHops(hops) /\ hops # <<>> /\ EndsWithHops(forwardedFor, hops)
      /\ forwardedFor \in Seq(Values) /\ realIp \in Seq(Values)
  BY <1>2, <1>3 DEF IpInv
<1>5. answer' \in Addresses \cup {Unauthorized}
  <2>1. hops \in Seq(Addresses)
    BY <1>4 DEF IsHops
  <2>2. Last(hops) \in Addresses
    BY <1>4, <2>1 DEF Last
  <2>3. peer \in Addresses \cup {NoAddress}
    BY <1>1, <1>3, <2>2
  <2> QED BY <1>1, <1>4, <2>3, ClientIpType, Zenon
<1>6. ClientCannotChooseIp'
  <2> DEFINE outside == {k \in DOMAIN hops : ~Trusts(proxies, hops[k])}
             last == CHOOSE k \in outside : \A j \in outside : j <= k
  <2>1. ASSUME proxies.trust # "all", outside # {}
        PROVE  answer' \in {hops[last], Unauthorized}
    <3>1. Len(hops) \in Nat /\ outside \subseteq 1..Len(hops)
      BY <1>4 DEF IsHops
    <3>2. \E m \in outside : \A k \in outside : k <= m
      <4> HIDE DEF outside
      <4> QED BY <2>1, <3>1, LastPlace
    <3>3. last \in outside /\ \A j \in outside : j <= last
      <4> HIDE DEF outside
      <4> QED BY <3>2
    <3>4. PICK k : k = last
      OBVIOUS
    <3>5. k \in DOMAIN hops /\ ~Trusts(proxies, hops[k])
      BY <3>3, <3>4
    <3>6. \A j \in DOMAIN hops : ~Trusts(proxies, hops[j]) => j <= k
      BY <3>3, <3>4
    <3>7. proxies # TrustAll
      BY <2>1 DEF TrustAll
    <3>8. answer' = GetClientIp(peer, proxies, forwardedFor, realIp)
      BY <1>1, <1>3
    <3>9. peer \in {Last(hops), NoAddress}
      BY <1>1, <1>3
    <3> HIDE DEF last, outside
    <3>10. GetClientIp(peer, proxies, forwardedFor, realIp) \in {hops[k], Unauthorized}
      BY <1>4, <3>5, <3>6, <3>7, <3>9, AnswerIsLastOutside
    <3> QED BY <3>4, <3>8, <3>10
  <2>2. ClientCannotChooseIp' =
          ((answer' # NotYet /\ proxies.trust # "all" /\ outside # {})
             => answer' \in {hops[last], Unauthorized})
    <3>1. senders' = hops /\ policy' = proxies
      BY <1>2, <1>3
    <3> QED BY <3>1, Zenon DEF ClientCannotChooseIp
  <2> HIDE DEF last, outside
  <2> QED BY <2>1, <2>2
<1>7. /\ IsHops(senders)' /\ (senders # <<>> => EndsWithHops(forwardedFor, senders))'
      /\ (senders # <<>>)'
  BY <1>2, <1>3, <1>4 DEF IsHops, EndsWithHops
<1> QED BY <1>2, <1>4, <1>5, <1>6, <1>7 DEF IpInv

LEMMA IpStep == IpInv /\ [ClientNext]_clientVars => IpInv'
<1> SUFFICES ASSUME IpInv, [ClientNext]_clientVars PROVE IpInv'
  OBVIOUS
<1>1. ASSUME NEW config \in ProxyConfigs, NEW client \in ClientIps,
             NEW values \in {<<>>} \cup {<<v>> : v \in SentValues},
             NEW real \in {<<>>} \cup {<<v>> : v \in SentValues},
             SendRequest(config, client, values, real)
      PROVE  IpInv'
  BY <1>1, IpSend
<1>2. ASSUME NEW proxy \in ProxyIps, PassOn(proxy) PROVE IpInv'
  BY <1>2, IpPassOn
<1>3. CASE Receive
  BY <1>3, IpReceive
<1>4. CASE UNCHANGED clientVars
  <2>1. /\ policy' = policy /\ senders' = senders /\ forwardedFor' = forwardedFor
        /\ realIp' = realIp /\ answer' = answer
    BY <1>4 DEF clientVars
  <2>2. ClientCannotChooseIp' = ClientCannotChooseIp
    BY <2>1, Zenon DEF ClientCannotChooseIp
  <2> QED BY <2>1, <2>2 DEF IpInv, IsHops, EndsWithHops
<1> QED BY <1>1, <1>2, <1>3, <1>4 DEF ClientNext

\* Whatever a client writes into X-Forwarded-For and X-Real-IP, and however
\* the proxies append to it, get_client_ip attributes the request to the last
\* sender that is not a trusted proxy or refuses it (unless every proxy is
\* trusted), and check_cidr_whitelist then decides the same for an address and
\* its IPv4-mapped form: for every list of proxies, every header, every chain
\* of proxies and every whitelist.
THEOREM ClientIpsAreTheirs == ClientIpSpec => []ClientIpIsTheirs
<1>1. IpInv => ClientIpIsTheirs
  BY WhitelistsIgnoreForm DEF IpInv, ClientIpIsTheirs
<1> QED BY IpInit, IpStep, <1>1, PTL DEF ClientIpSpec

----------------------------------------------------------------------------
(* Patterns *)

\* Of some places, Max and Min are the last and the first.
LEMMA MaxPlace ==
  ASSUME NEW n \in Nat, NEW T, T \subseteq 1..n, T # {}
  PROVE  Max(T) \in T /\ \A k \in T : k <= Max(T)
<1>1. \E m \in T : \A k \in T : m >= k
  <2>1. PICK m \in T : \A k \in T : k <= m
    BY LastPlace
  <2>2. \A k \in T : m >= k
    BY <2>1
  <2> QED BY <2>2
<1>2. Max(T) \in T /\ \A k \in T : Max(T) >= k
  BY <1>1, Zenon DEF Max
<1> QED BY <1>2

\* Min is the least of some numbers.
LEMMA MinNumber ==
  ASSUME NEW T, T \subseteq Nat, T # {}
  PROVE  Min(T) \in T /\ \A k \in T : Min(T) <= k
<1>1. \E m \in T : \A k \in T : m <= k
  BY LeastNumber
<1> QED BY <1>1, Zenon DEF Min

\* The part between two stars, or the ends, of a pattern occurs in a value
\* after its first n characters.
Same(pattern, value, n, j, k) ==
  /\ n + (k - 1 - j) <= Len(value)
  /\ \A i \in (j + 1)..(k - 1) : value[n + (i - j)] = pattern[i]

\* The part of a pattern after one place and before another, at its places.
LEMMA PartIs ==
  ASSUME NEW S, NEW s \in Seq(S), NEW j \in 0..Len(s), NEW k \in (j + 1)..(Len(s) + 1)
  PROVE  /\ SubSeq(s, j + 1, k - 1) \in Seq(S)
         /\ Len(SubSeq(s, j + 1, k - 1)) = k - 1 - j
         /\ \A i \in (j + 1)..(k - 1) : SubSeq(s, j + 1, k - 1)[i - j] = s[i]
<1>1. j \in Nat /\ k \in Nat /\ Len(s) \in Nat
  OBVIOUS
<1>2. PICK t : t = SubSeq(s, j + 1, k - 1)
  OBVIOUS
<1>3. /\ t \in Seq(S) /\ Len(t) = k - 1 - j
      /\ \A m \in 1..(k - 1 - j) : t[m] = s[(j + 1) + m - 1]
  BY <1>1, <1>2
<1>4. \A i \in (j + 1)..(k - 1) : t[i - j] = s[i]
  <2> SUFFICES ASSUME NEW i \in (j + 1)..(k - 1) PROVE t[i - j] = s[i]
    OBVIOUS
  <2>1. i - j \in 1..(k - 1 - j) /\ (j + 1) + (i - j) - 1 = i
    BY <1>1
  <2> QED BY <1>3, <2>1
<1> QED BY <1>2, <1>3, <1>4

\* Two sequences are the same if they agree everywhere.
LEMMA SameSequence ==
  ASSUME NEW S, NEW s \in Seq(S), NEW t \in Seq(S),
         Len(s) = Len(t), \A i \in 1..Len(s) : s[i] = t[i]
  PROVE  s = t
OBVIOUS

\* Where a part of a pattern occurs in a value.
LEMMA OccurrenceIs ==
  ASSUME NEW S, NEW pattern \in Seq(S), NEW value \in Seq(S),
         NEW j \in 0..Len(pattern), NEW k \in (j + 1)..(Len(pattern) + 1), NEW from \in Nat
  PROVE  \A n : n \in Occurrences(value, from, SubSeq(pattern, j + 1, k - 1))
                  <=> n \in Nat /\ from <= n /\ Same(pattern, value, n, j, k)
<1>1. PICK p \in Seq(S) : p = SubSeq(pattern, j + 1, k - 1)
  BY PartIs
<1>2. Len(p) = k - 1 - j /\ \A i \in (j + 1)..(k - 1) : p[i - j] = pattern[i]
  BY <1>1, PartIs
<1>3. j \in Nat /\ k \in Nat /\ Len(value) \in Nat /\ Len(pattern) \in Nat /\ Len(p) \in Nat
  OBVIOUS
<1> SUFFICES ASSUME NEW n
             PROVE  n \in Occurrences(value, from, p)
                      <=> n \in Nat /\ from <= n /\ Same(pattern, value, n, j, k)
  BY <1>1
<1>4. ASSUME n \in Nat, n + Len(p) <= Len(value)
      PROVE  (SubSeq(value, n + 1, n + Len(p)) = p)
               <=> \A i \in (j + 1)..(k - 1) : value[n + (i - j)] = pattern[i]
  <2>1. PICK t : t = SubSeq(value, n + 1, n + Len(p))
    OBVIOUS
  <2>2. /\ t \in Seq(S) /\ Len(t) = Len(p)
        /\ \A m \in 1..Len(p) : t[m] = value[(n + 1) + m - 1]
    BY <1>3, <1>4, <2>1
  <2>3. \A m \in 1..Len(p) : t[m] = value[n + m]
    <3> SUFFICES ASSUME NEW m \in 1..Len(p) PROVE t[m] = value[n + m]
      OBVIOUS
    <3>1. (n + 1) + m - 1 = n + m
      BY <1>4
    <3> QED BY <2>2, <3>1
  <2>4. ASSUME t = p, NEW i \in (j + 1)..(k - 1) PROVE value[n + (i - j)] = pattern[i]
    <3>1. i - j \in 1..Len(p)
      BY <1>2, <1>3
    <3> QED BY <1>2, <2>3, <2>4, <3>1
  <2>5. ASSUME \A i \in (j + 1)..(k - 1) : value[n + (i - j)] = pattern[i] PROVE t = p
    <3>1. \A m \in 1..Len(p) : t[m] = p[m]
      <4> SUFFICES ASSUME NEW m \in 1..Len(p) PROVE t[m] = p[m]
        OBVIOUS
      <4>1. j + m \in (j + 1)..(k - 1) /\ (j + m) - j = m
        BY <1>2, <1>3
      <4>2. value[n + m] = pattern[j + m] /\ p[m] = pattern[j + m]
        BY <1>2, <2>5, <4>1
      <4> QED BY <2>3, <4>2
    <3> QED BY <2>2, <3>1, SameSequence
  <2> QED BY <2>1, <2>4, <2>5
<1>5. ASSUME n \in Occurrences(value, from, p)
      PROVE  n \in Nat /\ from <= n /\ n + Len(p) <= Len(value)
               /\ SubSeq(value, n + 1, n + Len(p)) = p
  BY <1>3, <1>5 DEF Occurrences
<1>6. ASSUME n \in Nat, from <= n, n + Len(p) <= Len(value), SubSeq(value, n + 1, n + Len(p)) = p
      PROVE  n \in Occurrences(value, from, p)
  <2>1. n \in from..(Len(value) - Len(p))
    BY <1>3, <1>6
  <2> QED BY <1>6, <2>1 DEF Occurrences
<1>7. Len(p) = k - 1 - j
  BY <1>2
<1> QED BY <1>4, <1>5, <1>6, <1>7, Zenon DEF Same

\* A value starts with what stands before the first star if it occurs at 0.
LEMMA PrefixIs ==
  ASSUME NEW S, NEW pattern \in Seq(S), NEW value \in Seq(S), NEW k \in 1..(Len(pattern) + 1)
  PROVE  /\ Len(SubSeq(pattern, 1, k - 1)) = k - 1
         /\ IsPrefix(SubSeq(pattern, 1, k - 1), value) <=> Same(pattern, value, 0, 0, k)
<1>1. 0 \in 0..Len(pattern) /\ k \in (0 + 1)..(Len(pattern) + 1) /\ 0 \in Nat
  OBVIOUS
<1>2. PICK p : p = SubSeq(pattern, 1, k - 1)
  OBVIOUS
<1>3. p \in Seq(S) /\ Len(p) = k - 1 /\ Len(p) \in Nat /\ Len(value) \in Nat
      /\ p = SubSeq(pattern, 0 + 1, k - 1)
  BY <1>2
<1>4. 0 \in Occurrences(value, 0, SubSeq(pattern, 0 + 1, k - 1))
        <=> 0 \in Nat /\ 0 <= 0 /\ Same(pattern, value, 0, 0, k)
  BY <1>1, OccurrenceIs
<1>5. 0 \in Occurrences(value, 0, p)
        <=> Len(p) <= Len(value) /\ SubSeq(value, 1, Len(p)) = p
  <2>1. 0 \in Occurrences(value, 0, p)
          <=> 0 \in 0..(Len(value) - Len(p)) /\ SubSeq(value, 0 + 1, 0 + Len(p)) = p
    BY DEF Occurrences
  <2>2. 0 \in 0..(Len(value) - Len(p)) <=> Len(p) <= Len(value)
    BY <1>3
  <2>3. 0 + 1 = 1 /\ 0 + Len(p) = Len(p)
    BY <1>3
  <2> QED BY <2>1, <2>2, <2>3
<1>6. SubSeq(p, 1, Len(p)) = p
  BY <1>3
<1>7. IsPrefix(p, value) <=> Len(p) <= Len(value) /\ p = SubSeq(value, 1, Len(p))
  BY <1>6 DEF IsPrefix
<1> QED BY <1>2, <1>3, <1>4, <1>5, <1>7

\* How much of the value is taken at the star at k, with f for the stars before.
TakenHere(pattern, value, f, k) ==
  LET before == {j \in Stars(pattern) : j < k}
      part == SubSeq(pattern, Max({0} \cup before) + 1, k - 1)
  IN  IF before = {} THEN IF IsPrefix(part, value) THEN Len(part) ELSE NotFound
      ELSE LET from == f[Max(before)]
               found == Occurrences(value, from, part)
           IN  IF from = NotFound \/ found = {} THEN NotFound
               ELSE Min(found) + Len(part)

\* The stars among the first n places of a pattern.
StarsUpTo(pattern, n) == {k \in Stars(pattern) : k <= n}

\* Stars are places of the pattern.
LEMMA StarsArePlaces ==
  ASSUME NEW S, NEW pattern \in Seq(S)
  PROVE  Stars(pattern) \subseteq 1..Len(pattern) /\ Len(pattern) \in Nat
BY DEF Stars

\* Only the last star before matters.
LEMMA TakenHereFrom ==
  ASSUME NEW S, NEW pattern \in Seq(S), NEW value, NEW f, NEW g, NEW k \in Stars(pattern),
         \A j \in Stars(pattern) : j < k => f[j] = g[j]
  PROVE  TakenHere(pattern, value, f, k) = TakenHere(pattern, value, g, k)
<1> DEFINE before == {j \in Stars(pattern) : j < k}
<1>1. CASE before = {}
  BY <1>1 DEF TakenHere
<1>2. CASE before # {}
  <2>1. before \subseteq 1..Len(pattern) /\ Len(pattern) \in Nat
    BY StarsArePlaces
  <2>2. Max(before) \in before
    <3> HIDE DEF before
    <3> QED BY <1>2, <2>1, MaxPlace
  <2>3. f[Max(before)] = g[Max(before)]
    BY <2>2
  <2> QED BY <2>3 DEF TakenHere
<1> QED BY <1>1, <1>2

\* f is what TakenAt says of the stars up to n.
TakesFirst(pattern, value, n, f) ==
  f = [k \in StarsUpTo(pattern, n) |-> TakenHere(pattern, value, f, k)]

\* There is only one such function for n ...
LEMMA TakesOne ==
  ASSUME NEW pattern, NEW value, NEW n, NEW f, TakesFirst(pattern, value, n, f),
         NEW k \in StarsUpTo(pattern, n)
  PROVE  f[k] = TakenHere(pattern, value, f, k)
<1> DEFINE F(i) == TakenHere(pattern, value, f, i)
<1>1. f = [i \in StarsUpTo(pattern, n) |-> F(i)]
  BY Zenon DEF TakesFirst
<1> HIDE DEF F
<1>2. f[k] = F(k)
  BY <1>1
<1> QED BY <1>2 DEF F

\* ... and there is one, by induction on n.
LEMMA TakesExists ==
  ASSUME NEW S, NEW pattern \in Seq(S), NEW value
  PROVE  \A n \in Nat : \E f : TakesFirst(pattern, value, n, f)
<1> DEFINE T == {n \in Nat : ~\E f : TakesFirst(pattern, value, n, f)}
<1> SUFFICES ASSUME T # {} PROVE FALSE
  OBVIOUS
<1>1. PICK m \in T : \A n \in T : m <= n
  <2>1. T \subseteq Nat
    OBVIOUS
  <2> HIDE DEF T
  <2> QED BY <2>1, LeastNumber
<1>2. m # 0
  <2> SUFFICES \E f : TakesFirst(pattern, value, 0, f)
    BY <1>1
  <2>1. StarsUpTo(pattern, 0) = {}
    BY StarsArePlaces DEF StarsUpTo
  <2>2. PICK f : f = [k \in {} |-> 0]
    OBVIOUS
  <2>3. f = [k \in StarsUpTo(pattern, 0) |-> TakenHere(pattern, value, f, k)]
    BY <2>1, <2>2
  <2> QED BY <2>3, Zenon DEF TakesFirst
<1>3. PICK f : TakesFirst(pattern, value, m - 1, f)
  <2>1. m - 1 \in Nat /\ ~(m <= m - 1)
    BY <1>1, <1>2
  <2>2. m - 1 \notin T
    BY <1>1, <2>1
  <2> QED BY <2>1, <2>2
<1>4. PICK g : g = [k \in StarsUpTo(pattern, m) |->
                      IF k = m THEN TakenHere(pattern, value, f, m) ELSE f[k]]
  OBVIOUS
<1>5. m \in Nat /\ Stars(pattern) \subseteq Nat
  BY StarsArePlaces
<1>6. \A j \in Stars(pattern) : j < m => g[j] = f[j]
  BY <1>4, <1>5 DEF StarsUpTo
<1>7. \A k \in StarsUpTo(pattern, m) : g[k] = TakenHere(pattern, value, g, k)
  <2> SUFFICES ASSUME NEW k \in StarsUpTo(pattern, m)
               PROVE  g[k] = TakenHere(pattern, value, g, k)
    OBVIOUS
  <2>1. k \in Stars(pattern) /\ k <= m /\ k \in Nat
    BY <1>5 DEF StarsUpTo
  <2>2. \A j \in Stars(pattern) : j < k => g[j] = f[j]
    BY <1>5, <1>6, <2>1
  <2>3. TakenHere(pattern, value, g, k) = TakenHere(pattern, value, f, k)
    BY <2>1, <2>2, TakenHereFrom
  <2>4. CASE k = m
    BY <1>4, <2>3, <2>4
  <2>5. CASE k # m
    <3>1. k \in StarsUpTo(pattern, m - 1) /\ k < m
      BY <1>5, <2>1, <2>5 DEF StarsUpTo
    <3>2. f[k] = TakenHere(pattern, value, f, k)
      BY <1>3, <3>1, TakesOne
    <3> QED BY <1>6, <2>1, <2>3, <3>1, <3>2
  <2> QED BY <2>4, <2>5
<1>8. TakesFirst(pattern, value, m, g)
  <2> DEFINE G(k) == TakenHere(pattern, value, g, k)
  <2>1. \A k \in StarsUpTo(pattern, m) : g[k] = G(k)
    BY <1>7
  <2>2. g = [k \in StarsUpTo(pattern, m) |-> g[k]]
    BY <1>4
  <2> HIDE DEF G
  <2>3. g = [k \in StarsUpTo(pattern, m) |-> G(k)]
    BY <2>1, <2>2
  <2> QED BY <2>3, Zenon DEF TakesFirst, G
<1> QED BY <1>1, <1>8

\* So TakenAt is what its definition says.
LEMMA TakenAtIs ==
  ASSUME NEW S, NEW pattern \in Seq(S), NEW value
  PROVE  \E f : /\ f = TakenAt(pattern, value)
                /\ \A k \in Stars(pattern) : f[k] = TakenHere(pattern, value, f, k)
<1> DEFINE F == CHOOSE f : f = [k \in Stars(pattern) |-> TakenHere(pattern, value, f, k)]
<1>1. F = TakenAt(pattern, value)
  BY Zenon DEF TakenAt, TakenHere
<1>2. PICK n \in Nat : n = Len(pattern)
  BY StarsArePlaces
<1>3. StarsUpTo(pattern, n) = Stars(pattern)
  BY <1>2, StarsArePlaces DEF StarsUpTo
<1>4. F = [k \in Stars(pattern) |-> TakenHere(pattern, value, F, k)]
  <2>1. PICK f : TakesFirst(pattern, value, n, f)
    BY TakesExists
  <2> DEFINE H(k) == TakenHere(pattern, value, f, k)
  <2>2. f = [k \in StarsUpTo(pattern, n) |-> H(k)]
    BY <2>1, Zenon DEF TakesFirst
  <2>3. f = [k \in Stars(pattern) |-> H(k)]
    <3> HIDE DEF H
    <3> QED BY <1>3, <2>2
  <2>4. \E g : g = [k \in Stars(pattern) |-> TakenHere(pattern, value, g, k)]
    BY <2>3, Zenon
  <2> QED BY <2>4, Zenon
<1> HIDE DEF F
<1>5. TakesFirst(pattern, value, n, F)
  BY <1>3, <1>4, Zenon DEF TakesFirst
<1>6. \A k \in Stars(pattern) : F[k] = TakenHere(pattern, value, F, k)
  BY <1>3, <1>5, TakesOne
<1> QED BY <1>1, <1>6

\* No star stands between the places j and k.
Apart(pattern, j, k) == \A i \in Stars(pattern) : i <= j \/ k <= i

\* What is taken at k, if `from` is taken at the star before it, at j: the part
\* between them where it is found first.
FindsAt(pattern, value, from, n, j, k) == from <= n /\ Same(pattern, value, n, j, k)
TakesNext(pattern, value, from, taken, j, k) ==
  IF from = NotFound THEN taken = NotFound
  ELSE \/ /\ taken = NotFound
          /\ \A n \in Nat : ~FindsAt(pattern, value, from, n, j, k)
       \/ \E n \in Nat : /\ FindsAt(pattern, value, from, n, j, k)
                         /\ taken = n + (k - 1 - j)
                         /\ \A m \in Nat : FindsAt(pattern, value, from, m, j, k) => n <= m

\* What the loop knows at each star.
Greedy(pattern, value, f) ==
  \A k \in Stars(pattern) :
    /\ f[k] = NotFound \/ f[k] \in Nat
    /\ Apart(pattern, 0, k) =>
         f[k] = IF Same(pattern, value, 0, 0, k) THEN k - 1 ELSE NotFound
    /\ \A j \in Stars(pattern) :
         j < k /\ Apart(pattern, j, k) => TakesNext(pattern, value, f[j], f[k], j, k)

\* The greatest of some numbers.
LEMMA MaxIs ==
  ASSUME NEW T, T \subseteq Nat, NEW m \in T, \A k \in T : k <= m
  PROVE  Max(T) = m
<1>1. \A k \in T : m >= k
  OBVIOUS
<1>2. Max(T) \in T /\ \A k \in T : Max(T) >= k
  BY <1>1, Zenon DEF Max
<1>3. PICK x : x = Max(T)
  OBVIOUS
<1>4. x \in Nat /\ x >= m /\ x <= m
  BY <1>2, <1>3
<1>5. m \in Nat
  OBVIOUS
<1>6. x = m
  BY <1>4, <1>5
<1> QED BY <1>3, <1>6

\* At the first star.
LEMMA TakenFirst ==
  ASSUME NEW S, NEW pattern \in Seq(S), NEW value \in Seq(S), NEW f,
         NEW k \in Stars(pattern), Apart(pattern, 0, k)
  PROVE  TakenHere(pattern, value, f, k)
           = IF Same(pattern, value, 0, 0, k) THEN k - 1 ELSE NotFound
<1>1. k \in 1..Len(pattern) /\ Len(pattern) \in Nat /\ k \in Nat
  BY StarsArePlaces
<1>2. {j \in Stars(pattern) : j < k} = {}
  BY <1>1, StarsArePlaces DEF Apart
<1>3. ASSUME NEW T, T = {} PROVE Max({0} \cup T) = 0
  <2>1. {0} \cup T \subseteq Nat /\ 0 \in {0} \cup T /\ \A i \in {0} \cup T : i <= 0
    BY <1>3
  <2> QED BY <2>1, MaxIs
<1>4. PICK p : p = SubSeq(pattern, 1, k - 1)
  OBVIOUS
<1>5. k \in 1..(Len(pattern) + 1)
  BY <1>1
<1>6. Len(p) = k - 1 /\ (IsPrefix(p, value) <=> Same(pattern, value, 0, 0, k))
  BY <1>4, <1>5, PrefixIs
<1> DEFINE before == {j \in Stars(pattern) : j < k}
           part == SubSeq(pattern, Max({0} \cup before) + 1, k - 1)
           from == f[Max(before)]
           found == Occurrences(value, from, part)
<1>8. TakenHere(pattern, value, f, k)
        = IF before = {} THEN IF IsPrefix(part, value) THEN Len(part) ELSE NotFound
          ELSE IF from = NotFound \/ found = {} THEN NotFound
               ELSE Min(found) + Len(part)
  BY Zenon DEF TakenHere
<1>7. before = {}
  BY <1>2
<1>9. part = p
  <2> HIDE DEF before
  <2>1. PICK z : z = Max({0} \cup before)
    OBVIOUS
  <2>2. z + 1 = 1
    <3>1. z = 0
      BY <1>3, <1>7, <2>1
    <3> QED BY <3>1
  <2>3. part = SubSeq(pattern, z + 1, k - 1)
    BY <2>1, Zenon
  <2> QED BY <1>4, <2>2, <2>3, Zenon
<1> HIDE DEF before, part, from, found
<1> QED BY <1>6, <1>7, <1>8, <1>9

\* At a later one, if the value is taken up to the one before.
LEMMA TakenNext ==
  ASSUME NEW S, NEW pattern \in Seq(S), NEW value \in Seq(S), NEW f,
         NEW k \in Stars(pattern), NEW j \in Stars(pattern), j < k, Apart(pattern, j, k),
         f[j] = NotFound \/ f[j] \in Nat
  PROVE  TakesNext(pattern, value, f[j], TakenHere(pattern, value, f, k), j, k)
<1>1. /\ k \in 1..Len(pattern) /\ j \in 1..Len(pattern)
      /\ Len(pattern) \in Nat /\ k \in Nat /\ j \in Nat
  BY StarsArePlaces
<1> DEFINE before == {i \in Stars(pattern) : i < k}
           part == SubSeq(pattern, Max({0} \cup before) + 1, k - 1)
           from == f[Max(before)]
           found == Occurrences(value, from, part)
<1>2. before \subseteq 1..Len(pattern) /\ j \in before /\ \A i \in before : i <= j
  BY <1>1, StarsArePlaces DEF Apart
<1>3. Max(before) = j
  <2> HIDE DEF before
  <2>1. before \subseteq Nat /\ j \in before /\ \A i \in before : i <= j
    BY <1>2
  <2> QED BY <2>1, MaxIs
<1>4. Max({0} \cup before) = j
  <2> HIDE DEF before
  <2>1. {0} \cup before \subseteq Nat /\ j \in {0} \cup before
        /\ \A i \in {0} \cup before : i <= j
    BY <1>1, <1>2
  <2> QED BY <2>1, MaxIs
<1>5. TakenHere(pattern, value, f, k)
        = IF before = {} THEN IF IsPrefix(part, value) THEN Len(part) ELSE NotFound
          ELSE IF from = NotFound \/ found = {} THEN NotFound
               ELSE Min(found) + Len(part)
  BY Zenon DEF TakenHere
<1>6. before # {} /\ from = f[j] /\ part = SubSeq(pattern, j + 1, k - 1)
      /\ found = Occurrences(value, f[j], SubSeq(pattern, j + 1, k - 1))
  BY <1>2, <1>3, <1>4
<1> HIDE DEF before, part, from, found
<1>7. Len(part) = k - 1 - j
  <2>1. j \in 0..Len(pattern) /\ k \in (j + 1)..(Len(pattern) + 1)
    BY <1>1
  <2> QED BY <1>6, <2>1, PartIs
<1>8. PICK h : h = TakenHere(pattern, value, f, k)
  OBVIOUS
<1>9. h = IF f[j] = NotFound \/ found = {} THEN NotFound ELSE Min(found) + (k - 1 - j)
  BY <1>5, <1>6, <1>7, <1>8
<1> DEFINE Finds(n) == FindsAt(pattern, value, f[j], n, j, k)
<1>10. ASSUME f[j] # NotFound
       PROVE  \/ h = NotFound /\ \A n \in Nat : ~Finds(n)
              \/ \E n \in Nat : /\ Finds(n) /\ h = n + (k - 1 - j)
                                /\ \A m \in Nat : Finds(m) => n <= m
  <2>1. \A n : n \in found <=> n \in Nat /\ Finds(n)
    <3>1. j \in 0..Len(pattern) /\ k \in (j + 1)..(Len(pattern) + 1) /\ f[j] \in Nat
      BY <1>1, <1>10
    <3> QED BY <1>6, <3>1, OccurrenceIs DEF FindsAt
  <2> HIDE DEF Finds
  <2>2. CASE found = {}
    BY <1>9, <2>1, <2>2
  <2>3. CASE found # {}
    <3>1. found \subseteq Nat
      BY <2>1
    <3>2. Min(found) \in found /\ \A n \in found : Min(found) <= n
      BY <2>3, <3>1, MinNumber
    <3>3. h = Min(found) + (k - 1 - j)
      BY <1>9, <1>10, <2>3
    <3> QED BY <2>1, <3>2, <3>3
  <2> QED BY <2>2, <2>3
<1> QED BY <1>8, <1>9, <1>10, Zenon DEF TakesNext

\* TakenAt tells how far the search has come at each star.
LEMMA TakenIsGreedy ==
  ASSUME NEW S, NEW pattern \in Seq(S), NEW value \in Seq(S)
  PROVE  \E f : f = TakenAt(pattern, value) /\ Greedy(pattern, value, f)
<1>1. PICK f : /\ f = TakenAt(pattern, value)
               /\ \A k \in Stars(pattern) : f[k] = TakenHere(pattern, value, f, k)
  BY TakenAtIs
<1>2. PICK n \in Nat : n = Len(pattern) /\ Stars(pattern) \subseteq 1..n
  BY StarsArePlaces
<1> DEFINE Known(k) == f[k] = NotFound \/ f[k] \in Nat
           T == {k \in Stars(pattern) : ~Known(k)}
<1>3. ASSUME NEW k \in Stars(pattern), ~Apart(pattern, 0, k)
      PROVE  \E j \in Stars(pattern) : j < k /\ Apart(pattern, j, k)
  <2> DEFINE U == {i \in Stars(pattern) : i < k}
  <2>1. U \subseteq 1..n /\ U # {}
    BY <1>2, <1>3 DEF Apart
  <2>2. PICK j \in U : \A i \in U : i <= j
    <3> HIDE DEF U
    <3> QED BY <2>1, LastPlace
  <2>3. Apart(pattern, j, k)
    BY <1>2, <2>2 DEF Apart
  <2> QED BY <2>2, <2>3
<1>4. \A k \in Stars(pattern) : Known(k)
  <2> SUFFICES ASSUME T # {} PROVE FALSE
    OBVIOUS
  <2>1. PICK k \in T : \A i \in T : k <= i
    <3>1. T \subseteq Nat
      BY <1>2
    <3> HIDE DEF T
    <3> QED BY <3>1, LeastNumber
  <2>2. k \in Stars(pattern) /\ k \in Nat
    BY <1>2
  <2>3. CASE Apart(pattern, 0, k)
    <3>1. f[k] = IF Same(pattern, value, 0, 0, k) THEN k - 1 ELSE NotFound
      BY <1>1, <2>2, <2>3, TakenFirst
    <3>2. k - 1 \in Nat
      BY <1>2, <2>2
    <3> QED BY <2>1, <3>1, <3>2
  <2>4. CASE ~Apart(pattern, 0, k)
    <3>1. PICK j \in Stars(pattern) : j < k /\ Apart(pattern, j, k)
      BY <1>3, <2>2, <2>4
    <3>2. j \notin T /\ j \in Nat
      BY <1>2, <2>1, <2>2, <3>1
    <3>3. Known(j)
      BY <3>2
    <3>4. TakesNext(pattern, value, f[j], f[k], j, k)
      BY <1>1, <2>2, <3>1, <3>3, TakenNext
    <3>5. k - 1 - j \in Nat
      BY <2>2, <3>1, <3>2
    <3>6. \A i \in Nat : i + (k - 1 - j) \in Nat
      BY <3>5
    <3> QED BY <2>1, <3>4, <3>6, Zenon DEF TakesNext
  <2> QED BY <2>3, <2>4
<1>5. Greedy(pattern, value, f)
  <2> SUFFICES ASSUME NEW k \in Stars(pattern)
               PROVE  /\ f[k] = NotFound \/ f[k] \in Nat
                      /\ Apart(pattern, 0, k) =>
                           f[k] = IF Same(pattern, value, 0, 0, k) THEN k - 1 ELSE NotFound
                      /\ \A j \in Stars(pattern) : j < k /\ Apart(pattern, j, k) =>
                           TakesNext(pattern, value, f[j], f[k], j, k)
    BY Zenon DEF Greedy
  <2>1. f[k] = TakenHere(pattern, value, f, k)
    BY <1>1
  <2>2. Apart(pattern, 0, k) =>
          f[k] = IF Same(pattern, value, 0, 0, k) THEN k - 1 ELSE NotFound
    BY <2>1, TakenFirst
  <2>3. ASSUME NEW j \in Stars(pattern), j < k, Apart(pattern, j, k)
        PROVE  TakesNext(pattern, value, f[j], f[k], j, k)
    <3>1. Known(j)
      BY <1>4
    <3> QED BY <2>1, <2>3, <3>1, TakenNext
  <2> QED BY <1>4, <2>2, <2>3
<1> QED BY <1>1, <1>5

\* A way of cutting a value into what each character of a pattern stands for.
IsCut(pattern, value, cut) ==
  /\ cut \in [0..Len(pattern) -> 0..Len(value)]
  /\ cut[0] = 0 /\ cut[Len(pattern)] = Len(value)
  /\ \A k \in 1..Len(pattern) :
       IF pattern[k] = "*" THEN cut[k - 1] <= cut[k]
       ELSE cut[k] = cut[k - 1] + 1 /\ value[cut[k]] = pattern[k]

\* Between stars a cut takes one character for one.
LEMMA CutRuns ==
  ASSUME NEW S, NEW pattern \in Seq(S), NEW value \in Seq(S), NEW cut,
         IsCut(pattern, value, cut),
         NEW j \in 0..Len(pattern), NEW k \in (j + 1)..(Len(pattern) + 1),
         Apart(pattern, j, k)
  PROVE  cut[k - 1] = cut[j] + (k - 1 - j) /\ Same(pattern, value, cut[j], j, k)
<1>1. /\ j \in Nat /\ k \in Nat /\ Len(pattern) \in Nat /\ Len(value) \in Nat
      /\ j < k /\ k <= Len(pattern) + 1
  OBVIOUS
<1>2. \A i \in j..(k - 1) : i \in 0..Len(pattern) /\ cut[i] \in 0..Len(value)
  <2>1. cut \in [0..Len(pattern) -> 0..Len(value)]
    BY DEF IsCut
  <2>2. \A i \in j..(k - 1) : i \in 0..Len(pattern)
    BY <1>1
  <2> QED BY <2>1, <2>2
<1>3. ASSUME NEW i \in (j + 1)..(k - 1)
      PROVE  cut[i] = cut[i - 1] + 1 /\ value[cut[i]] = pattern[i]
  <2>1. i \in 1..Len(pattern) /\ ~(i <= j) /\ ~(k <= i)
    BY <1>1
  <2>2. pattern[i] # "*"
    BY <2>1 DEF Apart, Stars
  <2> QED BY <2>1, <2>2 DEF IsCut
<1> DEFINE T == {i \in j..(k - 1) : cut[i] # cut[j] + (i - j)}
<1>4. \A i \in j..(k - 1) : cut[i] = cut[j] + (i - j)
  <2> SUFFICES ASSUME T # {} PROVE FALSE
    OBVIOUS
  <2>1. PICK m \in T : \A i \in T : m <= i
    <3>1. T \subseteq Nat
      BY <1>1
    <3> HIDE DEF T
    <3> QED BY <3>1, LeastNumber
  <2>2. m # j
    <3>1. cut[j] \in Nat /\ j \in j..(k - 1)
      BY <1>1, <1>2
    <3> QED BY <1>1, <2>1, <3>1
  <2>3. m - 1 \in j..(k - 1) /\ m \in (j + 1)..(k - 1) /\ ~(m <= m - 1)
    BY <1>1, <2>1, <2>2
  <2>4. cut[m - 1] = cut[j] + ((m - 1) - j)
    BY <2>1, <2>3
  <2>5. cut[m] = cut[m - 1] + 1
    BY <1>3, <2>3
  <2>6. cut[j] \in Nat
    BY <1>1, <1>2
  <2> QED BY <1>1, <2>1, <2>4, <2>5, <2>6
<1>5. cut[k - 1] = cut[j] + (k - 1 - j)
  <2>1. k - 1 \in j..(k - 1)
    BY <1>1
  <2> QED BY <1>4, <2>1
<1>6. \A i \in (j + 1)..(k - 1) : value[cut[j] + (i - j)] = pattern[i]
  <2> SUFFICES ASSUME NEW i \in (j + 1)..(k - 1)
               PROVE  value[cut[j] + (i - j)] = pattern[i]
    OBVIOUS
  <2>1. i \in j..(k - 1)
    BY <1>1
  <2> QED BY <1>3, <1>4, <2>1
<1>7. cut[j] + (k - 1 - j) <= Len(value)
  <2>1. k - 1 \in j..(k - 1)
    BY <1>1
  <2>2. cut[k - 1] <= Len(value)
    BY <1>1, <1>2, <2>1
  <2> QED BY <1>5, <2>2
<1> QED BY <1>5, <1>6, <1>7 DEF Same

\* The star before a place, and the one after it.
LEMMA StarBefore ==
  ASSUME NEW S, NEW pattern \in Seq(S), NEW k \in Nat, ~Apart(pattern, 0, k)
  PROVE  \E j \in Stars(pattern) : j < k /\ Apart(pattern, j, k)
<1> DEFINE U == {i \in Stars(pattern) : i < k}
<1>1. Stars(pattern) \subseteq 1..Len(pattern) /\ Len(pattern) \in Nat
  BY StarsArePlaces
<1>2. U \subseteq 1..Len(pattern) /\ U # {}
  BY <1>1 DEF Apart
<1>3. PICK j \in U : \A i \in U : i <= j
  <2> HIDE DEF U
  <2> QED BY <1>1, <1>2, LastPlace
<1>4. Apart(pattern, j, k)
  BY <1>1, <1>3 DEF Apart
<1> QED BY <1>3, <1>4

\* After every place comes the next star, or the end.
LEMMA StarAfter ==
  ASSUME NEW S, NEW pattern \in Seq(S), NEW j \in 0..Len(pattern)
  PROVE  \E k \in Stars(pattern) \cup {Len(pattern) + 1} : j < k /\ Apart(pattern, j, k)
<1> DEFINE U == {i \in Stars(pattern) \cup {Len(pattern) + 1} : j < i}
<1>1. Stars(pattern) \subseteq 1..Len(pattern) /\ Len(pattern) \in Nat /\ j \in Nat
  BY StarsArePlaces
<1>2. U \subseteq Nat /\ Len(pattern) + 1 \in U
  BY <1>1
<1>3. PICK k \in U : \A i \in U : k <= i
  <2> HIDE DEF U
  <2> QED BY <1>2, LeastNumber
<1>4. Apart(pattern, j, k)
  <2> SUFFICES ASSUME NEW i \in Stars(pattern), ~(i <= j) PROVE k <= i
    BY DEF Apart
  <2>1. i \in U
    BY <1>1
  <2> QED BY <1>3, <2>1
<1> QED BY <1>3, <1>4

\* A star takes what lies between its two cuts.
LEMMA CutAtStar ==
  ASSUME NEW S, NEW pattern \in Seq(S), NEW value \in Seq(S), NEW cut,
         IsCut(pattern, value, cut), NEW j \in Stars(pattern)
  PROVE  cut[j] \in Nat /\ cut[j - 1] \in Nat /\ cut[j - 1] <= cut[j]
<1>1. j \in 1..Len(pattern) /\ pattern[j] = "*" /\ Len(pattern) \in Nat /\ Len(value) \in Nat
  BY StarsArePlaces DEF Stars
<1>2. j \in 0..Len(pattern) /\ j - 1 \in 0..Len(pattern)
  BY <1>1
<1>3. cut \in [0..Len(pattern) -> 0..Len(value)]
  BY DEF IsCut
<1>4. cut[j] \in 0..Len(value) /\ cut[j - 1] \in 0..Len(value)
  BY <1>2, <1>3
<1>5. cut[j] \in Nat /\ cut[j - 1] \in Nat
  BY <1>1, <1>4
<1>6. cut[j - 1] <= cut[j]
  BY <1>1, Zenon DEF IsCut
<1> QED BY <1>5, <1>6

\* The parts are found wherever a pattern's meaning leaves room for them.
LEMMA CutIsFound ==
  ASSUME NEW S, NEW pattern \in Seq(S), NEW value \in Seq(S), NEW f,
         Greedy(pattern, value, f), NEW cut, IsCut(pattern, value, cut)
  PROVE  \A k \in Stars(pattern) : f[k] \in Nat /\ f[k] <= cut[k - 1]
<1>1. Stars(pattern) \subseteq 1..Len(pattern) /\ Len(pattern) \in Nat
  BY StarsArePlaces
<1> DEFINE Room(k) == f[k] \in Nat /\ f[k] <= cut[k - 1]
           T == {k \in Stars(pattern) : ~Room(k)}
<1> SUFFICES ASSUME T # {} PROVE FALSE
  OBVIOUS
<1>2. PICK k \in T : \A i \in T : k <= i
  <2>1. T \subseteq Nat
    BY <1>1
  <2> HIDE DEF T
  <2> QED BY <2>1, LeastNumber
<1>3. k \in Stars(pattern) /\ k \in Nat /\ k \in 1..Len(pattern)
  BY <1>1
<1>4. CASE Apart(pattern, 0, k)
  <2>1. f[k] = IF Same(pattern, value, 0, 0, k) THEN k - 1 ELSE NotFound
    BY <1>3, <1>4, Zenon DEF Greedy
  <2>2. 0 \in 0..Len(pattern) /\ k \in (0 + 1)..(Len(pattern) + 1)
    BY <1>1, <1>3
  <2>3. cut[k - 1] = cut[0] + (k - 1 - 0) /\ Same(pattern, value, cut[0], 0, k)
    BY <1>4, <2>2, CutRuns
  <2>4. cut[0] = 0
    BY DEF IsCut
  <2> QED BY <1>2, <1>3, <2>1, <2>3, <2>4
<1>5. CASE ~Apart(pattern, 0, k)
  <2>1. PICK j \in Stars(pattern) : j < k /\ Apart(pattern, j, k)
    BY <1>3, <1>5, StarBefore
  <2>2. j \in Nat /\ j \in 1..Len(pattern) /\ ~(k <= j)
    BY <1>1, <1>3, <2>1
  <2>3. Room(j)
    <3>1. j \notin T
      BY <1>2, <2>2
    <3> HIDE DEF Room
    <3> QED BY <3>1
  <2>4. cut[j] \in Nat /\ cut[j - 1] \in Nat /\ cut[j - 1] <= cut[j]
    BY CutAtStar
  <2>5. f[j] <= cut[j]
    BY <2>3, <2>4
  <2>6. j \in 0..Len(pattern) /\ k \in (j + 1)..(Len(pattern) + 1)
    BY <1>1, <1>3, <2>1, <2>2
  <2>7. cut[k - 1] = cut[j] + (k - 1 - j) /\ Same(pattern, value, cut[j], j, k)
    BY <2>1, <2>6, CutRuns
  <2>8. TakesNext(pattern, value, f[j], f[k], j, k)
    BY <1>3, <2>1, Zenon DEF Greedy
  <2>9. f[j] # NotFound
    BY <2>3 DEF NotFound
  <2>10. FindsAt(pattern, value, f[j], cut[j], j, k)
    BY <2>5, <2>7 DEF FindsAt
  <2>11. PICK n \in Nat : n <= cut[j] /\ f[k] = n + (k - 1 - j)
    BY <2>4, <2>8, <2>9, <2>10, Zenon DEF TakesNext
  <2> QED BY <1>2, <1>3, <2>2, <2>1, <2>4, <2>7, <2>11
<1> QED BY <1>4, <1>5

\* The places of the parts found are a cut: they end where the next star
\* begins, or with the value.
LEMMA FoundIsCut ==
  ASSUME NEW S, NEW pattern \in Seq(S), NEW value \in Seq(S), NEW f,
         Greedy(pattern, value, f), NEW last \in Stars(pattern),
         Apart(pattern, last, Len(pattern) + 1), f[last] \in Nat,
         f[last] <= Len(value) - (Len(pattern) - last),
         Same(pattern, value, Len(value) - (Len(pattern) - last), last, Len(pattern) + 1)
  PROVE  Denotes(pattern, value)
<1>1. /\ Stars(pattern) \subseteq 1..Len(pattern)
      /\ Len(pattern) \in Nat /\ Len(value) \in Nat /\ last \in Nat
  BY StarsArePlaces
<1> DEFINE P == Len(pattern)
           V == Len(value)
           E(k) == IF k = P + 1 THEN V ELSE f[k]
           Ends == Stars(pattern) \cup {P + 1}
           After(i, k) == k \in Ends /\ i < k /\ Apart(pattern, i, k)
<1>2. \A k \in Stars(pattern) : f[k] \in Nat
  <2> DEFINE T == {k \in Stars(pattern) : f[k] \notin Nat}
  <2> SUFFICES ASSUME T # {} PROVE FALSE
    OBVIOUS
  <2>1. PICK j \in T : \A i \in T : i <= j
    <3>1. T \subseteq 1..P
      BY <1>1
    <3> HIDE DEF T
    <3> QED BY <1>1, <3>1, LastPlace
  <2>2. j # last /\ j \in 1..P /\ j \in 0..P /\ j \in Stars(pattern)
    BY <1>1, <2>1
  <2>3. PICK k \in Ends : j < k /\ Apart(pattern, j, k)
    BY <2>2, StarAfter
  <2>4. last <= j \/ k <= last
    BY <2>3 DEF Apart
  <2>5. k # P + 1
    <3>1. ~(j <= last) \/ ~(P + 1 <= j)
      BY <1>1, <2>2
    <3>2. j <= last
      BY <1>1, <2>2 DEF Apart
    <3> QED BY <1>1, <2>2, <2>4, <3>2
  <2>6. k \in Stars(pattern) /\ k \in Nat /\ j \in Nat
    BY <1>1, <2>2, <2>5
  <2>7. k \notin T
    BY <2>1, <2>3, <2>6
  <2>8. f[k] \in Nat /\ f[k] # NotFound
    BY <2>6, <2>7 DEF NotFound
  <2>9. TakesNext(pattern, value, f[j], f[k], j, k)
    BY <2>2, <2>3, <2>6, Zenon DEF Greedy
  <2>10. f[j] # NotFound
    BY <2>8, <2>9, Zenon DEF TakesNext
  <2>11. f[j] \in Nat
    BY <2>2, <2>10, Zenon DEF Greedy
  <2> QED BY <2>1, <2>11
\* What a part before an end takes.
<1>3. ASSUME NEW j \in 0..P, NEW k, After(j, k), j = 0 \/ j \in Stars(pattern)
      PROVE  /\ E(k) \in Nat /\ E(k) <= V /\ E(k) - (k - 1 - j) \in Nat
             /\ IF j = 0 THEN E(k) - (k - 1 - j) = 0 ELSE f[j] <= E(k) - (k - 1 - j)
             /\ Same(pattern, value, E(k) - (k - 1 - j), j, k)
  <2>1. k \in Nat /\ j \in Nat /\ k \in 1..(P + 1)
    BY <1>1, <1>3
  <2>2. CASE k = P + 1
    <3>1. j = last
      <4>1. last <= j
        BY <1>1, <1>3, <2>2, <2>1 DEF Apart
      <4>2. j <= last
        BY <1>1, <1>3, <4>1, <2>1 DEF Apart
      <4> QED BY <1>1, <2>1, <4>1, <4>2
    <3>2. E(k) = V /\ E(k) - (k - 1 - j) = V - (P - last)
      BY <1>1, <2>2, <3>1
    <3>3. V - (P - last) \in Nat
      <4>1. f[last] <= V - (P - last) /\ f[last] \in Nat
        OBVIOUS
      <4> QED BY <1>1, <4>1
    <3>4. j # 0
      BY <1>1, <3>1
    <3> QED BY <1>1, <2>2, <3>1, <3>2, <3>3, <3>4
  <2>3. CASE k # P + 1
    <3>1. k \in Stars(pattern) /\ E(k) = f[k] /\ f[k] \in Nat /\ f[k] # NotFound
      BY <1>2, <1>3, <2>3 DEF NotFound
    <3>2. CASE j = 0
      <4>1. f[k] = k - 1 /\ Same(pattern, value, 0, 0, k)
        BY <1>3, <3>1, <3>2, Zenon DEF Greedy
      <4>2. E(k) = k - 1 /\ E(k) - (k - 1 - j) = 0
        BY <2>1, <3>1, <3>2, <4>1
      <4>3. k - 1 <= V
        <5>1. 0 + (k - 1 - 0) <= V
          BY <4>1 DEF Same
        <5> QED BY <2>1, <5>1
      <4> QED BY <3>1, <3>2, <4>1, <4>2, <4>3
    <3>3. CASE j # 0
      <4>1. j \in Stars(pattern) /\ j < k
        BY <1>3, <3>3
      <4>2. TakesNext(pattern, value, f[j], f[k], j, k)
        BY <1>3, <3>1, <4>1, Zenon DEF Greedy
      <4>3. f[j] \in Nat /\ f[j] # NotFound
        BY <1>2, <4>1 DEF NotFound
      <4>4. PICK n \in Nat : FindsAt(pattern, value, f[j], n, j, k) /\ f[k] = n + (k - 1 - j)
        BY <3>1, <4>2, <4>3, Zenon DEF TakesNext
      <4>5. f[k] - (k - 1 - j) = n
        BY <2>1, <4>4
      <4>6. f[j] <= n /\ Same(pattern, value, n, j, k)
        BY <4>4 DEF FindsAt
      <4>7. f[k] <= V
        BY <4>4, <4>6 DEF Same
      <4> QED BY <3>1, <3>3, <4>5, <4>6, <4>7
    <3> QED BY <3>2, <3>3
  <2> QED BY <2>2, <2>3
\* Every place lies between two ends.
<1>4. ASSUME NEW i \in 0..P
      PROVE  \E j \in 0..P : \E k : /\ After(j, k) /\ After(i, k) /\ j <= i
                                    /\ j = 0 \/ j \in Stars(pattern)
  <2>1. PICK k \in Ends : i < k /\ Apart(pattern, i, k)
    BY StarAfter
  <2>2. i \in Nat /\ k \in Nat
    BY <1>1
  <2>3. CASE Apart(pattern, 0, k)
    <3>1. 0 \in 0..P /\ 0 <= i /\ 0 < k
      BY <1>1, <2>1, <2>2
    <3> QED BY <2>1, <2>3, <3>1
  <2>4. CASE ~Apart(pattern, 0, k)
    <3>1. PICK j \in Stars(pattern) : j < k /\ Apart(pattern, j, k)
      BY <2>2, <2>4, StarBefore
    <3>2. j \in 0..P /\ j \in Nat /\ j <= i
      BY <1>1, <2>1, <2>2, <3>1 DEF Apart
    <3> QED BY <2>1, <3>1, <3>2
  <2> QED BY <2>3, <2>4
<1> DEFINE next(i) == CHOOSE k : After(i, k)
<1>5. ASSUME NEW i \in 0..P, NEW k, After(i, k) PROVE next(i) = k
  <2>1. After(i, next(i))
    BY <1>5, Zenon
  <2>2. PICK l : l = next(i)
    OBVIOUS
  <2>3. After(i, l)
    BY <2>1, <2>2
  <2>4. i \in Nat /\ k \in Nat /\ l \in Nat /\ k <= P + 1 /\ l <= P + 1
    BY <1>1, <1>5, <2>3
  <2>5. k <= l
    BY <1>1, <1>5, <2>3, <2>4 DEF Apart
  <2>6. l <= k
    BY <1>1, <1>5, <2>3, <2>4 DEF Apart
  <2>7. l = k
    BY <2>4, <2>5, <2>6
  <2> QED BY <2>2, <2>7
<1>6. PICK cut : cut = [i \in 0..P |-> E(next(i)) - (next(i) - 1 - i)]
  OBVIOUS
<1> HIDE DEF next
<1>7. ASSUME NEW i \in 0..P, NEW k, After(i, k) PROVE cut[i] = E(k) - (k - 1 - i)
  <2>1. next(i) = k
    BY <1>5, <1>7
  <2>2. cut[i] = E(next(i)) - (next(i) - 1 - i)
    BY <1>6
  <2> QED BY <2>1, <2>2, Zenon
<1>8. \A i \in 0..P : cut[i] \in 0..V
  <2> SUFFICES ASSUME NEW i \in 0..P PROVE cut[i] \in 0..V
    OBVIOUS
  <2>0. PICK j \in 0..P : \E k : /\ After(j, k) /\ After(i, k) /\ j <= i
                                 /\ j = 0 \/ j \in Stars(pattern)
    BY <1>4
  <2>1. PICK k : /\ After(j, k) /\ After(i, k) /\ j <= i
                 /\ j = 0 \/ j \in Stars(pattern)
    BY <2>0
  <2>2. E(k) \in Nat /\ E(k) <= V /\ E(k) - (k - 1 - j) \in Nat
    BY <1>3, <2>1
  <2>3. cut[i] = E(k) - (k - 1 - i)
    BY <1>7, <2>1
  <2>4. k \in Nat /\ i \in Nat /\ j \in Nat /\ i < k
    BY <1>1, <2>1
  <2>5. PICK e \in Nat : e = E(k)
    BY <2>2
  <2>6. e <= V /\ e - (k - 1 - j) \in Nat /\ cut[i] = e - (k - 1 - i)
    BY <2>2, <2>3, <2>5
  <2>7. k \in Nat /\ i \in Nat /\ j \in Nat /\ i < k /\ j <= i /\ V \in Nat
    BY <1>1, <2>1, <2>4
  <2> HIDE DEF E, V
  <2> QED BY <2>6, <2>7
<1>9. cut \in [0..P -> 0..V]
  <2>1. cut = [i \in 0..P |-> cut[i]]
    BY <1>6
  <2> QED BY <1>8, <2>1
<1>10. cut[0] = 0
  <2>1. 0 \in 0..P
    BY <1>1
  <2>2. PICK k \in Ends : 0 < k /\ Apart(pattern, 0, k)
    BY <2>1, StarAfter
  <2>3. After(0, k)
    BY <2>2
  <2>4. E(k) - (k - 1 - 0) = 0
    BY <1>3, <2>1, <2>3
  <2> QED BY <1>7, <2>1, <2>3, <2>4
<1>11. cut[P] = V
  <2>1. P \in 0..P /\ P + 1 \in Ends /\ P < P + 1 /\ Apart(pattern, P, P + 1)
    BY <1>1 DEF Apart
  <2>2. cut[P] = E(P + 1) - ((P + 1) - 1 - P)
    BY <1>7, <2>1
  <2>3. E(P + 1) = V
    OBVIOUS
  <2> QED BY <1>1, <2>2, <2>3
<1>12. ASSUME NEW i \in 1..P
       PROVE  IF pattern[i] = "*" THEN cut[i - 1] <= cut[i]
              ELSE cut[i] = cut[i - 1] + 1 /\ value[cut[i]] = pattern[i]
  <2>0. i \in 0..P /\ i - 1 \in 0..P /\ i \in Nat /\ i \in DOMAIN pattern
    BY <1>1
  <2>1. CASE pattern[i] = "*"
    <3>1. i \in Stars(pattern)
      BY <2>0, <2>1 DEF Stars
    <3>2. After(i - 1, i)
      BY <1>1, <2>0, <3>1 DEF Apart
    <3>3. PICK k \in Ends : i < k /\ Apart(pattern, i, k)
      BY <2>0, StarAfter
    <3>4. f[i] <= E(k) - (k - 1 - i)
      BY <1>3, <2>0, <3>1, <3>3
    <3>5. cut[i] = E(k) - (k - 1 - i)
      BY <1>7, <2>0, <3>3
    <3>6. cut[i - 1] = E(i) - (i - 1 - (i - 1))
      BY <1>7, <2>0, <3>2
    <3>7. E(i) = f[i] /\ f[i] \in Nat
      BY <1>1, <1>2, <2>0, <3>1
    <3>8. cut[i - 1] = f[i]
      <4> HIDE DEF E
      <4> QED BY <2>0, <3>6, <3>7
    <3> HIDE DEF E
    <3> QED BY <2>1, <3>4, <3>5, <3>8
  <2>2. CASE pattern[i] # "*"
    <3>0. PICK j \in 0..P : \E k : /\ After(j, k) /\ After(i, k) /\ j <= i
                                   /\ j = 0 \/ j \in Stars(pattern)
      BY <1>4, <2>0
    <3>1. PICK k : /\ After(j, k) /\ After(i, k) /\ j <= i
                   /\ j = 0 \/ j \in Stars(pattern)
      BY <3>0
    <3>2. i # j /\ i \notin Stars(pattern)
      BY <2>0, <2>2, <3>1 DEF Stars
    <3>3. k \in Nat /\ j \in Nat /\ i \in (j + 1)..(k - 1)
      BY <1>1, <2>0, <3>1, <3>2
    <3>4. After(i - 1, k)
      <4>1. Apart(pattern, i - 1, k)
        <5> SUFFICES ASSUME NEW s \in Stars(pattern) PROVE s <= i - 1 \/ k <= s
          BY DEF Apart
        <5>1. s <= i \/ k <= s
          BY <3>1 DEF Apart
        <5>2. s # i /\ s \in Nat
          BY <1>1, <3>2
        <5> QED BY <2>0, <5>1, <5>2
      <4> QED BY <2>0, <3>1, <3>3, <4>1
    <3>5. cut[i] = E(k) - (k - 1 - i) /\ cut[i - 1] = E(k) - (k - 1 - (i - 1))
      BY <1>7, <2>0, <3>1, <3>4
    <3>6. E(k) \in Nat /\ Same(pattern, value, E(k) - (k - 1 - j), j, k)
      BY <1>3, <3>1
    <3> HIDE DEF E
    <3>7. value[(E(k) - (k - 1 - j)) + (i - j)] = pattern[i]
      BY <3>3, <3>6 DEF Same
    <3>8. (E(k) - (k - 1 - j)) + (i - j) = cut[i]
      BY <2>0, <3>3, <3>5, <3>6
    <3>9. cut[i] = cut[i - 1] + 1
      BY <2>0, <3>3, <3>5, <3>6
    <3> QED BY <2>2, <3>7, <3>8, <3>9
  <2> QED BY <2>1, <2>2
<1> HIDE DEF E, After, Ends
<1> QED BY <1>9, <1>10, <1>11, <1>12, Zenon DEF Denotes

\* A pattern matches what it means: looking for each part where it is first
\* found misses no way of filling the stars.
LEMMA GlobMatchIsDenotes ==
  ASSUME NEW S, NEW pattern \in Seq(S), NEW value \in Seq(S)
  PROVE  GlobMatch(pattern, value) <=> Denotes(pattern, value)
<1>1. PICK f : f = TakenAt(pattern, value) /\ Greedy(pattern, value, f)
  BY TakenIsGreedy
<1> DEFINE P == Len(pattern)
           V == Len(value)
<1>2. Stars(pattern) \subseteq 1..P /\ P \in Nat /\ V \in Nat
  BY StarsArePlaces
<1>3. Denotes(pattern, value) <=> \E cut : IsCut(pattern, value, cut)
  BY Zenon DEF Denotes, IsCut
<1>4. CASE Stars(pattern) = {}
  <2>1. GlobMatch(pattern, value) <=> pattern = value
    BY <1>4, Zenon DEF GlobMatch
  <2>2. ASSUME NEW cut, IsCut(pattern, value, cut) PROVE pattern = value
    <3>1. 0 \in 0..P /\ P + 1 \in (0 + 1)..(P + 1) /\ Apart(pattern, 0, P + 1)
      BY <1>2, <1>4 DEF Apart
    <3>2. cut[(P + 1) - 1] = cut[0] + ((P + 1) - 1 - 0) /\ Same(pattern, value, cut[0], 0, P + 1)
      BY <2>2, <3>1, CutRuns
    <3>3. cut[0] = 0 /\ cut[P] = V
      BY <2>2 DEF IsCut
    <3>4. P = V
      BY <1>2, <3>2, <3>3
    <3>5. \A i \in 1..P : value[i] = pattern[i]
      <4> SUFFICES ASSUME NEW i \in 1..P PROVE value[i] = pattern[i]
        OBVIOUS
      <4>1. i \in (0 + 1)..((P + 1) - 1) /\ 0 + (i - 0) = i
        BY <1>2
      <4> QED BY <3>2, <3>3, <4>1 DEF Same
    <3> QED BY <3>4, <3>5, SameSequence
  <2>3. ASSUME pattern = value PROVE \E cut : IsCut(pattern, value, cut)
    <3>1. PICK cut : cut = [i \in 0..P |-> i]
      OBVIOUS
    <3>2. cut \in [0..P -> 0..V] /\ cut[0] = 0 /\ cut[P] = V
      BY <1>2, <2>3, <3>1
    <3>3. \A i \in 1..P : IF pattern[i] = "*" THEN cut[i - 1] <= cut[i]
                          ELSE cut[i] = cut[i - 1] + 1 /\ value[cut[i]] = pattern[i]
      <4> SUFFICES ASSUME NEW i \in 1..P
                   PROVE  pattern[i] # "*" /\ cut[i] = cut[i - 1] + 1 /\ value[cut[i]] = pattern[i]
        OBVIOUS
      <4>1. i \in 0..P /\ i - 1 \in 0..P /\ i \in DOMAIN pattern
        BY <1>2
      <4>2. pattern[i] # "*"
        BY <1>4, <4>1 DEF Stars
      <4>3. cut[i] = i /\ cut[i - 1] = i - 1
        BY <3>1, <4>1
      <4> QED BY <1>2, <2>3, <4>2, <4>3
    <3> QED BY <3>2, <3>3, Zenon DEF IsCut
  <2> QED BY <1>3, <2>1, <2>2, <2>3
<1>5. CASE Stars(pattern) # {}
  <2> DEFINE last == Max(Stars(pattern))
  <2>1. last \in Stars(pattern) /\ \A i \in Stars(pattern) : i <= last
    BY <1>2, <1>5, MaxPlace
  <2>2. /\ last \in 1..P /\ last \in 0..P /\ P + 1 \in (last + 1)..(P + 1)
        /\ Apart(pattern, last, P + 1)
    BY <1>2, <2>1 DEF Apart
  <2>3. GlobMatch(pattern, value)
          <=> /\ f[last] # NotFound
              /\ V - (P - last) \in Occurrences(value, f[last], SubSeq(pattern, last + 1, P))
    BY <1>1, <1>5, Zenon DEF GlobMatch
  <2> HIDE DEF last
  <2>4. f[last] = NotFound \/ f[last] \in Nat
    BY <1>1, <2>1, Zenon DEF Greedy
  <2>5. ASSUME f[last] \in Nat
        PROVE  V - (P - last) \in Occurrences(value, f[last], SubSeq(pattern, last + 1, P))
                 <=> /\ f[last] <= V - (P - last)
                     /\ Same(pattern, value, V - (P - last), last, P + 1)
    <3>1. (P + 1) - 1 = P
      BY <1>2
    <3>2. \A n : n \in Occurrences(value, f[last], SubSeq(pattern, last + 1, (P + 1) - 1))
                   <=> n \in Nat /\ f[last] <= n /\ Same(pattern, value, n, last, P + 1)
      BY <2>2, <2>5, OccurrenceIs
    <3>3. f[last] <= V - (P - last) => V - (P - last) \in Nat
      BY <1>2, <2>2, <2>5
    <3> QED BY <3>1, <3>2, <3>3
  <2>6. ASSUME GlobMatch(pattern, value) PROVE Denotes(pattern, value)
    <3>1. f[last] \in Nat
      BY <2>3, <2>4, <2>6
    <3>2. f[last] <= V - (P - last) /\ Same(pattern, value, V - (P - last), last, P + 1)
      BY <2>3, <2>5, <2>6, <3>1
    <3> QED BY <1>1, <2>1, <2>2, <3>1, <3>2, FoundIsCut
  <2>7. ASSUME NEW cut, IsCut(pattern, value, cut) PROVE GlobMatch(pattern, value)
    <3>1. f[last] \in Nat /\ f[last] <= cut[last - 1]
      BY <1>1, <2>1, <2>7, CutIsFound
    <3>2. f[last] # NotFound
      BY <3>1 DEF NotFound
    <3>3. cut[(P + 1) - 1] = cut[last] + ((P + 1) - 1 - last)
          /\ Same(pattern, value, cut[last], last, P + 1)
      BY <2>2, <2>7, CutRuns
    <3>4. cut[P] = V /\ cut[last - 1] <= cut[last]
          /\ cut[last] \in Nat /\ cut[last - 1] \in Nat
      <4>1. /\ cut[last - 1] <= cut[last]
            /\ cut[last] \in Nat /\ cut[last - 1] \in Nat
        BY <2>1, <2>7, CutAtStar
      <4>2. cut[P] = V
        BY <2>7, Zenon DEF IsCut
      <4> QED BY <4>1, <4>2
    <3>5. cut[last] = V - (P - last)
      BY <1>2, <2>2, <3>3, <3>4
    <3>6. f[last] <= V - (P - last)
      BY <3>1, <3>4, <3>5
    <3>7. Same(pattern, value, V - (P - last), last, P + 1)
      BY <3>3, <3>5
    <3> QED BY <2>3, <2>5, <3>1, <3>2, <3>6, <3>7
  <2> QED BY <1>3, <2>6, <2>7
<1> QED BY <1>4, <1>5

----------------------------------------------------------------------------
(* Claim paths *)

\* The first k of the last m parts of a path.
NameAt(path, m, k) == SubSeq(path, Len(path) - m + 1, Len(path) - m + k)

\* What lookup_claim finds at the last m parts in o, by the first k of them,
\* with f for shorter paths.
FoundBy(path, f, m, o, k) ==
  LET claim == o[NameAt(path, m, k)]
  IN  IF k = m THEN claim
      ELSE IF IsObject(claim) THEN f[m - k][claim.value]
      ELSE Nothing
LeadingIn(path, f, m, o) ==
  {k \in 1..m : NameAt(path, m, k) \in DOMAIN o /\ FoundBy(path, f, m, o, k) # Nothing}
FoundHere(path, f, m, o) ==
  IF LeadingIn(path, f, m, o) = {} THEN Nothing
  ELSE FoundBy(path, f, m, o, Max(LeadingIn(path, f, m, o)))

\* The claims that can be reached there.
ReachedBy(path, f, m, o, k) ==
  LET claim == o[NameAt(path, m, k)]
  IN  IF k = m THEN {claim}
      ELSE IF IsObject(claim) THEN f[m - k][claim.value] ELSE {}
ReachedHere(path, f, m, o) ==
  UNION {ReachedBy(path, f, m, o, k) : k \in {k \in 1..m : NameAt(path, m, k) \in DOMAIN o}}

\* f is what lookup_claim does with up to n last parts.
Looks(path, n, f) ==
  f = [m \in 0..n |-> [o \in ObjectsWithin |-> FoundHere(path, f, m, o)]]
Reaches(path, n, f) ==
  f = [m \in 0..n |-> [o \in ObjectsWithin |-> ReachedHere(path, f, m, o)]]

\* Only shorter paths matter.
LEMMA ShorterMatter ==
  ASSUME NEW path, NEW m \in Nat, NEW o, NEW f, NEW g, \A i \in 0..(m - 1) : f[i] = g[i]
  PROVE  /\ FoundHere(path, f, m, o) = FoundHere(path, g, m, o)
         /\ ReachedHere(path, f, m, o) = ReachedHere(path, g, m, o)
<1>1. ASSUME NEW k \in 1..m
      PROVE  /\ FoundBy(path, f, m, o, k) = FoundBy(path, g, m, o, k)
             /\ ReachedBy(path, f, m, o, k) = ReachedBy(path, g, m, o, k)
  <2>1. CASE k = m
    BY <2>1 DEF FoundBy, ReachedBy
  <2>2. CASE k # m
    <3>1. m - k \in 0..(m - 1)
      BY <2>2
    <3>2. f[m - k] = g[m - k]
      BY <3>1
    <3> QED BY <3>2 DEF FoundBy, ReachedBy
  <2> QED BY <2>1, <2>2
<1>2. LeadingIn(path, f, m, o) = LeadingIn(path, g, m, o)
  BY <1>1 DEF LeadingIn
<1>3. FoundHere(path, f, m, o) = FoundHere(path, g, m, o)
  <2>1. CASE LeadingIn(path, f, m, o) = {}
    BY <1>2, <2>1 DEF FoundHere
  <2>2. CASE LeadingIn(path, f, m, o) # {}
    <3>1. LeadingIn(path, f, m, o) \subseteq 1..m
      BY DEF LeadingIn
    <3>2. PICK k \in 1..m : k = Max(LeadingIn(path, f, m, o))
      BY <2>2, <3>1, MaxPlace
    <3>3. FoundBy(path, f, m, o, k) = FoundBy(path, g, m, o, k)
      BY <1>1
    <3> QED BY <1>2, <2>2, <3>2, <3>3 DEF FoundHere
  <2> QED BY <2>1, <2>2
<1>4. ReachedHere(path, f, m, o) = ReachedHere(path, g, m, o)
  BY <1>1, Zenon DEF ReachedHere
<1> QED BY <1>3, <1>4

\* There is at most one such function for lookup_claim ...
LEMMA LooksOne ==
  ASSUME NEW path, NEW n, NEW f, Looks(path, n, f), NEW m \in 0..n
  PROVE  f[m] = [o \in ObjectsWithin |-> FoundHere(path, f, m, o)]
<1> DEFINE F(i) == [o \in ObjectsWithin |-> FoundHere(path, f, i, o)]
<1>1. f = [i \in 0..n |-> F(i)]
  BY Zenon DEF Looks
<1> HIDE DEF F
<1>2. f[m] = F(m)
  BY <1>1
<1> QED BY <1>2 DEF F

\* ... and for what is reachable ...
LEMMA ReachesOne ==
  ASSUME NEW path, NEW n, NEW f, Reaches(path, n, f), NEW m \in 0..n
  PROVE  f[m] = [o \in ObjectsWithin |-> ReachedHere(path, f, m, o)]
<1> DEFINE F(i) == [o \in ObjectsWithin |-> ReachedHere(path, f, i, o)]
<1>1. f = [i \in 0..n |-> F(i)]
  BY Zenon DEF Reaches
<1> HIDE DEF F
<1>2. f[m] = F(m)
  BY <1>1
<1> QED BY <1>2 DEF F

\* ... and there is one, by induction on the parts, for lookup_claim ...
LEMMA LooksExist ==
  ASSUME NEW path
  PROVE  \A n \in Nat : \E f : Looks(path, n, f)
<1> DEFINE T == {n \in Nat : ~\E f : Looks(path, n, f)}
<1> SUFFICES ASSUME T # {} PROVE FALSE
  OBVIOUS
<1>1. PICK m \in T : \A n \in T : m <= n
  <2>1. T \subseteq Nat
    OBVIOUS
  <2> HIDE DEF T
  <2> QED BY <2>1, LeastNumber
<1>2. PICK f : m # 0 => Looks(path, m - 1, f)
  <2>1. CASE m = 0
    BY <2>1
  <2>2. CASE m # 0
    <3>1. m - 1 \in Nat /\ ~(m <= m - 1)
      BY <1>1, <2>2
    <3>2. m - 1 \notin T
      BY <1>1, <3>1
    <3> QED BY <3>1, <3>2
  <2> QED BY <2>1, <2>2
<1> DEFINE H(h, k) == [o \in ObjectsWithin |-> FoundHere(path, h, k, o)]
<1>3. PICK g : g = [k \in 0..m |-> IF k = m THEN H(f, m) ELSE f[k]]
  OBVIOUS
<1>4. m \in Nat /\ \A k \in 0..(m - 1) : g[k] = f[k]
  BY <1>1, <1>3
<1>5. \A k \in 0..m : g[k] = H(g, k)
  <2> SUFFICES ASSUME NEW k \in 0..m PROVE g[k] = H(g, k)
    OBVIOUS
  <2>1. \A o \in ObjectsWithin : FoundHere(path, g, k, o) = FoundHere(path, f, k, o)
    <3>1. k \in Nat /\ \A i \in 0..(k - 1) : g[i] = f[i]
      BY <1>4
    <3> QED BY <3>1, ShorterMatter
  <2>2. H(g, k) = H(f, k)
    BY <2>1
  <2>3. CASE k = m
    <3> HIDE DEF H
    <3> QED BY <1>3, <2>2, <2>3
  <2>4. CASE k # m
    <3>1. k \in 0..(m - 1) /\ m # 0
      BY <1>4, <2>4
    <3>2. f[k] = H(f, k)
      BY <1>2, <3>1, LooksOne
    <3> HIDE DEF H
    <3> QED BY <1>4, <2>2, <3>1, <3>2
  <2> QED BY <2>3, <2>4
<1>6. Looks(path, m, g)
  <2> DEFINE G(k) == H(g, k)
  <2>1. g = [k \in 0..m |-> g[k]] /\ \A k \in 0..m : g[k] = G(k)
    BY <1>3, <1>5
  <2> HIDE DEF G
  <2>2. g = [k \in 0..m |-> G(k)]
    BY <2>1
  <2> QED BY <2>2, Zenon DEF Looks, G
<1> QED BY <1>1, <1>6

\* ... and for what is reachable.
LEMMA ReachesExist ==
  ASSUME NEW path
  PROVE  \A n \in Nat : \E f : Reaches(path, n, f)
<1> DEFINE T == {n \in Nat : ~\E f : Reaches(path, n, f)}
<1> SUFFICES ASSUME T # {} PROVE FALSE
  OBVIOUS
<1>1. PICK m \in T : \A n \in T : m <= n
  <2>1. T \subseteq Nat
    OBVIOUS
  <2> HIDE DEF T
  <2> QED BY <2>1, LeastNumber
<1>2. PICK f : m # 0 => Reaches(path, m - 1, f)
  <2>1. CASE m = 0
    BY <2>1
  <2>2. CASE m # 0
    <3>1. m - 1 \in Nat /\ ~(m <= m - 1)
      BY <1>1, <2>2
    <3>2. m - 1 \notin T
      BY <1>1, <3>1
    <3> QED BY <3>1, <3>2
  <2> QED BY <2>1, <2>2
<1> DEFINE H(h, k) == [o \in ObjectsWithin |-> ReachedHere(path, h, k, o)]
<1>3. PICK g : g = [k \in 0..m |-> IF k = m THEN H(f, m) ELSE f[k]]
  OBVIOUS
<1>4. m \in Nat /\ \A k \in 0..(m - 1) : g[k] = f[k]
  BY <1>1, <1>3
<1>5. \A k \in 0..m : g[k] = H(g, k)
  <2> SUFFICES ASSUME NEW k \in 0..m PROVE g[k] = H(g, k)
    OBVIOUS
  <2>1. \A o \in ObjectsWithin : ReachedHere(path, g, k, o) = ReachedHere(path, f, k, o)
    <3>1. k \in Nat /\ \A i \in 0..(k - 1) : g[i] = f[i]
      BY <1>4
    <3> QED BY <3>1, ShorterMatter
  <2>2. H(g, k) = H(f, k)
    BY <2>1
  <2>3. CASE k = m
    <3> HIDE DEF H
    <3> QED BY <1>3, <2>2, <2>3
  <2>4. CASE k # m
    <3>1. k \in 0..(m - 1) /\ m # 0
      BY <1>4, <2>4
    <3>2. f[k] = H(f, k)
      BY <1>2, <3>1, ReachesOne
    <3> HIDE DEF H
    <3> QED BY <1>4, <2>2, <3>1, <3>2
  <2> QED BY <2>3, <2>4
<1>6. Reaches(path, m, g)
  <2> DEFINE G(k) == H(g, k)
  <2>1. g = [k \in 0..m |-> g[k]] /\ \A k \in 0..m : g[k] = G(k)
    BY <1>3, <1>5
  <2> HIDE DEF G
  <2>2. g = [k \in 0..m |-> G(k)]
    BY <2>1
  <2> QED BY <2>2, Zenon DEF Reaches, G
<1> QED BY <1>1, <1>6

\* So LookupClaim is what its definition says ...
LEMMA LookupClaimIs ==
  ASSUME NEW object, NEW path, Len(path) \in Nat
  PROVE  \E f : /\ Looks(path, Len(path), f)
                /\ LookupClaim(object, path)
                     = IF path = <<>> \/ Len(path) > MaxClaimPathParts THEN Nothing
                       ELSE f[Len(path)][object]
<1> DEFINE F == CHOOSE f : f = [m \in 0..Len(path) |->
                                  [o \in ObjectsWithin |-> FoundHere(path, f, m, o)]]
<1>1. LookupClaim(object, path)
        = IF path = <<>> \/ Len(path) > MaxClaimPathParts THEN Nothing
          ELSE F[Len(path)][object]
  BY Zenon DEF LookupClaim, FoundHere, LeadingIn, FoundBy, NameAt
<1>2. F = [m \in 0..Len(path) |-> [o \in ObjectsWithin |-> FoundHere(path, F, m, o)]]
  BY LooksExist, Zenon DEF Looks
<1> HIDE DEF F
<1>3. Looks(path, Len(path), F)
  BY <1>2, Zenon DEF Looks
<1> QED BY <1>1, <1>3

\* ... and so is Reachable.
LEMMA ReachableIs ==
  ASSUME NEW object, NEW path, Len(path) \in Nat
  PROVE  \E f : Reaches(path, Len(path), f) /\ Reachable(object, path) = f[Len(path)][object]
<1> DEFINE F == CHOOSE f : f = [m \in 0..Len(path) |->
                                  [o \in ObjectsWithin |-> ReachedHere(path, f, m, o)]]
<1>1. Reachable(object, path) = F[Len(path)][object]
  BY Zenon DEF Reachable, ReachedHere, ReachedBy, NameAt
<1>2. F = [m \in 0..Len(path) |-> [o \in ObjectsWithin |-> ReachedHere(path, F, m, o)]]
  BY ReachesExist, Zenon DEF Reaches
<1> HIDE DEF F
<1>3. Reaches(path, Len(path), F)
  BY <1>2, Zenon DEF Reaches
<1> QED BY <1>1, <1>3

\* What is found is what can be reached, if anything can.
Complete(found, reached) == IF reached = {} THEN found = Nothing ELSE found \in reached /\ found # Nothing

\* Both search alike: for every number of last parts, what is found is reachable.
LEMMA FoundIsReached ==
  ASSUME NEW path, NEW n \in Nat, NEW f, NEW g, Looks(path, n, f), Reaches(path, n, g)
  PROVE  \A m \in 0..n : \A o \in ObjectsWithin : Complete(f[m][o], g[m][o])
<1> DEFINE Q(m) == \A o \in ObjectsWithin : Complete(f[m][o], g[m][o])
           T == {m \in 0..n : ~Q(m)}
<1> SUFFICES ASSUME T # {} PROVE FALSE
  BY Zenon
<1>1. PICK m \in T : \A k \in T : m <= k
  <2>1. T \subseteq Nat
    OBVIOUS
  <2> HIDE DEF T
  <2> QED BY <2>1, LeastNumber
<1>2. m \in 0..n /\ m \in Nat
  OBVIOUS
<1>3. \A i \in 0..(m - 1) : Q(i)
  <2> SUFFICES ASSUME NEW i \in 0..(m - 1) PROVE Q(i)
    OBVIOUS
  <2>1. i \in 0..n /\ ~(m <= i)
    BY <1>2
  <2>2. i \notin T
    BY <1>1, <2>1
  <2> HIDE DEF Q
  <2> QED BY <2>1, <2>2
<1> SUFFICES ASSUME NEW o \in ObjectsWithin PROVE Complete(f[m][o], g[m][o])
  BY <1>1
<1>4. f[m][o] = FoundHere(path, f, m, o) /\ g[m][o] = ReachedHere(path, g, m, o)
  <2>1. f[m] = [p \in ObjectsWithin |-> FoundHere(path, f, m, p)]
    BY <1>2, LooksOne
  <2>2. g[m] = [p \in ObjectsWithin |-> ReachedHere(path, g, m, p)]
    BY <1>2, ReachesOne
  <2> QED BY <2>1, <2>2
<1> DEFINE NamedAt == {k \in 1..m : NameAt(path, m, k) \in DOMAIN o}
           B(k) == FoundBy(path, f, m, o, k)
           R(k) == ReachedBy(path, g, m, o, k)
<1>5. ASSUME NEW k \in NamedAt PROVE Complete(B(k), R(k))
  <2>1. PICK claim : claim = o[NameAt(path, m, k)]
    OBVIOUS
  <2>2. claim # Nothing /\ (IsObject(claim) => claim.value \in ObjectsWithin)
    BY <2>1, ClaimsAssumption
  <2>3. CASE k = m
    <3>1. B(k) = claim /\ R(k) = {claim}
      BY <2>1, <2>3 DEF FoundBy, ReachedBy
    <3> HIDE DEF B, R
    <3> QED BY <2>2, <3>1 DEF Complete
  <2>4. CASE k # m /\ IsObject(claim)
    <3>1. B(k) = f[m - k][claim.value] /\ R(k) = g[m - k][claim.value]
      BY <2>1, <2>4 DEF FoundBy, ReachedBy
    <3>2. m - k \in 0..(m - 1)
      BY <1>2, <2>4
    <3>3. Complete(f[m - k][claim.value], g[m - k][claim.value])
      BY <1>3, <2>2, <2>4, <3>2
    <3> HIDE DEF B, R
    <3> QED BY <3>1, <3>3
  <2>5. CASE k # m /\ ~IsObject(claim)
    <3>1. B(k) = Nothing /\ R(k) = {}
      BY <2>1, <2>5 DEF FoundBy, ReachedBy
    <3> HIDE DEF B, R
    <3> QED BY <3>1 DEF Complete
  <2> QED BY <2>3, <2>4, <2>5
<1> DEFINE leading == {k \in NamedAt : B(k) # Nothing}
<1>6. LeadingIn(path, f, m, o) = leading
  BY DEF LeadingIn
<1>7. f[m][o] = IF leading = {} THEN Nothing ELSE B(Max(leading))
  <2> HIDE DEF leading
  <2> QED BY <1>4, <1>6 DEF FoundHere
<1>8. g[m][o] = UNION {R(k) : k \in NamedAt}
  BY <1>4 DEF ReachedHere
<1>9. NamedAt \subseteq 1..m
  OBVIOUS
<1> HIDE DEF NamedAt, B, R
<1>10. CASE leading = {}
  <2>1. \A k \in NamedAt : R(k) = {}
    BY <1>5, <1>10 DEF Complete
  <2>2. g[m][o] = {}
    BY <1>8, <2>1
  <2> QED BY <1>7, <1>10, <2>2 DEF Complete
<1>11. CASE leading # {}
  <2>1. leading \subseteq 1..m
    BY <1>9
  <2>2. PICK k : k = Max(leading) /\ k \in leading
    <3> HIDE DEF leading
    <3> QED BY <1>2, <1>11, <2>1, MaxPlace
  <2>3. B(k) \in R(k) /\ B(k) # Nothing
    BY <1>5, <2>2 DEF Complete
  <2>4. B(k) \in g[m][o]
    BY <1>8, <2>2, <2>3
  <2>5. f[m][o] = B(k)
    BY <1>7, <1>11, <2>2
  <2> QED BY <2>3, <2>4, <2>5 DEF Complete
<1> QED BY <1>10, <1>11

\* A claim is found if some way to cut the path into names leads to one.
LEMMA LookupClaimComplete ==
  ASSUME NEW object \in ObjectsWithin, NEW path, Len(path) \in Nat \ {0},
         Len(path) <= MaxClaimPathParts, MaxClaimPathParts \in Nat
  PROVE  Complete(LookupClaim(object, path), Reachable(object, path))
<1>1. PICK n \in Nat : n = Len(path)
  OBVIOUS
<1>2. PICK f : /\ Looks(path, n, f)
               /\ LookupClaim(object, path)
                    = IF path = <<>> \/ n > MaxClaimPathParts THEN Nothing ELSE f[n][object]
  BY <1>1, LookupClaimIs
<1>3. PICK g : Reaches(path, n, g) /\ Reachable(object, path) = g[n][object]
  BY <1>1, ReachableIs
<1>4. path # <<>>
  OBVIOUS
<1>5. ~(n > MaxClaimPathParts)
  BY <1>1
<1>6. n \in 0..n
  BY <1>1
<1>7. Complete(f[n][object], g[n][object])
  BY <1>2, <1>3, <1>6, FoundIsReached
<1> QED BY <1>2, <1>3, <1>4, <1>5, <1>7

----------------------------------------------------------------------------
(* The exchange *)

\* An exchange, with the configuration it is answered from.
ExchangeOf(token, providers, issuers, role, stage) ==
  [token |-> token, providers |-> providers, issuers |-> issuers, role |-> role,
   stage |-> stage]

\* How far each candidate gets with a token.
ProvidersGet(token, providers, role) ==
  [k \in ExchangeCandidates(providers, role) |-> ProviderOutcome(providers[k], token, Now)]
IssuersGet(token, issuers, role) ==
  [k \in IssuerCandidates(issuers, role) |-> IssuerOutcome(issuers[k], token, role, Now)]

\* The errors an exchange answers with.
Errors == {ServerError, InvalidGrant, TemporarilyUnavailable}

\* Candidates were asked in turn, none accepted, and all that are not asked any
\* more count, unless one failed.
AskedInTurn(outcomes) ==
  /\ asking \subseteq DOMAIN outcomes
  /\ got \subseteq Range(outcomes)
  /\ "accepted" \notin got
  /\ "failed" \in got \/ \A k \in DOMAIN outcomes : k \in asking \/ outcomes[k] \in got

\* What is reported of the login providers while the issuers are asked.
ProvidersReported(all) ==
  /\ rejection \in Errors \cup {Nothing}
  /\ all \cap {"accepted", "failed"} = {} =>
       rejection = IF all = {} THEN Nothing ELSE Furthest(all)

\* What exchange answers when no candidate accepted the token.
IssuersAnswer == IF rejection # Nothing THEN rejection
                 ELSE IF Rejected # Nothing THEN Rejected ELSE InvalidGrant

\* The login providers are being asked.
AskingProviders(token, providers, role) ==
  /\ AskedInTurn(ProvidersGet(token, providers, role))
  /\ outcome = Nothing \/ (outcome = InvalidGrant /\ ~token.jwt)

\* The trusted issuers are being asked, once the login providers were.
AskingIssuers(token, providers, issuers, role) ==
  /\ AskedInTurn(IssuersGet(token, issuers, role))
  /\ ProvidersReported(Range(ProvidersGet(token, providers, role)))
  /\ outcome = Nothing \/ (asking = {} /\ outcome = IssuersAnswer)

\* A provider that verified the token answers for the user.
UserFound(token, providers, role) ==
  /\ "accepted" \in Range(ProvidersGet(token, providers, role))
  /\ \/ outcome \in {Nothing, InvalidGrant}
     \/ outcome = [user |-> TRUE, authenticatedAt |-> AuthenticatedAt(token, Now)]

\* A trusted issuer that verified the token answers for the workload.
WorkloadFound == outcome \in {Nothing, ServerError, InvalidGrant, [workload |-> TRUE]}

\* What has been done at each stage of an exchange.
Progress(token, providers, issuers, role, stage) ==
  \/ stage = "providers" /\ AskingProviders(token, providers, role)
  \/ stage = "issuers" /\ AskingIssuers(token, providers, issuers, role)
  \/ stage = "user" /\ UserFound(token, providers, role)
  \/ stage = "workload" /\ WorkloadFound

\* What is presented, and what came of it.
NotPresented == /\ presented = Nothing /\ asking = {} /\ got = {}
                /\ rejection = Nothing /\ outcome = Nothing
TextPresented == \E pattern \in Patterns, text \in Texts :
                   /\ presented = [pattern |-> pattern, text |-> text]
                   /\ outcome = [matches |-> GlobMatch(pattern, text)]
ClaimPresented == \E object \in ClaimObjects, path \in Paths :
                    /\ presented = [object |-> object, path |-> path]
                    /\ outcome = LookupClaim(object, path)
RequestPresented == \E request : presented = [request |-> request]
ExchangePresented ==
  \E token \in Tokens, providers \in Providers, issuers \in Issuers,
     role \in {"any", "ci"}, stage \in {"providers", "issuers", "user", "workload"} :
    /\ presented = ExchangeOf(token, providers, issuers, role, stage)
    /\ Progress(token, providers, issuers, role, stage)

\* The inductive invariant.
TokenInv == \/ NotPresented \/ TextPresented \/ ClaimPresented
            \/ RequestPresented \/ ExchangePresented

\* Errors differ from each other, and from no answer.
LEMMA AnswersDiffer ==
  /\ InvalidGrant # Nothing /\ ServerError # Nothing /\ TemporarilyUnavailable # Nothing
  /\ InvalidRequest # Nothing
  /\ \A code : Error(code) # Nothing /\ DOMAIN Error(code) = {"error"}
  /\ StatusOf(InvalidGrant) = 400 /\ StatusOf(TemporarilyUnavailable) = 503
  /\ StatusOf(ServerError) = 500
<1>1. \A code : DOMAIN Error(code) = {"error"} /\ Error(code).error = code
  BY DEF Error
<1>2. DOMAIN Nothing = {"nothing"}
  BY DEF Nothing
<1>3. \A code : Error(code) # Nothing
  BY <1>1, <1>2
<1>4. /\ InvalidGrant # TemporarilyUnavailable /\ InvalidGrant # ServerError
      /\ ServerError # TemporarilyUnavailable
  BY <1>1 DEF InvalidGrant, TemporarilyUnavailable, ServerError
<1>5. /\ StatusOf(InvalidGrant) = 400 /\ StatusOf(TemporarilyUnavailable) = 503
      /\ StatusOf(ServerError) = 500
  <2>1. \A e \in Errors : "error" \in DOMAIN e
    BY <1>1 DEF Errors, InvalidGrant, TemporarilyUnavailable, ServerError
  <2> QED BY <1>4, <2>1 DEF StatusOf, Errors
<1> QED BY <1>1, <1>3, <1>5 DEF InvalidGrant, TemporarilyUnavailable, ServerError, InvalidRequest

\* What is presented says what it is.
LEMMA StagesDiffer ==
  /\ "stage" \notin DOMAIN Nothing /\ "pattern" \notin DOMAIN Nothing
  /\ \A p, t : DOMAIN [pattern |-> p, text |-> t] = {"pattern", "text"}
  /\ \A o, p : DOMAIN [object |-> o, path |-> p] = {"object", "path"}
  /\ \A r : DOMAIN [request |-> r] = {"request"}
  /\ \A t, p, i, r, s : /\ DOMAIN ExchangeOf(t, p, i, r, s)
                             = {"token", "providers", "issuers", "role", "stage"}
                        /\ ExchangeOf(t, p, i, r, s) # Nothing
  /\ \A p, t : [pattern |-> p, text |-> t] # Nothing
  /\ \A o, p : [object |-> o, path |-> p] # Nothing
  /\ \A r : [request |-> r] # Nothing
<1>1. DOMAIN Nothing = {"nothing"}
  BY DEF Nothing
<1>2. /\ \A p, t : DOMAIN [pattern |-> p, text |-> t] = {"pattern", "text"}
      /\ \A o, p : DOMAIN [object |-> o, path |-> p] = {"object", "path"}
      /\ \A r : DOMAIN [request |-> r] = {"request"}
      /\ \A t, p, i, r, s : DOMAIN ExchangeOf(t, p, i, r, s)
                              = {"token", "providers", "issuers", "role", "stage"}
  BY DEF ExchangeOf
<1>3. /\ {"pattern", "text"} # {"nothing"} /\ {"object", "path"} # {"nothing"}
      /\ {"request"} # {"nothing"}
      /\ {"token", "providers", "issuers", "role", "stage"} # {"nothing"}
  OBVIOUS
<1>4. /\ \A p, t : [pattern |-> p, text |-> t] # Nothing
      /\ \A o, p : [object |-> o, path |-> p] # Nothing
      /\ \A r : [request |-> r] # Nothing
      /\ \A t, p, i, r, s : ExchangeOf(t, p, i, r, s) # Nothing
  <2>1. \A v : v = Nothing => DOMAIN v = {"nothing"}
    BY <1>1
  <2>2. \A p, t : [pattern |-> p, text |-> t] # Nothing
    BY <1>2, <1>3, <2>1
  <2>3. \A o, p : [object |-> o, path |-> p] # Nothing
    BY <1>2, <1>3, <2>1
  <2>4. \A r : [request |-> r] # Nothing
    BY <1>2, <1>3, <2>1
  <2>5. \A t, p, i, r, s : ExchangeOf(t, p, i, r, s) # Nothing
    BY <1>2, <1>3, <2>1
  <2> QED BY <2>2, <2>3, <2>4, <2>5
<1> QED BY <1>1, <1>2, <1>4

\* Only an exchange has a stage.
LEMMA WhoExchanges ==
  ASSUME TokenInv, presented # Nothing, "stage" \in DOMAIN presented
  PROVE  ExchangePresented
BY StagesDiffer DEF TokenInv, NotPresented, TextPresented, ClaimPresented, RequestPresented

\* Candidates are places of their lists.
LEMMA CandidatesArePlaces ==
  ASSUME NEW token \in Tokens, NEW providers \in Providers, NEW issuers \in Issuers, NEW role
  PROVE  /\ DOMAIN ProvidersGet(token, providers, role) \subseteq DOMAIN providers
         /\ DOMAIN providers = 1..Len(providers) /\ Len(providers) \in Nat
         /\ DOMAIN IssuersGet(token, issuers, role) \subseteq DOMAIN issuers
         /\ DOMAIN issuers = 1..Len(issuers) /\ Len(issuers) \in Nat
<1>1. providers \in Seq(Range(providers)) /\ issuers \in Seq(Range(issuers))
  BY TokensAssumption
<1>2. DOMAIN providers = 1..Len(providers) /\ DOMAIN issuers = 1..Len(issuers)
      /\ Len(providers) \in Nat /\ Len(issuers) \in Nat
  BY <1>1
<1>3. DOMAIN ProvidersGet(token, providers, role) \subseteq DOMAIN providers
      /\ DOMAIN IssuersGet(token, issuers, role) \subseteq DOMAIN issuers
  BY DEF ProvidersGet, IssuersGet, ExchangeCandidates, IssuerCandidates
<1> QED BY <1>2, <1>3

\* The next candidate is asked.
LEMMA AskedNext ==
  ASSUME NEW n \in Nat, NEW outcomes, DOMAIN outcomes \subseteq 1..n,
         AskedInTurn(outcomes), asking # {},
         got' = got \cup {outcomes[Min(asking)]},
         asking' = IF outcomes[Min(asking)] \in {"accepted", "failed"} THEN {}
                   ELSE asking \ {Min(asking)}
  PROVE  /\ Min(asking) \in DOMAIN outcomes
         /\ outcomes[Min(asking)] # "accepted" => AskedInTurn(outcomes)'
<1>1. asking \subseteq Nat
  BY DEF AskedInTurn
<1>2. PICK k : k = Min(asking) /\ k \in asking /\ k \in DOMAIN outcomes
  BY <1>1, MinNumber DEF AskedInTurn
<1>3. outcomes[k] \in Range(outcomes)
  BY <1>2 DEF Range
<1>4. ASSUME outcomes[k] # "accepted" PROVE AskedInTurn(outcomes)'
  <2>1. asking' \subseteq DOMAIN outcomes /\ got' \subseteq Range(outcomes)
    BY <1>2, <1>3 DEF AskedInTurn
  <2>2. "accepted" \notin got'
    BY <1>2, <1>4 DEF AskedInTurn
  <2>3. "failed" \in got' \/ \A i \in DOMAIN outcomes : i \in asking' \/ outcomes[i] \in got'
    BY <1>2, <1>4 DEF AskedInTurn
  <2> QED BY <2>1, <2>2, <2>3 DEF AskedInTurn
<1> QED BY <1>2, <1>4

\* When all were asked, what was got is what all get, unless one failed.
LEMMA AllAsked ==
  ASSUME NEW outcomes, AskedInTurn(outcomes), asking = {},
         Range(outcomes) \cap {"accepted", "failed"} = {}
  PROVE  got = Range(outcomes)
BY DEF AskedInTurn, Range

\* An exchange in progress, with what it was presented with.
LEMMA ExchangeIs ==
  ASSUME TokenInv, NEW stage, Exchanging(stage)
  PROVE  \E token \in Tokens, providers \in Providers, issuers \in Issuers, role \in {"any", "ci"} :
           /\ presented = ExchangeOf(token, providers, issuers, role, stage)
           /\ Progress(token, providers, issuers, role, stage)
           /\ outcome = Nothing
<1>1. ExchangePresented
  BY WhoExchanges DEF Exchanging
<1>2. PICK token \in Tokens, providers \in Providers, issuers \in Issuers,
           role \in {"any", "ci"}, s \in {"providers", "issuers", "user", "workload"} :
        /\ presented = ExchangeOf(token, providers, issuers, role, s)
        /\ Progress(token, providers, issuers, role, s)
  BY <1>1, Zenon DEF ExchangePresented
<1>3. presented.stage = s
  BY <1>2 DEF ExchangeOf
<1>4. s = stage
  BY <1>3 DEF Exchanging
<1> QED BY <1>2, <1>4 DEF Exchanging

\* An exchange begins.
LEMMA BeginKeepsTokens ==
  ASSUME TokenInv, presented = Nothing,
         NEW token \in Tokens, NEW role \in {"any", "ci"},
         NEW providers \in Providers, NEW issuers \in Issuers,
         BeginExchange(token, providers, issuers, role)
  PROVE  ExchangePresented'
<1>1. NotPresented
  BY StagesDiffer DEF TokenInv, TextPresented, ClaimPresented, RequestPresented, ExchangePresented
<1>2. presented' = ExchangeOf(token, providers, issuers, role, "providers")
  BY DEF BeginExchange, ExchangeOf
<1>3. asking' = DOMAIN ProvidersGet(token, providers, role) /\ got' = {}
  BY <1>1 DEF BeginExchange, ProvidersGet, NotPresented
<1>4. AskedInTurn(ProvidersGet(token, providers, role))'
  BY <1>3 DEF AskedInTurn
<1>5. outcome' = Nothing \/ (outcome' = InvalidGrant /\ ~token.jwt)
  BY DEF BeginExchange
<1>6. AskingProviders(token, providers, role)'
  BY <1>4, <1>5 DEF AskingProviders
<1>7. Progress(token, providers, issuers, role, "providers")'
  BY <1>6 DEF Progress
<1> QED BY <1>2, <1>7, Zenon DEF ExchangePresented

\* A candidate is asked.
LEMMA AskKeepsTokens ==
  ASSUME TokenInv, Ask
  PROVE  ExchangePresented'
<1>1. CASE Exchanging("providers")
  <2>1. PICK token \in Tokens, providers \in Providers, issuers \in Issuers, role \in {"any", "ci"} :
          /\ presented = ExchangeOf(token, providers, issuers, role, "providers")
          /\ Progress(token, providers, issuers, role, "providers")
          /\ outcome = Nothing
    BY <1>1, ExchangeIs
  <2>2. PICK outcomes : outcomes = ProvidersGet(token, providers, role)
    OBVIOUS
  <2>3. PICK next : next = Min(asking)
    OBVIOUS
  <2>4. AskedInTurn(outcomes)
    BY <2>1, <2>2 DEF Progress, AskingProviders
  <2>5. PICK n \in Nat : DOMAIN outcomes \subseteq 1..n
    BY <2>2, CandidatesArePlaces
  <2>6. asking # {} /\ asking \subseteq Nat
    BY <2>4, <2>5 DEF Ask, AskedInTurn
  <2>7. next \in DOMAIN outcomes
    BY <2>3, <2>4, <2>6, MinNumber DEF AskedInTurn
  <2>8. outcomes[next] = ProviderOutcome(providers[next], token, Now)
    BY <2>2, <2>7 DEF ProvidersGet
  <2>9. /\ presented.stage = "providers" /\ presented.providers = providers
        /\ presented.token = token
    BY <2>1 DEF ExchangeOf
  <2>10. /\ got' = got \cup {outcomes[next]}
         /\ asking' = IF outcomes[next] \in {"accepted", "failed"} THEN {} ELSE asking \ {next}
         /\ presented' = IF outcomes[next] = "accepted" THEN [presented EXCEPT !.stage = "user"]
                         ELSE presented
         /\ rejection' = rejection /\ outcome' = outcome
    BY <2>3, <2>8, <2>9 DEF Ask
  <2>11. CASE outcomes[next] = "accepted"
    <3>1. presented' = ExchangeOf(token, providers, issuers, role, "user")
      BY <2>1, <2>10, <2>11 DEF ExchangeOf
    <3>2. "accepted" \in Range(outcomes)
      BY <2>7, <2>11 DEF Range
    <3>3. UserFound(token, providers, role)'
      BY <2>1, <2>2, <2>10, <3>2 DEF UserFound
    <3>4. Progress(token, providers, issuers, role, "user")'
      BY <3>3 DEF Progress
    <3> QED BY <3>1, <3>4, Zenon DEF ExchangePresented
  <2>12. CASE outcomes[next] # "accepted"
    <3>1. AskedInTurn(outcomes)'
      BY <2>3, <2>4, <2>5, <2>6, <2>10, <2>12, AskedNext
    <3>2. AskingProviders(token, providers, role)'
      BY <2>1, <2>2, <2>10, <3>1 DEF AskingProviders
    <3>3. Progress(token, providers, issuers, role, "providers")'
      BY <3>2 DEF Progress
    <3>4. presented' = ExchangeOf(token, providers, issuers, role, "providers")
      BY <2>1, <2>10, <2>12
    <3> QED BY <3>3, <3>4, Zenon DEF ExchangePresented
  <2> QED BY <2>11, <2>12
<1>2. CASE Exchanging("issuers")
  <2>1. PICK token \in Tokens, providers \in Providers, issuers \in Issuers, role \in {"any", "ci"} :
          /\ presented = ExchangeOf(token, providers, issuers, role, "issuers")
          /\ Progress(token, providers, issuers, role, "issuers")
          /\ outcome = Nothing
    BY <1>2, ExchangeIs
  <2>2. PICK outcomes : outcomes = IssuersGet(token, issuers, role)
    OBVIOUS
  <2>3. PICK next : next = Min(asking)
    OBVIOUS
  <2>4. AskedInTurn(outcomes) /\ ProvidersReported(Range(ProvidersGet(token, providers, role)))
    BY <2>1, <2>2 DEF Progress, AskingIssuers
  <2>5. PICK n \in Nat : DOMAIN outcomes \subseteq 1..n
    BY <2>2, CandidatesArePlaces
  <2>6. asking # {} /\ asking \subseteq Nat
    BY <2>4, <2>5 DEF Ask, AskedInTurn
  <2>7. next \in DOMAIN outcomes
    BY <2>3, <2>4, <2>6, MinNumber DEF AskedInTurn
  <2>8. outcomes[next] = IssuerOutcome(issuers[next], token, role, Now)
    BY <2>2, <2>7 DEF IssuersGet
  <2>9. /\ presented.stage = "issuers" /\ presented.issuers = issuers
        /\ presented.token = token /\ presented.role = role
    BY <2>1 DEF ExchangeOf
  <2>10. /\ got' = got \cup {outcomes[next]}
         /\ asking' = IF outcomes[next] \in {"accepted", "failed"} THEN {} ELSE asking \ {next}
         /\ presented' = IF outcomes[next] = "accepted"
                         THEN [presented EXCEPT !.stage = "workload"] ELSE presented
         /\ rejection' = rejection /\ outcome' = outcome
    BY <2>3, <2>8, <2>9 DEF Ask
  <2>11. CASE outcomes[next] = "accepted"
    <3>1. presented' = ExchangeOf(token, providers, issuers, role, "workload")
      BY <2>1, <2>10, <2>11 DEF ExchangeOf
    <3>2. WorkloadFound'
      BY <2>1, <2>10 DEF WorkloadFound
    <3>3. Progress(token, providers, issuers, role, "workload")'
      BY <3>2 DEF Progress
    <3> QED BY <3>1, <3>3, Zenon DEF ExchangePresented
  <2>12. CASE outcomes[next] # "accepted"
    <3>1. AskedInTurn(outcomes)'
      BY <2>3, <2>4, <2>5, <2>6, <2>10, <2>12, AskedNext
    <3>2. ProvidersReported(Range(ProvidersGet(token, providers, role)))'
      BY <2>4, <2>10 DEF ProvidersReported
    <3>3. AskingIssuers(token, providers, issuers, role)'
      BY <2>1, <2>2, <2>10, <3>1, <3>2 DEF AskingIssuers
    <3>4. Progress(token, providers, issuers, role, "issuers")'
      BY <3>3 DEF Progress
    <3>5. presented' = ExchangeOf(token, providers, issuers, role, "issuers")
      BY <2>1, <2>10, <2>12
    <3> QED BY <3>4, <3>5, Zenon DEF ExchangePresented
  <2> QED BY <2>11, <2>12
<1> QED BY <1>1, <1>2 DEF Ask

\* No login provider accepted the token.
LEMMA ProvidersDoneKeepsTokens ==
  ASSUME TokenInv, ProvidersDone
  PROVE  ExchangePresented'
<1>1. PICK token \in Tokens, providers \in Providers, issuers \in Issuers, role \in {"any", "ci"} :
        /\ presented = ExchangeOf(token, providers, issuers, role, "providers")
        /\ Progress(token, providers, issuers, role, "providers")
        /\ outcome = Nothing
  BY ExchangeIs DEF ProvidersDone
<1>2. PICK outcomes : outcomes = ProvidersGet(token, providers, role)
  OBVIOUS
<1>3. AskedInTurn(outcomes) /\ asking = {}
  BY <1>1, <1>2 DEF Progress, AskingProviders, ProvidersDone
<1>4. presented.issuers = issuers /\ presented.role = role
  BY <1>1 DEF ExchangeOf
<1>5. /\ asking' = DOMAIN IssuersGet(token, issuers, role) /\ got' = {}
      /\ rejection' = Rejected /\ outcome' = Nothing
  BY <1>1, <1>4 DEF ProvidersDone, IssuersGet
<1>6. presented' = ExchangeOf(token, providers, issuers, role, "issuers")
  BY <1>1 DEF ProvidersDone, ExchangeOf
<1>7. AskedInTurn(IssuersGet(token, issuers, role))'
  BY <1>5 DEF AskedInTurn
<1>8. ProvidersReported(Range(outcomes))'
  <2>1. Rejected \in Errors \cup {Nothing}
    BY DEF Rejected, Furthest, Errors
  <2>2. ASSUME Range(outcomes) \cap {"accepted", "failed"} = {}
        PROVE  Rejected = IF Range(outcomes) = {} THEN Nothing ELSE Furthest(Range(outcomes))
    <3>1. got = Range(outcomes)
      BY <1>3, <2>2, AllAsked
    <3>2. "failed" \notin got
      BY <2>2, <3>1
    <3> QED BY <3>1, <3>2 DEF Rejected
  <2> QED BY <1>5, <2>1, <2>2 DEF ProvidersReported
<1>9. AskingIssuers(token, providers, issuers, role)'
  BY <1>2, <1>5, <1>7, <1>8 DEF AskingIssuers
<1>10. Progress(token, providers, issuers, role, "issuers")'
  BY <1>9 DEF Progress
<1> QED BY <1>6, <1>10, Zenon DEF ExchangePresented

\* No trusted issuer accepted it either.
LEMMA IssuersDoneKeepsTokens ==
  ASSUME TokenInv, IssuersDone
  PROVE  ExchangePresented'
<1>1. PICK token \in Tokens, providers \in Providers, issuers \in Issuers, role \in {"any", "ci"} :
        /\ presented = ExchangeOf(token, providers, issuers, role, "issuers")
        /\ Progress(token, providers, issuers, role, "issuers")
        /\ outcome = Nothing
  BY ExchangeIs DEF IssuersDone
<1>2. AskingIssuers(token, providers, issuers, role)
  BY <1>1 DEF Progress
<1>3. UNCHANGED <<presented, asking, got, rejection>> /\ asking = {}
  BY DEF IssuersDone
<1>4. IssuersAnswer' = IssuersAnswer
  BY <1>3 DEF IssuersAnswer, Rejected
<1>5. outcome' = IssuersAnswer
  BY DEF IssuersDone, IssuersAnswer
<1>6. AskingIssuers(token, providers, issuers, role)'
  BY <1>2, <1>3, <1>4, <1>5 DEF AskingIssuers, AskedInTurn, ProvidersReported
<1>7. Progress(token, providers, issuers, role, "issuers")'
  BY <1>6 DEF Progress
<1>8. presented' = ExchangeOf(token, providers, issuers, role, "issuers")
  BY <1>1, <1>3
<1> QED BY <1>7, <1>8, Zenon DEF ExchangePresented

\* The candidate that accepted it answers.
LEMMA CompleteKeepsTokens ==
  ASSUME TokenInv, NEW user, CompleteExchange(user) \/ CompleteWorkload(user)
  PROVE  ExchangePresented'
<1>1. CASE CompleteExchange(user)
  <2>1. PICK token \in Tokens, providers \in Providers, issuers \in Issuers, role \in {"any", "ci"} :
          /\ presented = ExchangeOf(token, providers, issuers, role, "user")
          /\ Progress(token, providers, issuers, role, "user")
          /\ outcome = Nothing
    BY <1>1, ExchangeIs DEF CompleteExchange
  <2>2. presented.token = token
    BY <2>1 DEF ExchangeOf
  <2>3. UserFound(token, providers, role)
    BY <2>1 DEF Progress
  <2>4. presented' = presented
        /\ \/ outcome' = InvalidGrant
           \/ outcome' = [user |-> TRUE, authenticatedAt |-> AuthenticatedAt(token, Now)]
    BY <1>1, <2>2 DEF CompleteExchange
  <2>5. UserFound(token, providers, role)'
    BY <2>3, <2>4 DEF UserFound
  <2>6. Progress(token, providers, issuers, role, "user")'
    BY <2>5 DEF Progress
  <2>7. presented' = ExchangeOf(token, providers, issuers, role, "user")
    BY <2>1, <2>4
  <2> QED BY <2>6, <2>7, Zenon DEF ExchangePresented
<1>2. CASE CompleteWorkload(user)
  <2>1. PICK token \in Tokens, providers \in Providers, issuers \in Issuers, role \in {"any", "ci"} :
          /\ presented = ExchangeOf(token, providers, issuers, role, "workload")
          /\ Progress(token, providers, issuers, role, "workload")
          /\ outcome = Nothing
    BY <1>2, ExchangeIs DEF CompleteWorkload
  <2>2. presented' = presented /\ WorkloadFound'
    BY <1>2 DEF CompleteWorkload, WorkloadFound
  <2>3. Progress(token, providers, issuers, role, "workload")'
    BY <2>2 DEF Progress
  <2>4. presented' = ExchangeOf(token, providers, issuers, role, "workload")
    BY <2>1, <2>2
  <2> QED BY <2>3, <2>4, Zenon DEF ExchangePresented
<1> QED BY <1>1, <1>2

\* A step of nobody.
LEMMA TokensStay ==
  ASSUME TokenInv, UNCHANGED tokenVars
  PROVE  TokenInv'
<1>1. /\ presented' = presented /\ asking' = asking /\ got' = got
      /\ rejection' = rejection /\ outcome' = outcome
  BY DEF tokenVars
<1>2. \A token, providers, issuers, role, stage :
        Progress(token, providers, issuers, role, stage)'
          <=> Progress(token, providers, issuers, role, stage)
  BY <1>1 DEF Progress, AskingProviders, AskingIssuers, UserFound, WorkloadFound,
     AskedInTurn, ProvidersReported, IssuersAnswer, Rejected
<1>3. ExchangePresented => ExchangePresented'
  <2> SUFFICES ASSUME ExchangePresented PROVE ExchangePresented'
    OBVIOUS
  <2>1. PICK token \in Tokens, providers \in Providers, issuers \in Issuers,
             role \in {"any", "ci"}, s \in {"providers", "issuers", "user", "workload"} :
          /\ presented = ExchangeOf(token, providers, issuers, role, s)
          /\ Progress(token, providers, issuers, role, s)
    BY Zenon DEF ExchangePresented
  <2>2. /\ presented' = ExchangeOf(token, providers, issuers, role, s)
        /\ Progress(token, providers, issuers, role, s)'
    BY <1>1, <1>2, <2>1
  <2> QED BY <2>2, Zenon DEF ExchangePresented
<1>4. NotPresented => NotPresented'
  BY <1>1 DEF NotPresented
<1>5. TextPresented => TextPresented'
  BY <1>1, Zenon DEF TextPresented
<1>6. ClaimPresented => ClaimPresented'
  BY <1>1, Zenon DEF ClaimPresented
<1>7. RequestPresented => RequestPresented'
  BY <1>1 DEF RequestPresented
<1> QED BY <1>3, <1>4, <1>5, <1>6, <1>7 DEF TokenInv

\* Every step keeps the invariant ...
LEMMA TokenNextKeeps ==
  ASSUME TokenInv, TokenNext
  PROVE  TokenInv'
<1>1. CASE presented = Nothing /\ \E pattern \in Patterns, text \in Texts : MatchText(pattern, text)
  <2>1. PICK pattern \in Patterns, text \in Texts : MatchText(pattern, text)
    BY <1>1
  <2>2. TextPresented'
    BY <2>1, Zenon DEF MatchText, TextPresented
  <2> QED BY <2>2 DEF TokenInv
<1>2. CASE presented = Nothing /\ \E object \in ClaimObjects, path \in Paths : FindClaim(object, path)
  <2>1. PICK object \in ClaimObjects, path \in Paths : FindClaim(object, path)
    BY <1>2
  <2>2. ClaimPresented'
    BY <2>1, Zenon DEF FindClaim, ClaimPresented
  <2> QED BY <2>2 DEF TokenInv
<1>3. CASE presented = Nothing /\ \E request \in AllBut(GoodRequest) : RefuseRequest(request)
  <2>1. PICK request : RefuseRequest(request)
    BY <1>3
  <2>2. RequestPresented'
    BY <2>1, Zenon DEF RefuseRequest, RequestPresented
  <2> QED BY <2>2 DEF TokenInv
<1>4. CASE /\ presented = Nothing
           /\ \E token \in Tokens, role \in {"any", "ci"} :
                \E providers \in Providers, issuers \in Issuers :
                  BeginExchange(token, providers, issuers, role)
  BY <1>4, BeginKeepsTokens DEF TokenInv
<1>5. CASE Ask
  BY <1>5, AskKeepsTokens DEF TokenInv
<1>6. CASE ProvidersDone
  BY <1>6, ProvidersDoneKeepsTokens DEF TokenInv
<1>7. CASE IssuersDone
  BY <1>7, IssuersDoneKeepsTokens DEF TokenInv
<1>8. CASE \E user \in AllBut(GoodUser) : CompleteExchange(user) \/ CompleteWorkload(user)
  BY <1>8, CompleteKeepsTokens DEF TokenInv
<1> QED BY <1>1, <1>2, <1>3, <1>4, <1>5, <1>6, <1>7, <1>8, Zenon DEF TokenNext

\* ... so it always holds.
LEMMA TokenInvHolds ==
  TokenSpec => []TokenInv
<1>1. TokenInit => TokenInv
  BY DEF TokenInit, TokenInv, NotPresented
<1>2. TokenInv /\ [TokenNext]_tokenVars => TokenInv'
  BY TokenNextKeeps, TokensStay
<1> QED BY <1>1, <1>2, PTL DEF TokenSpec

\* A text that is a sequence with another one.
LEMMA BothTexts ==
  ASSUME NEW s, s \in Seq(Range(s)), NEW t, t \in Seq(Range(t))
  PROVE  \E S : s \in Seq(S) /\ t \in Seq(S)
<1> DEFINE S == Range(s) \cup Range(t)
<1>1. s \in Seq(S) /\ t \in Seq(S)
  <2>1. Range(s) \subseteq S /\ Range(t) \subseteq S
    OBVIOUS
  <2>2. PICK A, B : A = Range(s) /\ B = Range(t)
    OBVIOUS
  <2>3. s \in Seq(A) /\ t \in Seq(B) /\ A \subseteq S /\ B \subseteq S
    BY <2>1, <2>2
  <2> HIDE DEF S
  <2>4. \A i \in 1..Len(s) : s[i] \in S
    BY <2>3
  <2>5. \A i \in 1..Len(t) : t[i] \in S
    BY <2>3
  <2>6. s \in [1..Len(s) -> S] /\ Len(s) \in Nat /\ t \in [1..Len(t) -> S] /\ Len(t) \in Nat
    BY <2>3, <2>4, <2>5
  <2> QED BY <2>6
<1> QED BY <1>1

\* The invariant says that conditions mean their patterns and paths ...
LEMMA TokenInvConditions ==
  ASSUME TokenInv
  PROVE  ConditionsMeanPatterns
<1>1. GlobMeansPattern
  <2> SUFFICES ASSUME presented # Nothing, "pattern" \in DOMAIN presented
               PROVE  outcome.matches = Denotes(presented.pattern, presented.text)
    BY DEF GlobMeansPattern
  <2>1. TextPresented
    BY StagesDiffer DEF TokenInv, NotPresented, ClaimPresented, RequestPresented,
       ExchangePresented
  <2>2. PICK pattern \in Patterns, text \in Texts :
          /\ presented = [pattern |-> pattern, text |-> text]
          /\ outcome = [matches |-> GlobMatch(pattern, text)]
    BY <2>1 DEF TextPresented
  <2>3. pattern \in Seq(Range(pattern)) /\ text \in Seq(Range(text))
    BY TokensAssumption
  <2>4. PICK S : pattern \in Seq(S) /\ text \in Seq(S)
    BY <2>3, BothTexts
  <2>5. GlobMatch(pattern, text) <=> Denotes(pattern, text)
    BY <2>4, GlobMatchIsDenotes
  <2>6. GlobMatch(pattern, text) \in BOOLEAN /\ Denotes(pattern, text) \in BOOLEAN
    BY Zenon DEF GlobMatch, Denotes
  <2>7. GlobMatch(pattern, text) = Denotes(pattern, text)
    BY <2>5, <2>6
  <2>8. outcome.matches = GlobMatch(pattern, text)
    BY <2>2
  <2>9. presented.pattern = pattern /\ presented.text = text
    BY <2>2
  <2> QED BY <2>7, <2>8, <2>9, Zenon
<1>2. LookupIsComplete
  <2> SUFFICES ASSUME presented # Nothing, "object" \in DOMAIN presented
               PROVE  LET reachable == IF Len(presented.path) \in 1..MaxClaimPathParts
                                       THEN Reachable(presented.object, presented.path) ELSE {}
                      IN  IF reachable = {} THEN outcome = Nothing ELSE outcome \in reachable
    BY Zenon DEF LookupIsComplete
  <2>0. "object" \notin DOMAIN Nothing
    BY DEF Nothing
  <2>1. ClaimPresented
    BY <2>0, StagesDiffer DEF TokenInv, NotPresented, TextPresented, RequestPresented,
       ExchangePresented
  <2>2. PICK object \in ClaimObjects, path \in Paths :
          /\ presented = [object |-> object, path |-> path]
          /\ outcome = LookupClaim(object, path)
    BY <2>1 DEF ClaimPresented
  <2>3. presented.object = object /\ presented.path = path
    BY <2>2
  <2>4. path \in Seq(Range(path)) /\ MaxClaimPathParts \in Nat /\ object \in ObjectsWithin
    BY TokensAssumption, ClaimsAssumption
  <2>5. PICK n \in Nat : n = Len(path)
    BY <2>4
  <2>6. CASE n \in 1..MaxClaimPathParts
    <3>1. Complete(LookupClaim(object, path), Reachable(object, path))
      BY <2>4, <2>5, <2>6, LookupClaimComplete
    <3> QED BY <2>2, <2>3, <2>5, <2>6, <3>1 DEF Complete
  <2>7. CASE n \notin 1..MaxClaimPathParts
    <3>1. path = <<>> \/ n > MaxClaimPathParts
      BY <2>4, <2>5, <2>7
    <3>2. LookupClaim(object, path) = Nothing
      BY <2>5, <3>1, Zenon DEF LookupClaim
    <3> QED BY <2>2, <2>3, <2>5, <2>7, <3>2
  <2> QED BY <2>6, <2>7
<1> QED BY <1>1, <1>2 DEF ConditionsMeanPatterns

\* A provider that accepts a token verified it.
LEMMA AcceptedIsVerified ==
  ASSUME NEW token \in Tokens, NEW providers \in Providers, NEW role,
         "accepted" \in Range(ProvidersGet(token, providers, role))
  PROVE  /\ token.exp > Now
         /\ \E p \in Range(providers) :
              /\ p.enabled /\ p.optedIn /\ p.sameIssuer
              /\ token.aud \cap p.audiences # {}
              /\ p.maxAge > 0 => Now - token.iat <= p.maxAge
<1>1. PICK k \in ExchangeCandidates(providers, role) :
        ProviderOutcome(providers[k], token, Now) = "accepted"
  BY DEF ProvidersGet, Range
<1>2. PICK p : p = providers[k]
  OBVIOUS
<1>3. p \in Range(providers) /\ p.enabled /\ p.optedIn /\ p.sameIssuer
  BY <1>1, <1>2 DEF ExchangeCandidates, Range
<1>4. Verify(token, p.audiences, p.trusted, p.maxAge, Now)
  BY <1>1, <1>2 DEF ProviderOutcome
<1>5. token.exp > Now /\ token.aud \cap p.audiences # {}
  BY <1>4 DEF Verify, ClaimsFor
<1>6. p.maxAge > 0 => Now - token.iat <= p.maxAge
  <2>1. CheckTokenAge(token.iat, Now, p.maxAge)
    BY <1>4 DEF Verify
  <2>2. p.maxAge \in Nat
    BY <1>1, <1>2, TokensAssumption DEF ExchangeCandidates
  <2> QED BY <2>1, <2>2 DEF CheckTokenAge
<1> QED BY <1>3, <1>5, <1>6

\* ... and that exchanges answer right.
LEMMA TokenInvAnswers ==
  ASSUME TokenInv
  PROVE  ExchangeAnswers
<1> SUFFICES ASSUME AnsweredExchange PROVE ExchangeAnswers
  BY DEF ExchangeAnswers, ReplayIsNoLogin, FurthestIsReported
<1>1. ExchangePresented
  BY WhoExchanges DEF AnsweredExchange
<1>2. PICK token \in Tokens, providers \in Providers, issuers \in Issuers,
           role \in {"any", "ci"}, stage \in {"providers", "issuers", "user", "workload"} :
        /\ presented = ExchangeOf(token, providers, issuers, role, stage)
        /\ Progress(token, providers, issuers, role, stage)
  BY <1>1, Zenon DEF ExchangePresented
<1>3. /\ presented.token = token /\ presented.providers = providers
      /\ presented.issuers = issuers /\ presented.role = role /\ presented.stage = stage
  BY <1>2 DEF ExchangeOf
<1>4. outcome # Nothing
  BY DEF AnsweredExchange
<1>5. \A e \in Errors : DOMAIN e = {"error"}
  BY AnswersDiffer DEF Errors, ServerError, InvalidGrant, TemporarilyUnavailable
<1>6. ASSUME stage = "issuers" PROVE outcome \in Errors
  <2>1. AskingIssuers(token, providers, issuers, role)
    BY <1>2, <1>6 DEF Progress
  <2>2. outcome = IssuersAnswer /\ rejection \in Errors \cup {Nothing}
    BY <1>4, <2>1 DEF AskingIssuers, ProvidersReported
  <2>3. Rejected \in Errors \cup {Nothing}
    BY DEF Rejected, Furthest, Errors
  <2> QED BY <2>2, <2>3 DEF IssuersAnswer, Errors
<1>7. ReplayIsNoLogin
  <2> SUFFICES ASSUME "user" \in DOMAIN outcome
               PROVE  /\ outcome.authenticatedAt <= Now
                      /\ \/ outcome.authenticatedAt = 0
                         \/ outcome.authenticatedAt <= IF token.auth_time # Absent
                                                       THEN token.auth_time ELSE token.iat
                      /\ token.exp > Now
                      /\ \E p \in Range(providers) :
                           /\ p.enabled /\ p.optedIn /\ p.sameIssuer
                           /\ token.aud \cap p.audiences # {}
                           /\ p.maxAge > 0 => Now - token.iat <= p.maxAge
    BY <1>3 DEF ReplayIsNoLogin
  <2>1. outcome \notin Errors /\ outcome # [workload |-> TRUE]
    <3>1. DOMAIN [workload |-> TRUE] = {"workload"}
      OBVIOUS
    <3> QED BY <1>5, <3>1
  <2>2. InvalidGrant \in Errors /\ ServerError \in Errors
    BY DEF Errors
  <2>3. stage = "user"
    BY <1>2, <1>4, <1>6, <2>1, <2>2 DEF Progress, AskingProviders, WorkloadFound
  <2>4. UserFound(token, providers, role)
    BY <1>2, <2>3 DEF Progress
  <2>5. outcome.authenticatedAt = AuthenticatedAt(token, Now)
    BY <1>4, <2>1, <2>2, <2>4 DEF UserFound
  <2>6. token.auth_time \in Int /\ token.iat \in Int /\ Now \in Int
    BY TokensAssumption DEF Now
  <2>7. PICK at \in Int : at = IF token.auth_time # Absent THEN token.auth_time ELSE token.iat
    BY <2>6
  <2>8. AuthenticatedAt(token, Now) = IF at < 0 THEN 0 ELSE IF at < 2 THEN at ELSE 2
    BY <2>7 DEF AuthenticatedAt, Now
  <2>9. PICK t \in Int : t = AuthenticatedAt(token, Now) /\ t <= 2 /\ (t = 0 \/ t <= at)
    BY <2>7, <2>8
  <2>10. outcome.authenticatedAt <= Now
    BY <2>5, <2>9 DEF Now
  <2>11. outcome.authenticatedAt = 0 \/ outcome.authenticatedAt <= at
    BY <2>5, <2>9
  <2>12. "accepted" \in Range(ProvidersGet(token, providers, role))
    BY <2>4 DEF UserFound
  <2> QED BY <2>7, <2>10, <2>11, <2>12, AcceptedIsVerified
<1>8. FurthestIsReported
  <2> DEFINE OutP == Range(ProvidersGet(token, providers, role))
             OutI == Range(IssuersGet(token, issuers, role))
  <2>1. OutcomesOf(presented) = [providers |-> OutP, issuers |-> OutI]
    <3>1. OutP = {ProviderOutcome(providers[k], token, Now) :
                    k \in ExchangeCandidates(providers, role)}
      BY DEF ProvidersGet, Range
    <3>2. OutI = {IssuerOutcome(issuers[k], token, role, Now) :
                    k \in IssuerCandidates(issuers, role)}
      BY DEF IssuersGet, Range
    <3> HIDE DEF OutP, OutI
    <3> QED BY <1>3, <3>1, <3>2 DEF OutcomesOf
  <2> SUFFICES ASSUME stage = "issuers", OutP = {} \/ OutI = {},
                      (OutP \cup OutI) \cap {"accepted", "failed"} = {}
               PROVE  StatusOf(outcome) = Verdict(OutP \cup OutI)
    <3>1. OutcomesOf(presented).providers = OutP /\ OutcomesOf(presented).issuers = OutI
      BY <2>1
    <3> HIDE DEF OutP, OutI
    <3> QED BY <1>3, <3>1 DEF FurthestIsReported
  <2>2. AskingIssuers(token, providers, issuers, role)
    BY <1>2 DEF Progress
  <2>3. asking = {} /\ outcome = IssuersAnswer
    BY <1>4, <2>2 DEF AskingIssuers
  <2>4. got = OutI
    <3>1. AskedInTurn(IssuersGet(token, issuers, role))
      BY <2>2 DEF AskingIssuers
    <3>2. OutI \cap {"accepted", "failed"} = {}
      OBVIOUS
    <3> QED BY <2>3, <3>1, <3>2, AllAsked
  <2>5. rejection = IF OutP = {} THEN Nothing ELSE Furthest(OutP)
    <3>1. ProvidersReported(OutP)
      BY <2>2 DEF AskingIssuers
    <3> HIDE DEF OutP, OutI
    <3> QED BY <3>1 DEF ProvidersReported
  <2> HIDE DEF OutP, OutI
  <2>6. \A out : StatusOf(Furthest(out)) = Verdict(out) /\ Furthest(out) # Nothing
    BY AnswersDiffer DEF Furthest, Verdict
  <2>7. CASE OutP # {}
    <3>1. OutI = {} /\ OutP \cup OutI = OutP
      BY <2>7
    <3>2. outcome = Furthest(OutP)
      BY <2>3, <2>5, <2>6, <2>7 DEF IssuersAnswer
    <3> QED BY <2>6, <3>1, <3>2
  <2>8. CASE OutP = {} /\ OutI # {}
    <3>1. OutP \cup OutI = OutI /\ "failed" \notin OutI
      BY <2>8
    <3>2. Rejected = Furthest(OutI)
      BY <2>4, <2>8, <3>1 DEF Rejected
    <3>3. outcome = Furthest(OutI)
      BY <2>3, <2>5, <2>6, <2>8, <3>2 DEF IssuersAnswer
    <3> QED BY <2>6, <3>1, <3>3
  <2>9. CASE OutP = {} /\ OutI = {}
    <3>1. outcome = InvalidGrant
      BY <2>3, <2>4, <2>5, <2>9 DEF IssuersAnswer, Rejected
    <3>2. OutP \cup OutI = {}
      BY <2>9
    <3>3. Verdict({}) = 400
      BY DEF Verdict
    <3> QED BY <3>1, <3>2, <3>3, AnswersDiffer
  <2> QED BY <2>7, <2>8, <2>9
<1> QED BY <1>7, <1>8 DEF ExchangeAnswers

\* A pattern matches exactly the values it means (glob_match), and a claim is
\* found exactly if some way to cut its path leads to one (lookup_claim).
THEOREM ConditionsMatchMeanings ==
  TokenSpec => []ConditionsMeanPatterns
<1>1. TokenInv => ConditionsMeanPatterns
  BY TokenInvConditions
<1> QED BY <1>1, TokenInvHolds, PTL

\* An exchange answers with no fresher login than the token of a provider that
\* was asked shows, and otherwise with the furthest a candidate got (exchange,
\* verify_exchange, verify_workload).
THEOREM ExchangesAnswerRight ==
  TokenSpec => []ExchangeAnswers
<1>1. TokenInv => ExchangeAnswers
  BY TokenInvAnswers
<1> QED BY <1>1, TokenInvHolds, PTL

----------------------------------------------------------------------------
(* The bytes of a connection *)

\* f tells where the first n frames end.
EndsUpTo(s, n, f) ==
  f = [k \in 0..n |-> IF k = 0 THEN OpeningLen(s)
                      ELSE f[k - 1] + FrameHeaderLen + s.frames[k].len]

\* What such a function says of a frame.
LEMMA EndsOne ==
  ASSUME NEW s, NEW n \in Nat, NEW f, EndsUpTo(s, n, f)
  PROVE  /\ DOMAIN f = 0..n
         /\ f[0] = OpeningLen(s)
         /\ \A k \in 1..n : f[k] = f[k - 1] + FrameHeaderLen + s.frames[k].len
<1> DEFINE F(k) == IF k = 0 THEN OpeningLen(s)
                   ELSE f[k - 1] + FrameHeaderLen + s.frames[k].len
<1>1. f = [k \in 0..n |-> F(k)]
  BY Zenon DEF EndsUpTo
<1>2. F(0) = OpeningLen(s)
  OBVIOUS
<1>3. \A k \in 1..n : F(k) = f[k - 1] + FrameHeaderLen + s.frames[k].len
  OBVIOUS
<1> HIDE DEF F
<1>4. DOMAIN f = 0..n /\ f[0] = F(0) /\ \A k \in 1..n : f[k] = F(k)
  BY <1>1
<1> QED BY <1>2, <1>3, <1>4

\* There is one, by induction on n.
LEMMA EndsExist ==
  ASSUME NEW s
  PROVE  \A n \in Nat : \E f : EndsUpTo(s, n, f)
<1> DEFINE T == {n \in Nat : ~\E f : EndsUpTo(s, n, f)}
<1> SUFFICES ASSUME T # {} PROVE FALSE
  OBVIOUS
<1>1. PICK m \in T : \A n \in T : m <= n
  <2>1. T \subseteq Nat
    OBVIOUS
  <2> HIDE DEF T
  <2> QED BY <2>1, LeastNumber
<1>2. m # 0
  <2> DEFINE F(f, k) == IF k = 0 THEN OpeningLen(s)
                        ELSE f[k - 1] + FrameHeaderLen + s.frames[k].len
  <2>1. PICK f : f = [k \in 0..0 |-> OpeningLen(s)]
    OBVIOUS
  <2>2. \A k \in 0..0 : F(f, k) = OpeningLen(s)
    OBVIOUS
  <2> HIDE DEF F
  <2>3. f = [k \in 0..0 |-> F(f, k)]
    BY <2>1, <2>2
  <2>4. EndsUpTo(s, 0, f)
    BY <2>3, Zenon DEF EndsUpTo, F
  <2> QED BY <1>1, <2>4
<1>3. PICK f : EndsUpTo(s, m - 1, f)
  <2>1. m - 1 \in Nat /\ ~(m <= m - 1)
    BY <1>1, <1>2
  <2>2. m - 1 \notin T
    BY <1>1, <2>1
  <2> QED BY <2>1, <2>2
<1>4. m \in Nat /\ m - 1 \in Nat
  BY <1>1, <1>2
<1>5. PICK g : g = [k \in 0..m |-> IF k = m THEN f[m - 1] + FrameHeaderLen + s.frames[m].len
                                   ELSE f[k]]
  OBVIOUS
<1>6. /\ f[0] = OpeningLen(s)
      /\ \A k \in 1..(m - 1) : f[k] = f[k - 1] + FrameHeaderLen + s.frames[k].len
  BY <1>3, <1>4, EndsOne
<1>7. EndsUpTo(s, m, g)
  <2> DEFINE G(k) == IF k = 0 THEN OpeningLen(s)
                     ELSE g[k - 1] + FrameHeaderLen + s.frames[k].len
  <2>1. g[0] = f[0] /\ g[m] = f[m - 1] + FrameHeaderLen + s.frames[m].len
    BY <1>2, <1>4, <1>5
  <2>2. \A k \in 1..(m - 1) : g[k] = f[k]
    BY <1>4, <1>5
  <2>3. \A k \in 1..m : g[k - 1] = f[k - 1]
    BY <1>4, <1>5
  <2>4. \A k \in 0..m : g[k] = G(k)
    <3> SUFFICES ASSUME NEW k \in 0..m PROVE g[k] = G(k)
      OBVIOUS
    <3>1. CASE k = 0
      BY <1>6, <2>1, <3>1
    <3>2. CASE k = m
      BY <1>2, <1>4, <2>1, <2>3, <3>2
    <3>3. CASE k # 0 /\ k # m
      <4>1. k \in 1..(m - 1) /\ k \in 1..m
        BY <1>4, <3>3
      <4> QED BY <1>6, <2>2, <2>3, <3>3, <4>1
    <3> QED BY <3>1, <3>2, <3>3
  <2> HIDE DEF G
  <2>5. g = [k \in 0..m |-> G(k)]
    BY <1>5, <2>4
  <2> QED BY <2>5, Zenon DEF EndsUpTo, G
<1> QED BY <1>1, <1>7

\* A stream: where its frames end, and how many it has.
IsFramed(s, end, F) ==
  /\ F \in Nat /\ F = Len(s.frames)
  /\ s.matching \in 0..PrefaceLen
  /\ end[0] = OpeningLen(s) /\ \A k \in 0..F : end[k] \in Nat
  /\ \A k \in 1..F : /\ s.frames[k].len \in Nat
                     /\ end[k] = end[k - 1] + FrameHeaderLen + s.frames[k].len

\* What it says of one frame.
LEMMA FrameIs ==
  ASSUME NEW s, NEW end, NEW F, IsFramed(s, end, F), NEW k \in 1..F
  PROVE  /\ end[k - 1] \in Nat /\ end[k] \in Nat /\ s.frames[k].len \in Nat
         /\ end[k] = end[k - 1] + FrameHeaderLen + s.frames[k].len
<1>1. F \in Nat /\ k - 1 \in 0..F /\ k \in 0..F
  BY DEF IsFramed
<1> QED BY <1>1 DEF IsFramed

\* EndOf tells where the frames of a stream end.
LEMMA EndOfIs ==
  ASSUME NEW s \in Streams
  PROVE  IsFramed(s, EndOf(s), Len(s.frames))
<1>1. s.matching \in 0..PrefaceLen /\ s.frames \in Seq(Range(s.frames))
      /\ \A k \in DOMAIN s.frames : s.frames[k].len \in Nat
  BY StreamsAssumption
<1>2. PICK F \in Nat : F = Len(s.frames)
  BY <1>1
<1>3. \A k \in 1..F : s.frames[k].len \in Nat
  BY <1>1, <1>2
<1> DEFINE end == CHOOSE end : end = [k \in 0..Len(s.frames) |->
                    IF k = 0 THEN OpeningLen(s)
                    ELSE end[k - 1] + FrameHeaderLen + s.frames[k].len]
<1>4. end = EndOf(s)
  BY Zenon DEF EndOf
<1>5. end = [k \in 0..Len(s.frames) |-> IF k = 0 THEN OpeningLen(s)
                                        ELSE end[k - 1] + FrameHeaderLen + s.frames[k].len]
  <2>1. PICK f : EndsUpTo(s, F, f)
    BY EndsExist
  <2>2. f = [k \in 0..Len(s.frames) |-> IF k = 0 THEN OpeningLen(s)
                                        ELSE f[k - 1] + FrameHeaderLen + s.frames[k].len]
    BY <1>2, <2>1, Zenon DEF EndsUpTo
  <2> QED BY <2>2, Zenon
<1> HIDE DEF end
<1>6. EndsUpTo(s, F, end)
  BY <1>2, <1>5, Zenon DEF EndsUpTo
<1>7. /\ end[0] = OpeningLen(s)
      /\ \A k \in 1..F : end[k] = end[k - 1] + FrameHeaderLen + s.frames[k].len
  BY <1>6, EndsOne
<1>8. \A k \in 0..F : end[k] \in Nat
  <2> DEFINE T == {k \in 0..F : end[k] \notin Nat}
  <2> SUFFICES ASSUME T # {} PROVE FALSE
    OBVIOUS
  <2>1. PICK m \in T : \A n \in T : m <= n
    <3>1. T \subseteq Nat
      OBVIOUS
    <3> HIDE DEF T
    <3> QED BY <3>1, LeastNumber
  <2>2. OpeningLen(s) \in Nat
    BY <1>1, StreamsAssumption DEF OpeningLen
  <2>3. m # 0
    BY <1>7, <2>1, <2>2
  <2>4. m \in 1..F /\ m - 1 \in 0..F /\ ~(m <= m - 1)
    BY <2>1, <2>3
  <2>5. end[m - 1] \in Nat
    BY <2>1, <2>4
  <2>6. end[m] \in Nat
    <3>1. FrameHeaderLen \in Nat
      BY StreamsAssumption
    <3> QED BY <1>3, <1>7, <2>4, <2>5, <3>1
  <2> QED BY <2>1, <2>6
<1> QED BY <1>1, <1>2, <1>3, <1>4, <1>7, <1>8 DEF IsFramed

\* Later frames end later.
LEMMA EndsInOrder ==
  ASSUME NEW s, NEW end, NEW F, IsFramed(s, end, F)
  PROVE  \A j \in 0..F : \A k \in j..F : end[j] <= end[k]
<1> SUFFICES ASSUME NEW j \in 0..F PROVE \A k \in j..F : end[j] <= end[k]
  OBVIOUS
<1>1. FrameHeaderLen \in Nat
  BY StreamsAssumption
<1>2. F \in Nat /\ j \in Nat
  BY DEF IsFramed
<1> DEFINE T == {k \in j..F : ~(end[j] <= end[k])}
<1> SUFFICES ASSUME T # {} PROVE FALSE
  OBVIOUS
<1>3. PICK m \in T : \A n \in T : m <= n
  <2>1. T \subseteq Nat
    BY <1>2
  <2> HIDE DEF T
  <2> QED BY <2>1, LeastNumber
<1>4. end[j] \in Nat
  BY DEF IsFramed
<1>5. m # j
  BY <1>3, <1>4
<1>6. m \in 1..F /\ m - 1 \in j..F /\ m - 1 \in 0..F /\ ~(m <= m - 1)
  BY <1>2, <1>3, <1>5
<1>7. end[j] <= end[m - 1]
  BY <1>3, <1>6
<1>8. end[m] = end[m - 1] + FrameHeaderLen + s.frames[m].len /\ s.frames[m].len \in Nat
      /\ end[m - 1] \in Nat
  BY <1>6 DEF IsFramed
<1>9. end[j] <= end[m]
  BY <1>1, <1>4, <1>7, <1>8
<1> QED BY <1>3, <1>9

\* A byte after the opening is of one frame.
LEMMA OneFrame ==
  ASSUME NEW s, NEW end, NEW F, IsFramed(s, end, F), NEW i \in Nat
  PROVE  /\ OpeningLen(s) < i /\ i <= end[F] =>
              \E k \in 1..F : end[k - 1] < i /\ i <= end[k]
         /\ \A j, k \in 1..F : (end[j - 1] < i /\ i <= end[j] /\ end[k - 1] < i /\ i <= end[k])
              => j = k
<1>1. F \in Nat /\ end[0] = OpeningLen(s) /\ \A k \in 0..F : end[k] \in Nat
  BY DEF IsFramed
<1>2. ASSUME OpeningLen(s) < i, i <= end[F] PROVE \E k \in 1..F : end[k - 1] < i /\ i <= end[k]
  <2> DEFINE T == {k \in 0..F : i <= end[k]}
  <2>1. PICK m \in T : \A n \in T : m <= n
    <3>1. T \subseteq Nat /\ F \in T
      BY <1>1, <1>2
    <3> HIDE DEF T
    <3> QED BY <3>1, LeastNumber
  <2>2. m # 0
    BY <1>1, <1>2, <2>1
  <2>3. m \in 1..F /\ m - 1 \in 0..F /\ ~(m <= m - 1)
    BY <1>1, <2>1, <2>2
  <2>4. ~(i <= end[m - 1]) /\ end[m - 1] \in Nat
    BY <1>1, <2>1, <2>3
  <2>5. end[m - 1] < i /\ i <= end[m]
    BY <2>1, <2>4
  <2> QED BY <2>3, <2>5
<1>3. ASSUME NEW j \in 1..F, NEW k \in 1..F, j < k, i <= end[j], end[k - 1] < i PROVE FALSE
  <2>1. j \in 0..F /\ k - 1 \in j..F /\ k - 1 \in 0..F
    BY <1>1, <1>3
  <2>2. end[j] <= end[k - 1] /\ end[j] \in Nat /\ end[k - 1] \in Nat
    BY <1>1, <2>1, EndsInOrder
  <2> QED BY <1>3, <2>2
<1>4. ASSUME NEW j \in 1..F, NEW k \in 1..F,
             end[j - 1] < i, i <= end[j], end[k - 1] < i, i <= end[k]
      PROVE  j = k
  <2>1. ~(j < k) /\ ~(k < j)
    BY <1>3, <1>4
  <2> QED BY <1>1, <2>1
<1> QED BY <1>2, <1>4

\* The byte at a place of a frame.
FrameByte(s, k, a) == [is |-> "frame", number |-> k, frame |-> s.frames[k], at |-> a]

\* The bytes of a stream.
AreBytes(b, s, end, F) ==
  /\ b \in Seq(Range(b)) /\ Len(b) = end[F]
  /\ \A i \in 1..end[F] : /\ i <= s.matching => b[i] = [is |-> "preface"]
                          /\ s.matching < i /\ i <= OpeningLen(s) => b[i] = [is |-> "other"]
  /\ \A k \in 1..F : \A i \in Nat : end[k - 1] < i /\ i <= end[k] =>
       b[i] = FrameByte(s, k, i - end[k - 1])

\* Bytes are those of the stream.
LEMMA BytesAre ==
  ASSUME NEW s \in Streams, NEW end, NEW F, end = EndOf(s), F = Len(s.frames)
  PROVE  IsFramed(s, end, F) /\ AreBytes(Bytes(s), s, end, F)
<1>1. IsFramed(s, end, F)
  BY EndOfIs
<1>2. F \in Nat /\ end[0] = OpeningLen(s) /\ (\A k \in 0..F : end[k] \in Nat)
      /\ s.matching \in 0..PrefaceLen /\ PrefaceLen \in Nat
  BY <1>1, StreamsAssumption DEF IsFramed
<1>3. DOMAIN s.frames = 1..F
  <2>1. s.frames \in Seq(Range(s.frames))
    BY StreamsAssumption
  <2> QED BY <2>1
<1> DEFINE Number(i) == CHOOSE k \in DOMAIN s.frames : end[k - 1] < i /\ i <= end[k]
           B(i) == IF i <= s.matching THEN [is |-> "preface"]
                   ELSE IF i <= OpeningLen(s) THEN [is |-> "other"]
                   ELSE [is |-> "frame", number |-> Number(i), frame |-> s.frames[Number(i)],
                         at |-> i - end[Number(i) - 1]]
<1>4. PICK n \in Nat : n = end[F]
  BY <1>2
<1>5. Bytes(s) = [i \in 1..end[Len(s.frames)] |-> B(i)]
  BY Zenon DEF Bytes
<1>6. \A k \in 1..F : \A i \in Nat : end[k - 1] < i /\ i <= end[k] => Number(i) = k
  <2> SUFFICES ASSUME NEW k \in 1..F, NEW i \in Nat, end[k - 1] < i, i <= end[k]
               PROVE  Number(i) = k
    OBVIOUS
  <2>1. PICK j : j = Number(i)
    OBVIOUS
  <2>2. \E x \in DOMAIN s.frames : end[x - 1] < i /\ i <= end[x]
    BY <1>3
  <2>3. j \in DOMAIN s.frames /\ end[j - 1] < i /\ i <= end[j]
    BY <2>1, <2>2, Zenon
  <2> HIDE DEF Number
  <2> QED BY <1>1, <1>3, <2>1, <2>3, OneFrame
<1>7. /\ \A i : i <= s.matching => B(i) = [is |-> "preface"]
      /\ \A i \in Nat : s.matching < i /\ i <= OpeningLen(s) => B(i) = [is |-> "other"]
  <2> HIDE DEF Number
  <2> QED BY <1>2
<1>8. \A k \in 1..F : \A i \in Nat : end[k - 1] < i /\ i <= end[k] =>
        B(i) = FrameByte(s, k, i - end[k - 1]) /\ i \in 1..n
  <2> SUFFICES ASSUME NEW k \in 1..F, NEW i \in Nat, end[k - 1] < i, i <= end[k]
               PROVE  B(i) = FrameByte(s, k, i - end[k - 1]) /\ i \in 1..n
    OBVIOUS
  <2>1. Number(i) = k
    BY <1>6
  <2>2. k \in 0..F /\ k - 1 \in 0..F /\ 0 \in 0..F /\ F \in k..F /\ k - 1 \in 0..F
    BY <1>2
  <2>3. end[0] <= end[k - 1] /\ end[k] <= end[F] /\ s.matching <= OpeningLen(s)
    <3>1. end[k] <= end[F]
      BY <1>1, <2>2, EndsInOrder
    <3>2. end[0] <= end[k - 1]
      BY <1>1, <2>2, EndsInOrder
    <3>3. s.matching <= OpeningLen(s)
      BY <1>2 DEF OpeningLen
    <3> QED BY <3>1, <3>2, <3>3
  <2>4. end[k - 1] \in Nat /\ end[k] \in Nat /\ end[0] \in Nat /\ s.matching \in Nat
    BY <1>2, <2>2
  <2>5. ~(i <= s.matching) /\ ~(i <= OpeningLen(s)) /\ i \in 1..n
    <3>1. PICK m, o, x, y \in Nat : m = s.matching /\ o = OpeningLen(s) /\ x = end[k - 1] /\ y = end[k]
      BY <1>2, <2>4
    <3>2. m <= o /\ o <= x /\ x < i /\ i <= y /\ y <= n
      BY <1>2, <1>4, <2>3, <3>1
    <3>3. ~(i <= m) /\ ~(i <= o) /\ i \in 1..n
      BY <3>2
    <3> QED BY <3>1, <3>3
  <2>6. B(i) = [is |-> "frame", number |-> Number(i), frame |-> s.frames[Number(i)],
                at |-> i - end[Number(i) - 1]]
    <3> HIDE DEF Number
    <3> QED BY <2>5
  <2> HIDE DEF Number, B
  <2> QED BY <2>1, <2>5, <2>6 DEF FrameByte
<1> HIDE DEF B
<1>9. PICK b : b = Bytes(s)
  OBVIOUS
<1>10. b = [i \in 1..n |-> B(i)]
  BY <1>4, <1>5, <1>9
<1>11. Len(b) = n /\ DOMAIN b = 1..n /\ \A i \in 1..n : b[i] = B(i)
  BY <1>10
<1>12. b \in Seq(Range(b))
  <2>1. \A i \in 1..n : B(i) \in Range(b)
    BY <1>11 DEF Range
  <2> QED BY <1>10, <2>1
<1>13. \A i \in 1..n : i \in Nat
  BY <1>4
<1> QED BY <1>1, <1>4, <1>7, <1>8, <1>9, <1>11, <1>12, <1>13 DEF AreBytes

\* The frames of which the headers, and which as a whole, are among the first
\* c bytes, if they start or end a header block.
Headed(s, end, F, c) ==
  {k \in 1..F : s.frames[k].kind = "HEADERS" /\ end[k - 1] + FrameHeaderLen <= c}
Ended(s, end, F, c) == {k \in 1..F : EndsHeaders(s.frames[k]) /\ end[k] <= c}

\* The header blocks that did not end.
Open(heads, ends) == {k \in heads : \A e \in ends : e < k}

\* Until when headers are owed, by the header blocks that started and ended.
OwedBy(heads, ends, end, times) ==
  IF ends = {} THEN HeaderWait
  ELSE IF Open(heads, ends) = {} THEN NoDeadline
  ELSE times[end[Min(Open(heads, ends)) - 1] + FrameHeaderLen] + HeaderWait

\* Until when they are owed after c bytes, read at those times.
Owed(s, end, F, c, times) ==
  IF s.matching < PrefaceLen /\ s.matching < c THEN NoDeadline
  ELSE OwedBy(Headed(s, end, F, c), Ended(s, end, F, c), end, times)

\* Which bytes are of a frame, and where.
LEMMA WhichBytes ==
  ASSUME NEW b, NEW s, NEW end, NEW F, IsFramed(s, end, F), AreBytes(b, s, end, F)
  PROVE  /\ \A i \in 1..end[F] : /\ b[i].is = "preface" <=> i <= s.matching
                                 /\ b[i].is = "other" <=> s.matching < i /\ i <= OpeningLen(s)
                                 /\ b[i].is = "frame" <=> OpeningLen(s) < i
         /\ \A i \in 1..end[F] : \A k \in 1..F :
              b[i].is = "frame" /\ b[i].number = k <=> end[k - 1] < i /\ i <= end[k]
         /\ \A i \in 1..end[F] : \A k \in 1..F : end[k - 1] < i /\ i <= end[k] =>
              b[i].frame = s.frames[k] /\ b[i].at = i - end[k - 1]
         /\ \A i \in 1..end[F] : b[i].is = "frame" => b[i].number \in 1..F
<1>1. F \in Nat /\ end[0] = OpeningLen(s) /\ (\A k \in 0..F : end[k] \in Nat)
      /\ s.matching \in Nat /\ s.matching <= OpeningLen(s)
  <2>1. s.matching \in 0..PrefaceLen /\ PrefaceLen \in Nat
    BY StreamsAssumption DEF IsFramed
  <2> QED BY <2>1 DEF IsFramed, OpeningLen
<1>2. \A k \in 1..F : \A i \in Nat : end[k - 1] < i /\ i <= end[k] =>
        /\ b[i].is = "frame" /\ b[i].number = k /\ b[i].frame = s.frames[k]
        /\ b[i].at = i - end[k - 1]
  <2>1. \A k, a : /\ FrameByte(s, k, a).is = "frame" /\ FrameByte(s, k, a).number = k
                  /\ FrameByte(s, k, a).frame = s.frames[k] /\ FrameByte(s, k, a).at = a
    BY DEF FrameByte
  <2> QED BY <2>1 DEF AreBytes
<1>3. \A i \in 1..end[F] : i \in Nat
  BY <1>1
<1>4. \A i \in 1..end[F] : /\ i <= s.matching => b[i].is = "preface"
                           /\ s.matching < i /\ i <= OpeningLen(s) => b[i].is = "other"
  BY DEF AreBytes
<1>5. \A i \in 1..end[F] : OpeningLen(s) < i => \E k \in 1..F : end[k - 1] < i /\ i <= end[k]
  <2> SUFFICES ASSUME NEW i \in 1..end[F], OpeningLen(s) < i
               PROVE  \E k \in 1..F : end[k - 1] < i /\ i <= end[k]
    OBVIOUS
  <2>1. i \in Nat /\ i <= end[F]
    BY <1>1, <1>3
  <2> QED BY <2>1, OneFrame
<1>6. \A i \in 1..end[F] : OpeningLen(s) < i => b[i].is = "frame" /\ b[i].number \in 1..F
  BY <1>2, <1>3, <1>5
<1>7. \A i \in 1..end[F] : i <= s.matching \/ (s.matching < i /\ i <= OpeningLen(s)) \/ OpeningLen(s) < i
  BY <1>1, <1>3
<1>8. \A i \in 1..end[F] : /\ ~(i <= s.matching /\ s.matching < i)
                           /\ ~(i <= OpeningLen(s) /\ OpeningLen(s) < i)
                           /\ ~(i <= s.matching /\ OpeningLen(s) < i)
  BY <1>1, <1>3
<1>9. \A i \in 1..end[F] : /\ b[i].is = "preface" <=> i <= s.matching
                           /\ b[i].is = "other" <=> s.matching < i /\ i <= OpeningLen(s)
                           /\ b[i].is = "frame" <=> OpeningLen(s) < i
  BY <1>4, <1>6, <1>7, <1>8
<1>10. \A i \in 1..end[F] : \A k \in 1..F :
         b[i].is = "frame" /\ b[i].number = k => end[k - 1] < i /\ i <= end[k]
  BY <1>2, <1>3, <1>5, <1>9
<1>11. \A i \in 1..end[F] : \A k \in 1..F :
         b[i].is = "frame" /\ b[i].number = k <=> end[k - 1] < i /\ i <= end[k]
  BY <1>2, <1>3, <1>10
<1>12. \A i \in 1..end[F] : \A k \in 1..F : end[k - 1] < i /\ i <= end[k] =>
         b[i].frame = s.frames[k] /\ b[i].at = i - end[k - 1]
  BY <1>2, <1>3
<1> QED BY <1>6, <1>9, <1>11, <1>12

\* The lengths of StreamsAssumption.
LEMMA Lengths ==
  /\ PrefaceLen \in Nat /\ 1 <= PrefaceLen
  /\ FrameHeaderLen \in Nat /\ 1 <= FrameHeaderLen
  /\ HeaderWait \in Nat
<1>1. PrefaceLen \in Nat \ {0} /\ FrameHeaderLen \in Nat \ {0} /\ HeaderWait \in Nat
  BY StreamsAssumption
<1> QED BY <1>1

\* What the property says of the bytes read is Owed.
LEMMA OwedIs ==
  ASSUME NEW s, NEW end, NEW F, IsFramed(s, end, F), AreBytes(sending, s, end, F),
         NEW c \in Nat, c = Len(readAt), c <= end[F]
  PROVE  OwedUntil = Owed(s, end, F, c, readAt)
<1>1. F \in Nat /\ (\A k \in 0..F : end[k] \in Nat) /\ FrameHeaderLen \in Nat /\ 1 <= FrameHeaderLen
      /\ s.matching \in Nat /\ PrefaceLen \in Nat
  <2>1. s.matching \in 0..PrefaceLen /\ PrefaceLen \in Nat /\ FrameHeaderLen \in Nat
        /\ 1 <= FrameHeaderLen
    BY Lengths DEF IsFramed
  <2> QED BY <2>1 DEF IsFramed
<1>2. PICK n \in Nat : n = end[F] /\ Len(sending) = n
  BY <1>1 DEF AreBytes
<1>3. ASSUME NEW k \in 1..F
      PROVE  \E from, to, len \in Nat :
               /\ from = end[k - 1] /\ to = end[k] /\ len = s.frames[k].len
               /\ to = from + FrameHeaderLen + len /\ to <= n
  <2>1. k \in 0..F /\ k - 1 \in 0..F /\ F \in k..F
    BY <1>1
  <2>2. end[k] <= end[F]
    BY <2>1, EndsInOrder
  <2>3. /\ end[k - 1] \in Nat /\ end[k] \in Nat /\ s.frames[k].len \in Nat
        /\ end[k] = end[k - 1] + FrameHeaderLen + s.frames[k].len /\ end[k] <= n
    BY <1>1, <1>2, <2>1, <2>2 DEF IsFramed
  <2> QED BY <2>3
<1>4. /\ \A i \in 1..n : sending[i].is = "other" <=> s.matching < i /\ i <= OpeningLen(s)
      /\ \A i \in 1..n : \A k \in 1..F :
           sending[i].is = "frame" /\ sending[i].number = k <=> end[k - 1] < i /\ i <= end[k]
      /\ \A i \in 1..n : \A k \in 1..F : end[k - 1] < i /\ i <= end[k] =>
           sending[i].frame = s.frames[k] /\ sending[i].at = i - end[k - 1]
      /\ \A i \in 1..n : sending[i].is = "frame" => sending[i].number \in 1..F
  BY <1>2, WhichBytes
<1>5. FramesSent = 1..F
  <2>1. ASSUME NEW k \in 1..F PROVE end[k] \in 1..n /\ end[k - 1] < end[k] /\ end[k] <= end[k]
    <3>1. PICK from, to, len \in Nat :
            /\ from = end[k - 1] /\ to = end[k] /\ len = s.frames[k].len
            /\ to = from + FrameHeaderLen + len /\ to <= n
      BY <1>3
    <3>2. to = from + FrameHeaderLen + len /\ to <= n
      BY <3>1
    <3>3. to \in 1..n /\ from < to /\ to <= to
      BY <3>2, Lengths
    <3> QED BY <3>1, <3>3
  <2>2. \A k \in 1..F : sending[end[k]].is = "frame" /\ sending[end[k]].number = k
    BY <1>4, <2>1
  <2> QED BY <1>2, <1>4, <2>1, <2>2 DEF FramesSent
<1>6. ASSUME NEW k \in 1..F PROVE FrameOf(k) = s.frames[k]
  <2>1. end[k] \in 1..n /\ end[k - 1] < end[k] /\ end[k] <= end[k]
    <3>1. PICK from, to, len \in Nat :
            /\ from = end[k - 1] /\ to = end[k] /\ len = s.frames[k].len
            /\ to = from + FrameHeaderLen + len /\ to <= n
      BY <1>3
    <3>2. to = from + FrameHeaderLen + len /\ to <= n
      BY <3>1
    <3>3. to \in 1..n /\ from < to /\ to <= to
      BY <3>2, Lengths
    <3> QED BY <3>1, <3>3
  <2>2. \E i \in 1..Len(sending) : sending[i].is = "frame" /\ sending[i].number = k
    BY <1>2, <1>4, <2>1
  <2>3. PICK i : i = CHOOSE x \in 1..Len(sending) : sending[x].is = "frame" /\ sending[x].number = k
    OBVIOUS
  <2>4. i \in 1..n /\ sending[i].is = "frame" /\ sending[i].number = k
    BY <1>2, <2>2, <2>3, Zenon
  <2>5. sending[i].frame = s.frames[k]
    BY <1>4, <2>4
  <2> QED BY <2>3, <2>5, Zenon DEF FrameOf
<1>7. ASSUME NEW k \in 1..F, NEW a \in 1..(FrameHeaderLen + s.frames[k].len)
      PROVE  /\ \A i \in 1..c : (sending[i].is = "frame" /\ sending[i].number = k
                                   /\ sending[i].at = a) <=> i = end[k - 1] + a
             /\ ReadUpTo(k, a) <=> end[k - 1] + a <= c
  <2>0. PICK from, to, len \in Nat :
          /\ from = end[k - 1] /\ to = end[k] /\ len = s.frames[k].len
          /\ to = from + FrameHeaderLen + len /\ to <= n
    BY <1>3
  <2>1. a \in Nat /\ 1 <= a /\ a <= FrameHeaderLen + len /\ from + a <= to
    <3>1. a \in 1..(FrameHeaderLen + len) /\ to = from + FrameHeaderLen + len
      BY <2>0
    <3> QED BY <3>1, Lengths
  <2>2. \A i \in 1..c : i \in 1..n /\ i \in Nat
    BY <1>2
  <2>3. \A i \in 1..c : (sending[i].is = "frame" /\ sending[i].number = k
                           /\ sending[i].at = a) => i = end[k - 1] + a
    <3> SUFFICES ASSUME NEW i \in 1..c, sending[i].is = "frame", sending[i].number = k,
                        sending[i].at = a
                 PROVE  i = end[k - 1] + a
      OBVIOUS
    <3>1. end[k - 1] < i /\ i <= end[k]
      BY <1>4, <2>2
    <3>2. a = i - from
      BY <1>4, <2>0, <2>2, <3>1
    <3>3. i \in Nat /\ i = from + a
      BY <2>0, <2>2, <3>2
    <3> QED BY <2>0, <3>3
  <2>4. \A i \in 1..c : i = end[k - 1] + a =>
          sending[i].is = "frame" /\ sending[i].number = k /\ sending[i].at = a
    <3> SUFFICES ASSUME NEW i \in 1..c, i = end[k - 1] + a
                 PROVE  sending[i].is = "frame" /\ sending[i].number = k /\ sending[i].at = a
      OBVIOUS
    <3>0. i = from + a
      BY <2>0
    <3>1. from < i /\ i <= to /\ i - from = a
      BY <2>1, <3>0
    <3>2. end[k - 1] < i /\ i <= end[k] /\ i - end[k - 1] = a
      <4>1. end[k - 1] = from /\ end[k] = to
        BY <2>0
      <4> QED BY <3>1, <4>1
    <3>3. i \in 1..n
      BY <2>2
    <3> QED BY <1>4, <3>2, <3>3
  <2>5. end[k - 1] + a <= c <=> end[k - 1] + a \in 1..c
    <3>1. from + a <= c <=> from + a \in 1..c
      BY <2>0, <2>1
    <3> QED BY <2>0, <3>1
  <2>6. ReadUpTo(k, a) <=> \E i \in 1..c : sending[i].is = "frame" /\ sending[i].number = k
                                             /\ sending[i].at = a
    BY DEF ReadUpTo
  <2> QED BY <2>3, <2>4, <2>5, <2>6
<1>8. BlockStarts = Headed(s, end, F, c)
  <2>1. ASSUME NEW k \in 1..F PROVE FrameHeaderLen \in 1..(FrameHeaderLen + s.frames[k].len)
    <3>1. PICK len \in Nat : len = s.frames[k].len
      BY <1>3
    <3>2. FrameHeaderLen \in 1..(FrameHeaderLen + len)
      BY Lengths
    <3> QED BY <3>1, <3>2
  <2>2. \A k \in 1..F : ReadUpTo(k, FrameHeaderLen) <=> end[k - 1] + FrameHeaderLen <= c
    BY <1>7, <2>1
  <2> QED BY <1>5, <1>6, <2>2 DEF BlockStarts, Headed
<1>9. BlockEnds = Ended(s, end, F, c)
  <2>1. ASSUME NEW k \in 1..F
        PROVE  /\ FrameHeaderLen + s.frames[k].len \in 1..(FrameHeaderLen + s.frames[k].len)
               /\ end[k - 1] + (FrameHeaderLen + s.frames[k].len) = end[k]
    <3>1. PICK from, to, len \in Nat :
            /\ from = end[k - 1] /\ to = end[k] /\ len = s.frames[k].len
            /\ to = from + FrameHeaderLen + len /\ to <= n
      BY <1>3
    <3>2. to = from + FrameHeaderLen + len
      BY <3>1
    <3>3. FrameHeaderLen + len \in 1..(FrameHeaderLen + len) /\ from + (FrameHeaderLen + len) = to
      BY <3>2, Lengths
    <3> QED BY <3>1, <3>3
  <2>2. \A k \in 1..F : ReadUpTo(k, FrameHeaderLen + s.frames[k].len) <=> end[k] <= c
    BY <1>7, <2>1
  <2>3. \A k \in 1..F : EndsHeaders(s.frames[k]) <=>
          FrameOf(k).kind \in {"HEADERS", "CONTINUATION"} /\ FrameOf(k).ends
    BY <1>6 DEF EndsHeaders
  <2>4. \A k \in 1..F : ReadUpTo(k, FrameHeaderLen + FrameOf(k).len) <=> end[k] <= c
    BY <1>6, <2>2
  <2> QED BY <1>5, <2>3, <2>4 DEF BlockEnds, Ended
<1>10. ASSUME NEW k \in Headed(s, end, F, c)
       PROVE  StartedAt(k) = readAt[end[k - 1] + FrameHeaderLen]
  <2>1. k \in 1..F /\ end[k - 1] + FrameHeaderLen <= c
    BY DEF Headed
  <2>2. FrameHeaderLen \in 1..(FrameHeaderLen + s.frames[k].len)
        /\ end[k - 1] + FrameHeaderLen \in 1..c
    <3>1. PICK from, to, len \in Nat :
            /\ from = end[k - 1] /\ to = end[k] /\ len = s.frames[k].len
            /\ to = from + FrameHeaderLen + len /\ to <= n
      BY <1>3, <2>1
    <3>2. FrameHeaderLen \in 1..(FrameHeaderLen + len) /\ (from + FrameHeaderLen <= c => from + FrameHeaderLen \in 1..c)
      BY Lengths
    <3> QED BY <2>1, <3>1, <3>2
  <2>3. PICK i : i = CHOOSE x \in 1..Len(readAt) :
                       sending[x].is = "frame" /\ sending[x].number = k
                         /\ sending[x].at = FrameHeaderLen
    OBVIOUS
  <2>4. \A j \in 1..c : (sending[j].is = "frame" /\ sending[j].number = k
                           /\ sending[j].at = FrameHeaderLen) <=> j = end[k - 1] + FrameHeaderLen
    BY <1>7, <2>1, <2>2
  <2>5. \E j \in 1..Len(readAt) : sending[j].is = "frame" /\ sending[j].number = k
                                     /\ sending[j].at = FrameHeaderLen
    BY <2>2, <2>4
  <2>6. i \in 1..Len(readAt) /\ sending[i].is = "frame" /\ sending[i].number = k
          /\ sending[i].at = FrameHeaderLen
    BY <2>3, <2>5, Zenon
  <2>7. i = end[k - 1] + FrameHeaderLen
    BY <2>4, <2>6
  <2>8. StartedAt(k) = readAt[i]
    BY <2>3, Zenon DEF StartedAt
  <2> QED BY <2>7, <2>8
<1>11. (\E i \in 1..Len(readAt) : sending[i].is = "other")
         <=> s.matching < PrefaceLen /\ s.matching < c
  <2>1. \A i \in 1..c : i \in 1..n /\ i \in Nat
    BY <1>2
  <2>2. s.matching < PrefaceLen => OpeningLen(s) = s.matching + 1
    BY DEF OpeningLen
  <2>3. ~(s.matching < PrefaceLen) => OpeningLen(s) = s.matching
    BY <1>1 DEF OpeningLen
  <2>4. \A i \in 1..c : sending[i].is = "other" <=> s.matching < i /\ i <= OpeningLen(s)
    BY <1>4, <2>1
  <2>6. PICK m \in Nat : m = s.matching
    BY <1>1
  <2>7. CASE m < PrefaceLen
    <3>1. \A i \in 1..c : sending[i].is = "other" <=> m < i /\ i <= m + 1
      BY <2>2, <2>4, <2>6, <2>7
    <3>2. \A i \in 1..c : sending[i].is = "other" <=> i = m + 1
      BY <2>1, <3>1
    <3>3. m + 1 \in 1..c <=> m < c
      OBVIOUS
    <3> QED BY <2>6, <2>7, <3>2, <3>3
  <2>8. CASE ~(m < PrefaceLen)
    <3>1. \A i \in 1..c : sending[i].is = "other" <=> m < i /\ i <= m
      BY <2>3, <2>4, <2>6, <2>8
    <3>2. \A i \in 1..c : ~(m < i /\ i <= m)
      BY <2>1
    <3> QED BY <2>6, <2>8, <3>1, <3>2
  <2> QED BY <2>7, <2>8
<1>12. PICK heads, ends : heads = BlockStarts /\ ends = BlockEnds
  OBVIOUS
<1>13. OwedUntil = IF \E i \in 1..Len(readAt) : sending[i].is = "other" THEN NoDeadline
                   ELSE IF ends = {} THEN HeaderWait
                   ELSE IF Open(heads, ends) = {} THEN NoDeadline
                   ELSE StartedAt(Min(Open(heads, ends))) + HeaderWait
  <2> DEFINE P == \E i \in 1..Len(readAt) : sending[i].is = "other"
             Q == IF ends = {} THEN HeaderWait
                  ELSE IF Open(heads, ends) = {} THEN NoDeadline
                  ELSE StartedAt(Min(Open(heads, ends))) + HeaderWait
  <2>1. OwedUntil = CASE P -> NoDeadline [] OTHER -> Q
    BY <1>12, Zenon DEF OwedUntil, Open
  <2> HIDE DEF P, Q
  <2>2. OwedUntil = IF P THEN NoDeadline ELSE Q
    BY <2>1
  <2> QED BY <2>2 DEF P, Q
<1>14. CASE Open(heads, ends) # {}
  <2>1. PICK k : k = Min(Open(heads, ends))
    OBVIOUS
  <2>2. Open(heads, ends) \subseteq Nat
    BY <1>1, <1>8, <1>12 DEF Open, Headed
  <2>3. k \in heads
    BY <1>14, <2>1, <2>2, MinNumber DEF Open
  <2>4. StartedAt(k) = readAt[end[k - 1] + FrameHeaderLen]
    BY <1>8, <1>10, <1>12, <2>3
  <2> QED BY <1>8, <1>9, <1>11, <1>12, <1>13, <1>14, <2>1, <2>4 DEF Owed, OwedBy
<1>15. CASE Open(heads, ends) = {}
  BY <1>8, <1>9, <1>11, <1>12, <1>13, <1>15 DEF Owed, OwedBy
<1> QED BY <1>14, <1>15

----------------------------------------------------------------------------
(* What the next bytes change *)

\* The frames up to the k-th that start a header block, or end one.
HeadsTo(s, k) == {j \in 1..k : s.frames[j].kind = "HEADERS"}
EndsTo(s, k) == {j \in 1..k : EndsHeaders(s.frames[j])}

\* Until when headers are owed after the header of the k-th frame, or the frame.
AfterHeader(s, end, times, k) == OwedBy(HeadsTo(s, k), EndsTo(s, k - 1), end, times)
AfterFrame(s, end, times, k) == OwedBy(HeadsTo(s, k), EndsTo(s, k), end, times)

\* After a bytes of the k-th frame, the earlier frames count, and it does once
\* its header, or it, is read.
LEMMA SetsAt ==
  ASSUME NEW s, NEW end, NEW F, IsFramed(s, end, F), NEW k \in 1..F,
         NEW a \in 0..(FrameHeaderLen + s.frames[k].len), NEW c, c = end[k - 1] + a
  PROVE  /\ Headed(s, end, F, c) = HeadsTo(s, IF a < FrameHeaderLen THEN k - 1 ELSE k)
         /\ Ended(s, end, F, c) =
              EndsTo(s, IF a < FrameHeaderLen + s.frames[k].len THEN k - 1 ELSE k)
<1>1. F \in Nat /\ k - 1 \in 0..F /\ k \in Nat
  BY DEF IsFramed
<1>2. PICK from, len \in Nat : from = end[k - 1] /\ len = s.frames[k].len
  BY <1>1 DEF IsFramed
<1>3. a \in 0..(FrameHeaderLen + len) /\ c = from + a
  BY <1>2
<1>4. ASSUME NEW j \in 1..F
      PROVE  \E x, y, z \in Nat :
               /\ x = end[j - 1] /\ y = end[j] /\ z = s.frames[j].len
               /\ y = x + FrameHeaderLen + z
               /\ j < k => y <= from
               /\ j = k => x = from /\ z = len
               /\ k < j => from + FrameHeaderLen + len <= x
  <2>1. j \in 0..F /\ j - 1 \in 0..F
    BY <1>1
  <2>2. /\ end[j - 1] \in Nat /\ end[j] \in Nat /\ s.frames[j].len \in Nat
        /\ end[j] = end[j - 1] + FrameHeaderLen + s.frames[j].len
        /\ end[k] = from + FrameHeaderLen + len
    BY <1>2, <2>1 DEF IsFramed
  <2>3. j < k => end[j] <= from
    <3> SUFFICES ASSUME j < k PROVE end[j] <= from
      OBVIOUS
    <3>1. k - 1 \in j..F
      BY <1>1, <2>1
    <3> QED BY <1>2, <2>1, <3>1, EndsInOrder
  <2>4. k < j => end[k] <= end[j - 1]
    <3> SUFFICES ASSUME k < j PROVE end[k] <= end[j - 1]
      OBVIOUS
    <3>1. k \in 0..F /\ j - 1 \in k..F
      BY <1>1, <2>1
    <3> QED BY <3>1, EndsInOrder
  <2>5. j = k => end[j - 1] = from /\ s.frames[j].len = len
    BY <1>2
  <2> QED BY <2>2, <2>3, <2>4, <2>5
<1>5. ASSUME NEW j \in 1..F
      PROVE  /\ end[j - 1] + FrameHeaderLen <= c <=> j < k \/ (j = k /\ ~(a < FrameHeaderLen))
             /\ end[j] <= c <=> j < k \/ (j = k /\ ~(a < FrameHeaderLen + len))
  <2>1. PICK x, y, z \in Nat :
          /\ x = end[j - 1] /\ y = end[j] /\ z = s.frames[j].len
          /\ y = x + FrameHeaderLen + z
          /\ j < k => y <= from
          /\ j = k => x = from /\ z = len
          /\ k < j => from + FrameHeaderLen + len <= x
    BY <1>4
  <2>2. /\ y = x + FrameHeaderLen + z
        /\ j < k => y <= from
        /\ j = k => x = from /\ z = len
        /\ k < j => from + FrameHeaderLen + len <= x
    BY <2>1
  <2>3. j \in Nat
    BY <1>1
  <2>4. /\ x + FrameHeaderLen <= c <=> j < k \/ (j = k /\ ~(a < FrameHeaderLen))
        /\ y <= c <=> j < k \/ (j = k /\ ~(a < FrameHeaderLen + len))
    <3>1. CASE j < k
      BY <1>1, <1>3, <2>2, <2>3, <3>1, Lengths
    <3>2. CASE j = k
      BY <1>1, <1>3, <2>2, <2>3, <3>2, Lengths
    <3>3. CASE k < j
      BY <1>1, <1>3, <2>2, <2>3, <3>3, Lengths
    <3> QED BY <1>1, <2>3, <3>1, <3>2, <3>3
  <2> QED BY <2>1, <2>4
<1>6. /\ \A j : j \in 1..k <=> j \in 1..F /\ (j < k \/ j = k)
      /\ \A j : j \in 1..(k - 1) <=> j \in 1..F /\ j < k
  BY <1>1
<1>7. Headed(s, end, F, c) = HeadsTo(s, IF a < FrameHeaderLen THEN k - 1 ELSE k)
  <2>1. CASE a < FrameHeaderLen
    BY <1>5, <1>6, <2>1 DEF Headed, HeadsTo
  <2>2. CASE ~(a < FrameHeaderLen)
    BY <1>5, <1>6, <2>2 DEF Headed, HeadsTo
  <2> QED BY <2>1, <2>2
<1>8. Ended(s, end, F, c) = EndsTo(s, IF a < FrameHeaderLen + len THEN k - 1 ELSE k)
  <2>1. CASE a < FrameHeaderLen + len
    BY <1>5, <1>6, <2>1 DEF Ended, EndsTo
  <2>2. CASE ~(a < FrameHeaderLen + len)
    BY <1>5, <1>6, <2>2 DEF Ended, EndsTo
  <2> QED BY <2>1, <2>2
<1> QED BY <1>2, <1>7, <1>8

\* After the k-th frame: it and the earlier ones.
LEMMA SetsAfter ==
  ASSUME NEW s, NEW end, NEW F, IsFramed(s, end, F), NEW k \in 0..F
  PROVE  Headed(s, end, F, end[k]) = HeadsTo(s, k) /\ Ended(s, end, F, end[k]) = EndsTo(s, k)
<1>1. F \in Nat /\ \A j \in 0..F : end[j] \in Nat
  BY DEF IsFramed
<1>2. CASE k = 0
  <2>1. ASSUME NEW j \in 1..F
        PROVE  ~(end[j - 1] + FrameHeaderLen <= end[0]) /\ ~(end[j] <= end[0])
    <3>1. j \in 0..F /\ j - 1 \in 0..F /\ 0 \in 0..F
      BY <1>1
    <3>2. end[0] <= end[j - 1]
      BY <1>1, <3>1, EndsInOrder
    <3>3. PICK x, y, z \in Nat : x = end[j - 1] /\ y = end[j] /\ z = s.frames[j].len
                                 /\ y = x + FrameHeaderLen + z
      BY <1>1, <3>1 DEF IsFramed
    <3>4. PICK o \in Nat : o = end[0]
      BY <1>1, <3>1
    <3>5. o <= x /\ y = x + FrameHeaderLen + z
      BY <3>2, <3>3, <3>4
    <3>6. ~(x + FrameHeaderLen <= o) /\ ~(y <= o)
      BY <3>5, Lengths
    <3> QED BY <3>3, <3>4, <3>6
  <2>2. 1..0 = {}
    OBVIOUS
  <2> QED BY <1>2, <2>1, <2>2 DEF Headed, Ended, HeadsTo, EndsTo
<1>3. CASE k # 0
  <2>1. k \in 1..F /\ k - 1 \in 0..F
    BY <1>1, <1>3
  <2>2. PICK len \in Nat : len = s.frames[k].len
    BY <2>1 DEF IsFramed
  <2>3. PICK from \in Nat : from = end[k - 1]
    BY <1>1, <2>1
  <2>4. end[k] = from + FrameHeaderLen + len
    BY <2>1, <2>2, <2>3 DEF IsFramed
  <2>5. PICK a : a = FrameHeaderLen + len
    OBVIOUS
  <2>6. a \in 0..(FrameHeaderLen + len) /\ from + FrameHeaderLen + len = from + a /\ ~(a < FrameHeaderLen)
        /\ ~(a < FrameHeaderLen + len)
    BY <2>5, Lengths
  <2>7. end[k] = end[k - 1] + a /\ a \in 0..(FrameHeaderLen + s.frames[k].len)
        /\ ~(a < FrameHeaderLen + s.frames[k].len)
    BY <2>2, <2>3, <2>4, <2>6
  <2> QED BY <2>1, <2>6, <2>7, SetsAt
<1> QED BY <1>2, <1>3

\* Headers are owed from the header of a frame that starts a block on, unless
\* they were owed before.
LEMMA HeaderStarts ==
  ASSUME NEW s, NEW end, NEW times, NEW k \in Nat \ {0},
         \A j \in 1..(k - 1) : times[end[j - 1] + FrameHeaderLen] \in Nat
  PROVE  AfterHeader(s, end, times, k) =
           IF StartsBlock(s.frames[k], AfterFrame(s, end, times, k - 1))
           THEN times[end[k - 1] + FrameHeaderLen] + HeaderWait
           ELSE AfterFrame(s, end, times, k - 1)
<1>1. PICK old, heads, ends :
        old = HeadsTo(s, k - 1) /\ heads = HeadsTo(s, k) /\ ends = EndsTo(s, k - 1)
  OBVIOUS
<1>2. /\ AfterHeader(s, end, times, k) = OwedBy(heads, ends, end, times)
      /\ AfterFrame(s, end, times, k - 1) = OwedBy(old, ends, end, times)
  BY <1>1 DEF AfterHeader, AfterFrame
<1>3. 1..k = (1..(k - 1)) \cup {k} /\ \A j \in 1..(k - 1) : j \in Nat /\ j < k
  OBVIOUS
<1>4. CASE s.frames[k].kind # "HEADERS"
  <2>1. heads = old
    BY <1>1, <1>3, <1>4 DEF HeadsTo
  <2> QED BY <1>2, <1>4, <2>1 DEF StartsBlock
<1>5. CASE s.frames[k].kind = "HEADERS"
  <2>1. heads = old \cup {k} /\ old \subseteq 1..(k - 1) /\ ends \subseteq 1..(k - 1)
    BY <1>1, <1>3, <1>5 DEF HeadsTo, EndsTo
  <2>2. Open(heads, ends) = Open(old, ends) \cup {k}
    BY <1>3, <2>1 DEF Open
  <2>3. Open(old, ends) \subseteq 1..(k - 1) /\ Open(old, ends) \subseteq Nat
    BY <1>3, <2>1 DEF Open
  <2>4. CASE ends = {}
    <3>1. HeaderWait # NoDeadline
      BY Lengths DEF NoDeadline
    <3> QED BY <1>2, <2>4, <3>1 DEF OwedBy, StartsBlock
  <2>5. CASE ends # {} /\ Open(old, ends) = {}
    <3>1. Open(heads, ends) = {k} /\ {k} \subseteq Nat
      BY <2>2, <2>5
    <3>2. Min({k}) = k
      BY <3>1, MinNumber
    <3>3. OwedBy(heads, ends, end, times) = times[end[k - 1] + FrameHeaderLen] + HeaderWait
      BY <2>5, <3>1, <3>2 DEF OwedBy
    <3>4. OwedBy(old, ends, end, times) = NoDeadline
      BY <2>5 DEF OwedBy
    <3> QED BY <1>2, <1>5, <3>3, <3>4 DEF StartsBlock
  <2>6. CASE ends # {} /\ Open(old, ends) # {}
    <3>1. PICK m : m = Min(Open(old, ends))
      OBVIOUS
    <3>2. m \in Open(old, ends) /\ \A j \in Open(old, ends) : m <= j
      BY <2>3, <2>6, <3>1, MinNumber
    <3>3. m \in 1..(k - 1) /\ m < k /\ m \in Nat
      BY <1>3, <2>3, <3>2
    <3>4. PICK w : w = Min(Open(heads, ends))
      OBVIOUS
    <3>5. w \in Open(heads, ends) /\ \A j \in Open(heads, ends) : w <= j
      <4>1. Open(heads, ends) \subseteq Nat /\ Open(heads, ends) # {}
        BY <2>2, <2>3
      <4> QED BY <3>4, <4>1, MinNumber
    <3>6. w <= m /\ w \in Open(old, ends) /\ w \in Nat
      <4>1. w <= m
        BY <2>2, <3>2, <3>5
      <4>2. w # k
        BY <3>3, <4>1
      <4> QED BY <2>2, <2>3, <3>5, <4>1, <4>2
    <3>7. w = m
      BY <3>2, <3>3, <3>6
    <3>8. Open(heads, ends) # {}
      BY <2>2
    <3>9. OwedBy(heads, ends, end, times) = OwedBy(old, ends, end, times)
      BY <2>6, <3>1, <3>4, <3>7, <3>8 DEF OwedBy
    <3>10. OwedBy(old, ends, end, times) # NoDeadline
      <4>1. OwedBy(old, ends, end, times) = times[end[m - 1] + FrameHeaderLen] + HeaderWait
        BY <2>6, <3>1 DEF OwedBy
      <4>2. times[end[m - 1] + FrameHeaderLen] \in Nat
        BY <3>3
      <4> QED BY <4>1, <4>2, Lengths DEF NoDeadline
    <3> QED BY <1>2, <3>9, <3>10 DEF StartsBlock
  <2> QED BY <2>4, <2>5, <2>6
<1> QED BY <1>4, <1>5

\* They are owed until the end of a frame that ends a block.
LEMMA FrameEnds ==
  ASSUME NEW s, NEW end, NEW times, NEW k \in Nat \ {0}
  PROVE  AfterFrame(s, end, times, k) =
           IF EndsHeaders(s.frames[k]) THEN NoDeadline ELSE AfterHeader(s, end, times, k)
<1>1. PICK heads, old, ends :
        heads = HeadsTo(s, k) /\ old = EndsTo(s, k - 1) /\ ends = EndsTo(s, k)
  OBVIOUS
<1>2. /\ AfterHeader(s, end, times, k) = OwedBy(heads, old, end, times)
      /\ AfterFrame(s, end, times, k) = OwedBy(heads, ends, end, times)
  BY <1>1 DEF AfterHeader, AfterFrame
<1>3. 1..k = (1..(k - 1)) \cup {k} /\ \A j \in 1..k : j \in Nat /\ ~(k < j)
  OBVIOUS
<1>4. CASE ~EndsHeaders(s.frames[k])
  <2>1. ends = old
    BY <1>1, <1>3, <1>4 DEF EndsTo
  <2> QED BY <1>2, <1>4, <2>1
<1>5. CASE EndsHeaders(s.frames[k])
  <2>1. k \in ends /\ heads \subseteq 1..k
    BY <1>1, <1>3, <1>5 DEF EndsTo, HeadsTo
  <2>2. Open(heads, ends) = {}
    BY <1>3, <2>1 DEF Open
  <2>3. OwedBy(heads, ends, end, times) = NoDeadline
    BY <2>1, <2>2 DEF OwedBy
  <2> QED BY <1>2, <1>5, <2>3
<1> QED BY <1>4, <1>5

\* What is owed once a frame is read.
LEMMA OwedAfter ==
  ASSUME NEW s, NEW end, NEW F, IsFramed(s, end, F), s.matching = PrefaceLen, NEW times,
         NEW k \in 0..F
  PROVE  Owed(s, end, F, end[k], times) = AfterFrame(s, end, times, k)
<1>1. ~(s.matching < PrefaceLen)
  BY Lengths
<1> QED BY <1>1, SetsAfter DEF Owed, AfterFrame

\* What is owed while it is.
OwedOf(s, end, times, k, a) ==
  IF a < FrameHeaderLen THEN AfterFrame(s, end, times, k - 1)
  ELSE IF a < FrameHeaderLen + s.frames[k].len THEN AfterHeader(s, end, times, k)
  ELSE AfterFrame(s, end, times, k)

LEMMA OwedIn ==
  ASSUME NEW s, NEW end, NEW F, IsFramed(s, end, F), s.matching = PrefaceLen, NEW times,
         NEW k \in 1..F, NEW a \in 0..(FrameHeaderLen + s.frames[k].len),
         NEW c, c = end[k - 1] + a
  PROVE  Owed(s, end, F, c, times) = OwedOf(s, end, times, k, a)
<1>1. ~(s.matching < PrefaceLen)
  BY Lengths
<1>2. /\ Headed(s, end, F, c) = HeadsTo(s, IF a < FrameHeaderLen THEN k - 1 ELSE k)
      /\ Ended(s, end, F, c) =
            EndsTo(s, IF a < FrameHeaderLen + s.frames[k].len THEN k - 1 ELSE k)
  BY SetsAt
<1>3. PICK len \in Nat : len = s.frames[k].len
  BY DEF IsFramed
<1>4. a < FrameHeaderLen => a < FrameHeaderLen + len
  <2>1. a \in Nat
    BY <1>3
  <2> QED BY <2>1, Lengths
<1>5. PICK t : t = FrameHeaderLen + len
  OBVIOUS
<1>6. Owed(s, end, F, c, times) =
        OwedBy(HeadsTo(s, IF a < FrameHeaderLen THEN k - 1 ELSE k),
               EndsTo(s, IF a < t THEN k - 1 ELSE k), end, times)
  BY <1>1, <1>2, <1>3, <1>5 DEF Owed
<1>7. Owed(s, end, F, c, times) = IF a < FrameHeaderLen THEN AfterFrame(s, end, times, k - 1)
              ELSE IF a < t THEN AfterHeader(s, end, times, k)
              ELSE AfterFrame(s, end, times, k)
  <2>1. CASE a < FrameHeaderLen
    BY <1>4, <1>5, <1>6, <2>1 DEF AfterFrame
  <2>2. CASE ~(a < FrameHeaderLen) /\ a < t
    BY <1>6, <2>2 DEF AfterHeader
  <2>3. CASE ~(a < FrameHeaderLen) /\ ~(a < t)
    BY <1>6, <2>3 DEF AfterFrame
  <2> QED BY <2>1, <2>2, <2>3
<1> QED BY <1>3, <1>5, <1>7 DEF OwedOf

\* Nothing ends before the preface is over.
LEMMA OwedAtFirst ==
  ASSUME NEW s, NEW end, NEW F, IsFramed(s, end, F), NEW c \in Nat, c <= s.matching, NEW times
  PROVE  Owed(s, end, F, c, times) = HeaderWait
<1>1. s.matching \in Nat /\ s.matching <= OpeningLen(s) /\ end[0] = OpeningLen(s) /\ F \in Nat
      /\ \A k \in 0..F : end[k] \in Nat
  <2>1. s.matching \in 0..PrefaceLen /\ PrefaceLen \in Nat
    BY Lengths DEF IsFramed
  <2> QED BY <2>1 DEF IsFramed, OpeningLen
<1>2. ~(s.matching < c)
  BY <1>1
<1>3. ASSUME NEW k \in 1..F PROVE ~(end[k] <= c)
  <2>1. k \in 0..F /\ k - 1 \in 0..F /\ 0 \in 0..F
    BY <1>1
  <2>2. end[0] <= end[k - 1]
    BY <1>1, <2>1, EndsInOrder
  <2>3. PICK x, y, z \in Nat : x = end[k - 1] /\ y = end[k] /\ z = s.frames[k].len
                               /\ y = x + FrameHeaderLen + z
    BY <1>1, <2>1 DEF IsFramed
  <2>4. PICK o, m \in Nat : o = end[0] /\ m = s.matching /\ m <= o
    BY <1>1, <2>1
  <2>5. o <= x /\ y = x + FrameHeaderLen + z /\ m <= o /\ c <= m
    BY <2>2, <2>3, <2>4
  <2>6. ~(y <= c)
    BY <2>5, Lengths
  <2> QED BY <2>3, <2>6
<1>4. Ended(s, end, F, c) = {}
  BY <1>3 DEF Ended
<1> QED BY <1>2, <1>4 DEF Owed, OwedBy

\* It is told by when the bytes up to there were read.
LEMMA OwedByTimes ==
  ASSUME NEW s, NEW end, NEW F, IsFramed(s, end, F), NEW c \in Nat, NEW times, NEW later,
         \A i \in 1..c : times[i] = later[i]
  PROVE  Owed(s, end, F, c, times) = Owed(s, end, F, c, later)
<1>1. PICK heads, ends : heads = Headed(s, end, F, c) /\ ends = Ended(s, end, F, c)
  OBVIOUS
<1>2. OwedBy(heads, ends, end, times) = OwedBy(heads, ends, end, later)
  <2>1. CASE Open(heads, ends) = {}
    BY <2>1 DEF OwedBy
  <2>2. CASE Open(heads, ends) # {}
    <3>1. PICK k : k = Min(Open(heads, ends))
      OBVIOUS
    <3>2. F \in Nat
      BY DEF IsFramed
    <3>3. Open(heads, ends) \subseteq heads /\ heads \subseteq 1..F /\ Open(heads, ends) \subseteq Nat
      BY <1>1, <3>2 DEF Open, Headed
    <3>4. k \in heads
      BY <2>2, <3>1, <3>3, MinNumber
    <3>5. k \in 1..F /\ k - 1 \in 0..F /\ end[k - 1] + FrameHeaderLen <= c
      BY <1>1, <3>2, <3>4 DEF Headed
    <3>6. PICK x \in Nat : x = end[k - 1]
      BY <3>5 DEF IsFramed
    <3>7. x + FrameHeaderLen <= c => x + FrameHeaderLen \in 1..c
      BY Lengths
    <3>8. times[end[k - 1] + FrameHeaderLen] = later[end[k - 1] + FrameHeaderLen]
      BY <3>5, <3>6, <3>7
    <3> QED BY <2>2, <3>1, <3>8 DEF OwedBy
  <2> QED BY <2>1, <2>2
<1> QED BY <1>1, <1>2 DEF Owed

\* It is a time, or none.
LEMMA OwedType ==
  ASSUME NEW s, NEW end, NEW F, IsFramed(s, end, F), NEW c \in Nat, NEW times,
         \A i \in 1..c : times[i] \in Nat
  PROVE  Owed(s, end, F, c, times) \in Int
<1>1. PICK heads, ends : heads = Headed(s, end, F, c) /\ ends = Ended(s, end, F, c)
  OBVIOUS
<1>2. OwedBy(heads, ends, end, times) \in Int
  <2>1. CASE Open(heads, ends) = {}
    BY <2>1, Lengths DEF OwedBy, NoDeadline
  <2>2. CASE Open(heads, ends) # {}
    <3>1. PICK k : k = Min(Open(heads, ends))
      OBVIOUS
    <3>2. F \in Nat
      BY DEF IsFramed
    <3>3. Open(heads, ends) \subseteq heads /\ heads \subseteq 1..F /\ Open(heads, ends) \subseteq Nat
      BY <1>1, <3>2 DEF Open, Headed
    <3>4. k \in heads
      BY <2>2, <3>1, <3>3, MinNumber
    <3>5. k \in 1..F /\ k - 1 \in 0..F /\ end[k - 1] + FrameHeaderLen <= c
      BY <1>1, <3>2, <3>4 DEF Headed
    <3>6. PICK x \in Nat : x = end[k - 1]
      BY <3>5 DEF IsFramed
    <3>7. x + FrameHeaderLen <= c => x + FrameHeaderLen \in 1..c
      BY Lengths
    <3>8. times[end[k - 1] + FrameHeaderLen] \in Nat
      BY <3>5, <3>6, <3>7
    <3>9. OwedBy(heads, ends, end, times) =
            IF ends = {} THEN HeaderWait ELSE times[end[k - 1] + FrameHeaderLen] + HeaderWait
      BY <2>2, <3>1 DEF OwedBy
    <3> QED BY <3>8, <3>9, Lengths
  <2> QED BY <2>1, <2>2
<1>3. NoDeadline \in Int
  BY DEF NoDeadline
<1> QED BY <1>1, <1>2, <1>3 DEF Owed

----------------------------------------------------------------------------
(* The turns follow the bytes *)

\* What is left of a read of which some bytes are taken.
IsRest(r, b, c, C) ==
  /\ Len(r) = C - c
  /\ \A i \in 1..(C - c) : r[i] = b[c + i]
  /\ \A l \in 0..(C - c) : SubSeq(r, l + 1, Len(r)) = SubSeq(b, c + l + 1, C)
  /\ r = <<>> <=> c = C

LEMMA RestIs ==
  ASSUME NEW b, b \in Seq(Range(b)), NEW c \in Nat, NEW C \in Nat, c <= C, C <= Len(b),
         NEW r, r = SubSeq(b, c + 1, C)
  PROVE  IsRest(r, b, c, C)
<1>1. \A i \in (c + 1)..C : b[i] \in Range(b)
  BY DEF Range
<1>2. r \in Seq(Range(b)) /\ Len(r) = C - c /\ \A i \in 1..(C - c) : r[i] = b[c + i]
  <2>1. /\ SubSeq(b, c + 1, C) \in Seq(Range(b))
        /\ Len(SubSeq(b, c + 1, C)) = IF c + 1 <= C THEN C - (c + 1) + 1 ELSE 0
        /\ \A i \in 1..(C - (c + 1) + 1) : SubSeq(b, c + 1, C)[i] = b[c + 1 + i - 1]
    BY <1>1, SubSeqProperties
  <2>2. (IF c + 1 <= C THEN C - (c + 1) + 1 ELSE 0) = C - c
    OBVIOUS
  <2>3. \A i \in 1..(C - c) : r[i] = b[c + 1 + i - 1] /\ c + 1 + i - 1 = c + i
    BY <2>1
  <2> QED BY <2>1, <2>2, <2>3
<1>3. ASSUME NEW l \in 0..(C - c)
      PROVE  SubSeq(r, l + 1, Len(r)) = SubSeq(b, c + l + 1, C)
  <2>1. PICK m \in Nat : m = C - c
    OBVIOUS
  <2>2. l \in Nat /\ l <= m /\ C = c + m
    BY <2>1
  <2>3. PICK x, y : x = SubSeq(r, l + 1, m) /\ y = SubSeq(b, c + l + 1, C)
    OBVIOUS
  <2>4. \A i \in (l + 1)..m : r[i] \in Range(b)
    BY <1>1, <1>2, <2>1, <2>2
  <2>5. x \in Seq(Range(b)) /\ Len(x) = m - l /\ \A i \in 1..(m - l) : x[i] = r[l + i]
    <3>1. /\ x \in Seq(Range(b))
          /\ Len(x) = IF l + 1 <= m THEN m - (l + 1) + 1 ELSE 0
          /\ \A i \in 1..(m - (l + 1) + 1) : x[i] = r[l + 1 + i - 1]
      BY <2>2, <2>3, <2>4, SubSeqProperties
    <3>2. (IF l + 1 <= m THEN m - (l + 1) + 1 ELSE 0) = m - l
      BY <2>2
    <3>3. \A i \in 1..(m - l) : x[i] = r[l + 1 + i - 1] /\ l + 1 + i - 1 = l + i
      BY <2>2, <3>1
    <3> QED BY <3>1, <3>2, <3>3
  <2>6. y \in Seq(Range(b)) /\ Len(y) = m - l /\ \A i \in 1..(m - l) : y[i] = b[c + l + i]
    <3>0. \A i \in (c + l + 1)..C : b[i] \in Range(b)
      BY <1>1, <2>2
    <3>1. /\ y \in Seq(Range(b))
          /\ Len(y) = IF c + l + 1 <= C THEN C - (c + l + 1) + 1 ELSE 0
          /\ \A i \in 1..(C - (c + l + 1) + 1) : y[i] = b[c + l + 1 + i - 1]
      <4>1. PICK v \in Int : v = c + l + 1
        BY <2>2
      <4>2. /\ SubSeq(b, v, C) \in Seq(Range(b))
            /\ Len(SubSeq(b, v, C)) = IF v <= C THEN C - v + 1 ELSE 0
            /\ \A i \in 1..(C - v + 1) : SubSeq(b, v, C)[i] = b[v + i - 1]
        BY <3>0, <4>1, SubSeqProperties
      <4> QED BY <2>3, <4>1, <4>2
    <3>2. (IF c + l + 1 <= C THEN C - (c + l + 1) + 1 ELSE 0) = m - l
      BY <2>2
    <3>3. \A i \in 1..(m - l) : y[i] = b[c + l + 1 + i - 1] /\ c + l + 1 + i - 1 = c + l + i
      BY <2>2, <3>1
    <3> QED BY <3>1, <3>2, <3>3
  <2>7. \A i \in 1..(m - l) : r[l + i] = b[c + l + i]
    <3>1. \A i \in 1..(m - l) : l + i \in 1..m /\ c + (l + i) = c + l + i
      BY <2>2
    <3> QED BY <1>2, <2>1, <3>1
  <2>8. \A i \in 1..Len(x) : x[i] = y[i]
    BY <2>5, <2>6, <2>7
  <2>9. x = y
    BY <2>5, <2>6, <2>8, SeqEqual
  <2> QED BY <1>2, <2>1, <2>3, <2>9
<1>4. r = <<>> <=> c = C
  <2>1. r = <<>> <=> Len(r) = 0
    BY <1>2
  <2> QED BY <1>2, <2>1
<1> QED BY <1>2, <1>3, <1>4 DEF IsRest

\* The protocol after c bytes.
AtPreface(p, s, c) ==
  p.is = "unknown" /\ p.matched = c /\ c <= s.matching /\ c < PrefaceLen /\ p.headerLen = 0

AtOther(p, s, c) == p.is = "http1" /\ s.matching < PrefaceLen /\ s.matching < c

BetweenFrames(p, end, F, c) == p.headerLen = 0 /\ \E k \in 0..F : c = end[k]

InHeader(p, end, c, k, a) == c = end[k - 1] + a /\ a < FrameHeaderLen /\ p.headerLen = a

InPayload(p, s, end, c, k, a) ==
  /\ c = end[k - 1] + a /\ FrameHeaderLen <= a /\ a < FrameHeaderLen + s.frames[k].len
  /\ p.headerLen = FrameHeaderLen /\ p.payloadLeft = FrameHeaderLen + s.frames[k].len - a
  /\ p.endsHeaders = EndsHeaders(s.frames[k])

AtFrames(p, s, end, F, c) ==
  /\ p.is = "http2" /\ s.matching = PrefaceLen
  /\ \/ BetweenFrames(p, end, F, c)
     \/ \E k \in 1..F : \E a \in Nat : InHeader(p, end, c, k, a) \/ InPayload(p, s, end, c, k, a)

ProtocolFields == {"is", "matched", "headerLen", "payloadLeft", "endsHeaders"}

\* The protocol and the deadline are those of c bytes.
Follows(p, until, s, end, F, c, times) ==
  /\ DOMAIN p = ProtocolFields
  /\ until = Owed(s, end, F, c, times)
  /\ AtPreface(p, s, c) \/ AtOther(p, s, c) \/ AtFrames(p, s, end, F, c)

\* A read now of the bytes from the c0-th to the C-th.
Reads(b, s, end, F, c0, C, times, now) ==
  /\ IsFramed(s, end, F) /\ AreBytes(b, s, end, F)
  /\ c0 \in Nat /\ C \in Nat /\ C <= end[F] /\ now \in Nat
  /\ \A i \in 1..C : times[i] \in Nat
  /\ \A i \in (c0 + 1)..C : times[i] = now

\* A turn took the bytes from the c-th to the e-th.
Turned(t, b, s, end, F, c, e, C, times) ==
  /\ e \in Nat /\ c <= e /\ e <= C
  /\ t.rest = SubSeq(b, e + 1, C)
  /\ Follows(t.protocol, t.deadline, s, end, F, e, times)

\* Reading a payload follows the bytes it takes, to the end of the frame or the read.
LEMMA PayloadFollows ==
  ASSUME NEW b, NEW s, NEW end, NEW F, NEW c0, NEW C, NEW times, NEW now,
         Reads(b, s, end, F, c0, C, times, now), s.matching = PrefaceLen,
         NEW p, DOMAIN p = ProtocolFields, p.is = "http2", p.headerLen = FrameHeaderLen,
         NEW k \in 1..F, NEW a \in FrameHeaderLen..(FrameHeaderLen + s.frames[k].len),
         p.payloadLeft = FrameHeaderLen + s.frames[k].len - a,
         p.endsHeaders = EndsHeaders(s.frames[k]),
         NEW c \in Nat, c = end[k - 1] + a, c <= C,
         NEW until, until = AfterHeader(s, end, times, k)
  PROVE  \E e : /\ Turned(ReadPayload(p, until, SubSeq(b, c + 1, C)), b, s, end, F, c, e, C, times)
                /\ a < FrameHeaderLen + s.frames[k].len /\ c < C => c < e
<1>1. PICK r : r = SubSeq(b, c + 1, C)
  OBVIOUS
<1>2. IsFramed(s, end, F) /\ b \in Seq(Range(b)) /\ Len(b) = end[F] /\ C \in Nat /\ C <= Len(b)
  BY DEF Reads, AreBytes
<1>3. F \in Nat /\ k \in 0..F /\ k - 1 \in 0..F /\ k \in Nat \ {0}
  BY <1>2 DEF IsFramed
<1>4. PICK from, size \in Nat : from = end[k - 1] /\ size = s.frames[k].len
  BY <1>2, <1>3 DEF IsFramed
<1>5. end[k] = from + FrameHeaderLen + size
  BY <1>2, <1>4 DEF IsFramed
<1>6. PICK left \in Nat : left = FrameHeaderLen + size - a
  BY <1>4, Lengths
<1>7. a \in Nat /\ FrameHeaderLen <= a /\ a + left = FrameHeaderLen + size /\ c = from + a
  BY <1>4, <1>6, Lengths
<1>8. PICK m \in Nat : m = C - c /\ C = c + m
  BY <1>2
<1>9. /\ Len(r) = m
      /\ \A l \in 0..m : SubSeq(r, l + 1, Len(r)) = SubSeq(b, c + l + 1, C)
  <2>1. /\ Len(r) = C - c
        /\ \A l \in 0..(C - c) : SubSeq(r, l + 1, Len(r)) = SubSeq(b, c + l + 1, C)
    <3>1. IsRest(r, b, c, C)
      BY <1>1, <1>2, RestIs
    <3> QED BY <3>1 DEF IsRest
  <2> QED BY <1>8, <2>1
<1>10. PICK len : len = Min({m, left})
  OBVIOUS
<1>11. len = IF m <= left THEN m ELSE left
  BY <1>10, MinOfTwo
<1>12. len \in Nat /\ len <= m /\ len <= left /\ (len # left => len = m)
  BY <1>11
<1>13. PICK t : t = ReadPayload(p, until, r)
  OBVIOUS
<1>14. p.payloadLeft = left
  BY <1>4, <1>6
<1>15. /\ t.protocol = [p EXCEPT !.payloadLeft = @ - len,
                                 !.headerLen = IF len = left THEN 0 ELSE @]
       /\ t.deadline = (IF len = left /\ p.endsHeaders THEN NoDeadline ELSE until)
       /\ t.rest = SubSeq(r, len + 1, Len(r))
  <2>1. t = [protocol |-> [p EXCEPT !.payloadLeft = @ - len,
                                    !.headerLen = IF len = left THEN 0 ELSE @],
             deadline |-> IF len = left /\ p.endsHeaders THEN NoDeadline ELSE until,
             rest |-> SubSeq(r, len + 1, Len(r))]
    BY <1>9, <1>10, <1>13, <1>14, Zenon DEF ReadPayload
  <2> QED BY <2>1
<1>16. PICK q : q = t.protocol
  OBVIOUS
<1>17. /\ DOMAIN q = ProtocolFields /\ q.is = "http2" /\ q.payloadLeft = left - len
       /\ q.endsHeaders = p.endsHeaders
       /\ q.headerLen = (IF len = left THEN 0 ELSE FrameHeaderLen)
  <2>1. q = [p EXCEPT !.payloadLeft = left - len,
                      !.headerLen = IF len = left THEN 0 ELSE FrameHeaderLen]
    BY <1>14, <1>15, <1>16
  <2> QED BY <2>1 DEF ProtocolFields
<1>18. PICK e : e = c + len
  OBVIOUS
<1>19. e \in Nat /\ c <= e /\ e <= C /\ len \in 0..m /\ c + len + 1 = e + 1
  BY <1>8, <1>12, <1>18
<1>20. t.rest = SubSeq(b, e + 1, C)
  BY <1>9, <1>15, <1>19
<1>21. CASE len = left
  <2>1. e = end[k]
    BY <1>5, <1>7, <1>18, <1>21, Lengths
  <2>2. BetweenFrames(q, end, F, e)
    BY <1>3, <1>17, <1>21, <2>1 DEF BetweenFrames
  <2>3. AtFrames(q, s, end, F, e)
    BY <1>17, <2>2 DEF AtFrames
  <2>4. AfterFrame(s, end, times, k) =
           IF EndsHeaders(s.frames[k]) THEN NoDeadline ELSE AfterHeader(s, end, times, k)
    BY <1>3, FrameEnds
  <2>5. t.deadline = AfterFrame(s, end, times, k)
    BY <1>15, <1>21, <2>4
  <2>6. t.deadline = Owed(s, end, F, e, times)
    BY <1>2, <1>3, <2>1, <2>5, OwedAfter
  <2>7. Follows(q, t.deadline, s, end, F, e, times)
    BY <1>17, <2>3, <2>6 DEF Follows
  <2>8. a < FrameHeaderLen + size /\ c < C => c < e
    <3>1. a < FrameHeaderLen + size => 0 < left
      BY <1>7, Lengths
    <3> QED BY <1>18, <1>21, <3>1
  <2> QED BY <1>1, <1>4, <1>13, <1>16, <1>19, <1>20, <2>7, <2>8 DEF Turned
<1>22. CASE len # left
  <2>1. len = m /\ e = C /\ e = from + (a + len) /\ len < left
    BY <1>7, <1>8, <1>12, <1>18, <1>22, Lengths
  <2>2. PICK x \in Nat : x = a + len
    BY <1>7, <1>12
  <2>3. /\ FrameHeaderLen <= x /\ x < FrameHeaderLen + size /\ left - len = FrameHeaderLen + size - x
        /\ x \in 0..(FrameHeaderLen + size) /\ ~(x < FrameHeaderLen)
    BY <1>7, <1>12, <2>1, <2>2, Lengths
  <2>4. InPayload(q, s, end, e, k, x)
    BY <1>4, <1>17, <1>22, <2>1, <2>2, <2>3 DEF InPayload
  <2>5. AtFrames(q, s, end, F, e)
    BY <1>17, <2>4 DEF AtFrames
  <2>6. t.deadline = AfterHeader(s, end, times, k)
    BY <1>15, <1>22
  <2>7. Owed(s, end, F, end[k - 1] + x, times) = AfterHeader(s, end, times, k)
    <3>1. x \in 0..(FrameHeaderLen + s.frames[k].len) /\ x < FrameHeaderLen + s.frames[k].len
          /\ ~(x < FrameHeaderLen)
      BY <1>4, <2>3
    <3>2. Owed(s, end, F, end[k - 1] + x, times) = OwedOf(s, end, times, k, x)
      BY <1>2, <3>1, OwedIn
    <3> QED BY <3>1, <3>2 DEF OwedOf
  <2>8. Follows(q, t.deadline, s, end, F, e, times)
    <3>1. e = end[k - 1] + x
      BY <1>4, <2>1, <2>2
    <3> QED BY <1>17, <2>5, <2>6, <2>7, <3>1 DEF Follows
  <2>9. c < C => c < e
    BY <2>1
  <2> QED BY <1>1, <1>13, <1>16, <1>19, <1>20, <2>8, <2>9 DEF Turned
<1> QED BY <1>21, <1>22

\* So does reading a frame header, and the payload once the header is whole.
LEMMA HeaderFollows ==
  ASSUME NEW b, NEW s, NEW end, NEW F, NEW c0 \in Nat, NEW C, NEW times,
         Reads(b, s, end, F, c0, C, times, second), s.matching = PrefaceLen,
         NEW p, DOMAIN p = ProtocolFields, p.is = "http2",
         NEW k \in 1..F, NEW a \in Nat, a < FrameHeaderLen, p.headerLen = a,
         NEW c \in Nat, c = end[k - 1] + a, c0 <= c, c < C,
         NEW until, until = AfterFrame(s, end, times, k - 1)
  PROVE  \E e : /\ Turned(ReadHeader(p, until, SubSeq(b, c + 1, C)), b, s, end, F, c, e, C, times)
                /\ c < e
<1>1. PICK r : r = SubSeq(b, c + 1, C)
  OBVIOUS
<1>2. IsFramed(s, end, F) /\ AreBytes(b, s, end, F) /\ b \in Seq(Range(b)) /\ Len(b) = end[F]
      /\ C \in Nat /\ C <= Len(b)
  <2>1. IsFramed(s, end, F) /\ AreBytes(b, s, end, F) /\ C \in Nat /\ C <= end[F]
    BY Zenon DEF Reads
  <2>2. b \in Seq(Range(b)) /\ Len(b) = end[F]
    BY <2>1 DEF AreBytes
  <2> QED BY <2>1, <2>2
<1>3. F \in Nat /\ k \in 0..F /\ k - 1 \in 0..F /\ k \in Nat \ {0}
  BY <1>2 DEF IsFramed
<1>4. PICK from, size \in Nat : from = end[k - 1] /\ size = s.frames[k].len
  BY <1>2, <1>3 DEF IsFramed
<1>5. end[k] = from + FrameHeaderLen + size /\ c = from + a
  BY <1>2, <1>4 DEF IsFramed
<1>6. PICK left \in Nat : left = FrameHeaderLen - a /\ FrameHeaderLen = a + left /\ 0 < left
  BY Lengths
<1>7. PICK m \in Nat : m = C - c /\ C = c + m /\ 0 < m
  BY <1>2
<1>8. /\ Len(r) = m
      /\ \A i \in 1..m : r[i] = b[c + i]
      /\ \A l \in 0..m : SubSeq(r, l + 1, Len(r)) = SubSeq(b, c + l + 1, C)
  <2>0. c <= C
    BY <1>7
  <2>1. /\ Len(r) = C - c
        /\ \A i \in 1..(C - c) : r[i] = b[c + i]
        /\ \A l \in 0..(C - c) : SubSeq(r, l + 1, Len(r)) = SubSeq(b, c + l + 1, C)
    <3>1. IsRest(r, b, c, C)
      BY <1>1, <1>2, <2>0, RestIs
    <3> QED BY <3>1 DEF IsRest
  <2> QED BY <1>7, <2>1
<1>9. PICK len : len = Min({m, left})
  OBVIOUS
<1>10. len = IF m <= left THEN m ELSE left
  BY <1>9, MinOfTwo
<1>11. len \in Nat /\ len <= m /\ len <= left /\ 0 < len /\ (len # left => len = m)
  BY <1>6, <1>7, <1>10
<1>12. PICK t : t = ReadHeader(p, until, r)
  OBVIOUS
<1>13. PICK frame : frame = r[len].frame
  OBVIOUS
<1>14. PICK full : full = [p EXCEPT !.headerLen = FrameHeaderLen, !.payloadLeft = frame.len,
                                    !.endsHeaders = EndsHeaders(frame)]
  OBVIOUS
<1>15. PICK next : next = IF StartsBlock(frame, until) THEN second + HeaderWait ELSE until
  OBVIOUS
<1>16. t = IF a + len < FrameHeaderLen
           THEN [protocol |-> [p EXCEPT !.headerLen = @ + len], deadline |-> until, rest |-> <<>>]
           ELSE ReadPayload(full, next, SubSeq(r, len + 1, Len(r)))
  BY <1>6, <1>8, <1>9, <1>12, <1>13, <1>14, <1>15, Zenon DEF ReadHeader
<1>17. CASE len # left
  <2>1. len = m /\ a + len < FrameHeaderLen /\ C = from + (a + len)
    BY <1>5, <1>6, <1>7, <1>11, <1>17
  <2>2. PICK x \in Nat : x = a + len
    BY <1>11
  <2>3. PICK q : q = [p EXCEPT !.headerLen = x]
    OBVIOUS
  <2>4. t.protocol = q /\ t.deadline = until /\ t.rest = <<>>
    <3>1. t = [protocol |-> [p EXCEPT !.headerLen = @ + len], deadline |-> until, rest |-> <<>>]
      BY <1>16, <2>1
    <3>2. [p EXCEPT !.headerLen = @ + len] = q
      BY <2>2, <2>3
    <3> QED BY <3>1, <3>2
  <2>5. DOMAIN q = ProtocolFields /\ q.is = "http2" /\ q.headerLen = x
    BY <2>3 DEF ProtocolFields
  <2>6. C = end[k - 1] + x /\ x < FrameHeaderLen
    BY <1>4, <2>1, <2>2
  <2>7. AtFrames(q, s, end, F, C)
    <3>1. InHeader(q, end, C, k, x)
      BY <2>5, <2>6 DEF InHeader
    <3> QED BY <2>2, <2>5, <3>1 DEF AtFrames
  <2>8. x \in 0..(FrameHeaderLen + s.frames[k].len)
    <3>1. x \in 0..(FrameHeaderLen + size)
      BY <2>2, <2>6, Lengths
    <3> QED BY <1>4, <3>1
  <2>9. Owed(s, end, F, C, times) = AfterFrame(s, end, times, k - 1)
    <3>1. Owed(s, end, F, C, times) = OwedOf(s, end, times, k, x)
      <4>1. IsFramed(s, end, F)
        BY <1>2
      <4>2. C = end[k - 1] + x
        BY <2>6
      <4> QED BY <2>8, <4>1, <4>2, OwedIn
    <3> QED BY <2>6, <3>1 DEF OwedOf
  <2>10. Follows(q, until, s, end, F, C, times)
    BY <2>5, <2>7, <2>9 DEF Follows
  <2>11. SubSeq(b, C + 1, C) = <<>>
    BY <1>2, SubSeqEmpty
  <2>12. C \in Nat /\ c <= C /\ C <= C /\ c < C
    <3>1. C \in Nat
      BY <1>2
    <3> QED BY <3>1
  <2> QED BY <1>1, <1>12, <2>4, <2>10, <2>11, <2>12 DEF Turned
<1>18. CASE len = left
  <2>1. ~(a + len < FrameHeaderLen) /\ a + len = FrameHeaderLen
    BY <1>6, <1>18, Lengths
  <2>2. PICK d \in Nat : d = c + len /\ d = from + FrameHeaderLen /\ c < d /\ d <= C /\ c0 < d
    BY <1>5, <1>6, <1>7, <1>11, <1>18, Lengths
  <2>3. d \in 1..end[F] /\ end[k - 1] < d /\ d <= end[k] /\ d \in (c0 + 1)..C /\ d \in Nat
    <3>1. PICK n \in Nat : n = end[F] /\ C <= n
      <4>1. IsFramed(s, end, F) /\ F \in 0..F
        BY <1>2, <1>3
      <4>2. end[F] \in Nat
        BY <4>1 DEF IsFramed
      <4>3. C <= end[F]
        BY <1>2
      <4> QED BY <4>2, <4>3
    <3>2. d \in 1..n /\ from < d /\ d <= from + FrameHeaderLen + size /\ d \in (c0 + 1)..C
      BY <1>2, <2>2, <3>1, Lengths
    <3>3. from = end[k - 1] /\ end[k] = from + FrameHeaderLen + size
      BY <1>4, <1>5
    <3>4. d \in 1..end[F]
      BY <3>1, <3>2
    <3>5. end[k - 1] < d /\ d <= end[k]
      BY <3>2, <3>3
    <3> QED BY <2>2, <3>2, <3>4, <3>5
  <2>4. r[len] = b[d]
    <3>1. len \in 1..m
      BY <1>11
    <3> QED BY <1>8, <2>2, <3>1
  <2>5. b[d] = FrameByte(s, k, d - end[k - 1])
    BY <1>2, <2>3 DEF AreBytes
  <2>6. frame = s.frames[k]
    BY <1>13, <2>4, <2>5 DEF FrameByte
  <2>7. /\ DOMAIN full = ProtocolFields /\ full.is = "http2" /\ full.headerLen = FrameHeaderLen
        /\ full.payloadLeft = size /\ full.endsHeaders = EndsHeaders(s.frames[k])
    <3>1. full = [p EXCEPT !.headerLen = FrameHeaderLen, !.payloadLeft = size,
                           !.endsHeaders = EndsHeaders(s.frames[k])]
      BY <1>4, <1>14, <2>6
    <3> QED BY <3>1 DEF ProtocolFields
  <2>8. times[end[k - 1] + FrameHeaderLen] = second
    <3>1. times[d] = second
      BY <2>3 DEF Reads
    <3> QED BY <1>4, <2>2, <3>1
  <2>9. \A j \in 1..(k - 1) : times[end[j - 1] + FrameHeaderLen] \in Nat
    <3> SUFFICES ASSUME NEW j \in 1..(k - 1) PROVE times[end[j - 1] + FrameHeaderLen] \in Nat
      OBVIOUS
    <3>1. j \in 0..F /\ j - 1 \in 0..F /\ j \in 1..F /\ k - 1 \in j..F
      BY <1>3
    <3>2. end[j] <= end[k - 1]
      BY <1>2, <3>1, EndsInOrder
    <3>3. PICK x, y, z \in Nat : x = end[j - 1] /\ y = end[j] /\ z = s.frames[j].len
                                 /\ y = x + FrameHeaderLen + z
      <4>1. IsFramed(s, end, F)
        BY <1>2
      <4>2. /\ end[j - 1] \in Nat /\ end[j] \in Nat /\ s.frames[j].len \in Nat
            /\ end[j] = end[j - 1] + FrameHeaderLen + s.frames[j].len
        BY <3>1, <4>1, FrameIs
      <4> QED BY <4>2
    <3>4. y <= from /\ y = x + FrameHeaderLen + z
      BY <1>4, <3>2, <3>3
    <3>5. x + FrameHeaderLen \in 1..C
      BY <1>2, <2>2, <3>4, Lengths
    <3> QED BY <3>3, <3>5 DEF Reads
  <2>10. next = AfterHeader(s, end, times, k)
    <3>1. AfterHeader(s, end, times, k) =
            IF StartsBlock(s.frames[k], AfterFrame(s, end, times, k - 1))
            THEN times[end[k - 1] + FrameHeaderLen] + HeaderWait
            ELSE AfterFrame(s, end, times, k - 1)
      BY <1>3, <2>9, HeaderStarts
    <3> QED BY <1>15, <2>6, <2>8, <3>1
  <2>11. SubSeq(r, len + 1, Len(r)) = SubSeq(b, d + 1, C)
    <3>1. len \in 0..m /\ c + len + 1 = d + 1
      BY <1>11, <2>2
    <3> QED BY <1>8, <3>1
  <2>12. t = ReadPayload(full, next, SubSeq(b, d + 1, C))
    BY <1>16, <2>1, <2>11
  <2>13. /\ FrameHeaderLen \in FrameHeaderLen..(FrameHeaderLen + s.frames[k].len)
         /\ full.payloadLeft = FrameHeaderLen + s.frames[k].len - FrameHeaderLen
         /\ d = end[k - 1] + FrameHeaderLen
    <3>1. FrameHeaderLen \in FrameHeaderLen..(FrameHeaderLen + size)
          /\ size = FrameHeaderLen + size - FrameHeaderLen
      BY Lengths
    <3> QED BY <1>4, <2>2, <2>7, <3>1
  <2>14. PICK e : Turned(ReadPayload(full, next, SubSeq(b, d + 1, C)), b, s, end, F, d, e, C, times)
    BY <2>2, <2>7, <2>10, <2>13, PayloadFollows
  <2>15. Turned(t, b, s, end, F, c, e, C, times) /\ c < e
    <3>1. e \in Nat /\ d <= e /\ e <= C
      BY <2>14 DEF Turned
    <3>2. c <= e /\ c < e
      BY <2>2, <3>1
    <3> QED BY <2>12, <2>14, <3>1, <3>2 DEF Turned
  <2> QED BY <1>1, <1>12, <2>15
<1> QED BY <1>17, <1>18

\* So does comparing bytes with the preface.
LEMMA PrefaceFollows ==
  ASSUME NEW b, NEW s, NEW end, NEW F, NEW c0, NEW C, NEW times, NEW now,
         Reads(b, s, end, F, c0, C, times, now),
         NEW p, DOMAIN p = ProtocolFields, NEW c \in Nat, AtPreface(p, s, c), c < C,
         NEW until, until = Owed(s, end, F, c, times)
  PROVE  \E e : /\ Turned(FollowPreface(p, until, SubSeq(b, c + 1, C)), b, s, end, F, c, e, C, times)
                /\ c < e
<1>1. PICK r : r = SubSeq(b, c + 1, C)
  OBVIOUS
<1>2. IsFramed(s, end, F) /\ AreBytes(b, s, end, F) /\ b \in Seq(Range(b)) /\ Len(b) = end[F]
      /\ C \in Nat /\ C <= Len(b)
  <2>1. IsFramed(s, end, F) /\ AreBytes(b, s, end, F) /\ C \in Nat /\ C <= end[F]
    BY Zenon DEF Reads
  <2>2. b \in Seq(Range(b)) /\ Len(b) = end[F]
    BY <2>1 DEF AreBytes
  <2> QED BY <2>1, <2>2
<1>3. /\ p.is = "unknown" /\ p.matched = c /\ c <= s.matching /\ c < PrefaceLen /\ p.headerLen = 0
      /\ s.matching \in Nat /\ s.matching <= PrefaceLen
  <2>1. s.matching \in 0..PrefaceLen
    BY <1>2 DEF IsFramed
  <2> QED BY <2>1, Lengths DEF AtPreface
<1>4. PICK left \in Nat : left = PrefaceLen - c /\ PrefaceLen = c + left /\ 0 < left
  BY <1>3, Lengths
<1>5. PICK m \in Nat : m = C - c /\ C = c + m /\ 0 < m
  BY <1>2
<1>6. /\ Len(r) = m
      /\ \A i \in 1..m : r[i] = b[c + i]
      /\ \A l \in 0..m : SubSeq(r, l + 1, Len(r)) = SubSeq(b, c + l + 1, C)
  <2>0. c <= C
    BY <1>5
  <2>1. IsRest(r, b, c, C)
    BY <1>1, <1>2, <2>0, RestIs
  <2> QED BY <1>5, <2>1 DEF IsRest
<1>7. PICK len : len = Min({m, left})
  OBVIOUS
<1>8. len = IF m <= left THEN m ELSE left
  BY <1>7, MinOfTwo
<1>9. len \in Nat /\ len <= m /\ len <= left /\ 0 < len
  BY <1>4, <1>5, <1>8
<1>10. PICK e \in Nat : e = c + len
  BY <1>9
<1>11. c < e /\ e <= C /\ e <= PrefaceLen /\ c <= e
  BY <1>4, <1>5, <1>9, <1>10
<1>12. PICK t : t = FollowPreface(p, until, r)
  OBVIOUS
<1>13. t = IF \E i \in 1..len : r[i].is # "preface"
           THEN [protocol |-> [p EXCEPT !.is = "http1"], deadline |-> NoDeadline, rest |-> <<>>]
           ELSE [protocol |-> [p EXCEPT !.matched = p.matched + len,
                                   !.is = IF p.matched + len = PrefaceLen THEN "http2" ELSE @],
                 deadline |-> until, rest |-> SubSeq(r, len + 1, Len(r))]
  BY <1>3, <1>4, <1>6, <1>7, <1>12, Zenon DEF FollowPreface
<1>14. \A i \in 1..len : r[i].is # "preface" <=> ~(c + i <= s.matching)
  <2> SUFFICES ASSUME NEW i \in 1..len PROVE r[i].is # "preface" <=> ~(c + i <= s.matching)
    OBVIOUS
  <2>1. PICK n \in Nat : n = end[F] /\ C <= n
    BY <1>2 DEF IsFramed
  <2>2. i \in 1..m /\ c + i \in 1..n
    BY <1>5, <1>9, <2>1
  <2>3. \A j \in 1..end[F] : b[j].is = "preface" <=> j <= s.matching
    BY <1>2, WhichBytes
  <2> QED BY <1>6, <2>1, <2>2, <2>3
<1>15. CASE ~(e <= s.matching)
  <2>1. PICK i \in 1..len : ~(c + i <= s.matching)
    <3>1. len \in 1..len /\ ~(c + len <= s.matching)
      BY <1>9, <1>10, <1>15
    <3> QED BY <3>1
  <2>2. t.protocol = [p EXCEPT !.is = "http1"] /\ t.deadline = NoDeadline /\ t.rest = <<>>
    BY <1>13, <1>14, <2>1
  <2>3. PICK q : q = [p EXCEPT !.is = "http1"]
    OBVIOUS
  <2>4. DOMAIN q = ProtocolFields /\ q.is = "http1"
    BY <2>3 DEF ProtocolFields
  <2>5. s.matching < PrefaceLen /\ s.matching < C
    BY <1>2, <1>3, <1>11, <1>15, Lengths
  <2>6. AtOther(q, s, C) /\ Owed(s, end, F, C, times) = NoDeadline
    BY <2>4, <2>5 DEF AtOther, Owed
  <2>7. Follows(q, NoDeadline, s, end, F, C, times)
    BY <2>4, <2>6 DEF Follows
  <2>8. SubSeq(b, C + 1, C) = <<>>
    BY <1>2, SubSeqEmpty
  <2>9. C \in Nat /\ c <= C /\ C <= C
    BY <1>2
  <2> QED BY <1>1, <1>12, <2>2, <2>3, <2>7, <2>8, <2>9 DEF Turned
<1>16. CASE e <= s.matching
  <2>1. \A i \in 1..len : c + i <= s.matching
    BY <1>3, <1>9, <1>10, <1>16
  <2>2. t = [protocol |-> [p EXCEPT !.matched = p.matched + len,
                                   !.is = IF p.matched + len = PrefaceLen THEN "http2" ELSE @],
             deadline |-> until, rest |-> SubSeq(r, len + 1, Len(r))]
    BY <1>13, <1>14, <2>1
  <2>3. PICK q : q = [p EXCEPT !.matched = e, !.is = IF e = PrefaceLen THEN "http2" ELSE @]
    OBVIOUS
  <2>4. t.protocol = q /\ t.deadline = until /\ t.rest = SubSeq(r, len + 1, Len(r))
    BY <1>3, <1>10, <2>2, <2>3
  <2>5. /\ DOMAIN q = ProtocolFields /\ q.matched = e /\ q.headerLen = 0
        /\ q.is = (IF e = PrefaceLen THEN "http2" ELSE "unknown")
    BY <1>3, <2>3 DEF ProtocolFields
  <2>6. t.rest = SubSeq(b, e + 1, C)
    <3>1. len \in 0..m /\ c + len + 1 = e + 1
      BY <1>9, <1>10
    <3> QED BY <1>6, <2>4, <3>1
  <2>7. until = HeaderWait /\ Owed(s, end, F, e, times) = HeaderWait
    BY <1>2, <1>3, <1>16, OwedAtFirst
  <2>8. AtPreface(q, s, e) \/ AtFrames(q, s, end, F, e)
    <3>1. CASE e = PrefaceLen
      <4>1. s.matching = PrefaceLen
        BY <1>3, <1>16, <3>1, Lengths
      <4>2. e = end[0] /\ 0 \in 0..F
        <5>1. end[0] = OpeningLen(s) /\ F \in Nat
          BY <1>2 DEF IsFramed
        <5>2. OpeningLen(s) = s.matching
          BY <1>3, <4>1, Lengths DEF OpeningLen
        <5> QED BY <3>1, <4>1, <5>1, <5>2
      <4> QED BY <2>5, <3>1, <4>1, <4>2 DEF AtFrames, BetweenFrames
    <3>2. CASE e # PrefaceLen
      BY <1>11, <1>16, <2>5, <3>2, Lengths DEF AtPreface
    <3> QED BY <3>1, <3>2
  <2>9. Follows(q, until, s, end, F, e, times)
    BY <2>5, <2>7, <2>8 DEF Follows
  <2> QED BY <1>1, <1>11, <1>12, <2>4, <2>6, <2>9 DEF Turned
<1> QED BY <1>15, <1>16

\* A turn takes a byte and follows those it takes, unless the protocol is another.
LEMMA TurnFollows ==
  ASSUME NEW b, NEW s, NEW end, NEW F, NEW c0 \in Nat, NEW C, NEW times,
         Reads(b, s, end, F, c0, C, times, second),
         NEW p, NEW until, NEW c \in Nat, c0 <= c, c < C,
         Follows(p, until, s, end, F, c, times), p.is # "http1"
  PROVE  \E e : /\ Turned(Turn(p, until, SubSeq(b, c + 1, C)), b, s, end, F, c, e, C, times)
                /\ c < e
<1>1. PICK r : r = SubSeq(b, c + 1, C)
  OBVIOUS
<1>2. IsFramed(s, end, F) /\ b \in Seq(Range(b)) /\ Len(b) = end[F] /\ C \in Nat /\ C <= Len(b)
  BY DEF Reads, AreBytes
<1>3. r # <<>>
  <2>0. c <= C /\ c # C
    BY <1>2
  <2>1. IsRest(r, b, c, C)
    BY <1>1, <1>2, <2>0, RestIs
  <2> QED BY <2>0, <2>1 DEF IsRest
<1>4. DOMAIN p = ProtocolFields /\ until = Owed(s, end, F, c, times)
      /\ (AtPreface(p, s, c) \/ AtFrames(p, s, end, F, c))
  BY DEF Follows, AtOther
<1>5. CASE AtPreface(p, s, c)
  <2>1. Turn(p, until, r) = FollowPreface(p, until, r)
    BY <1>3, <1>5 DEF Turn, AtPreface
  <2> QED BY <1>1, <1>4, <1>5, <2>1, PrefaceFollows
<1>6. CASE AtFrames(p, s, end, F, c)
  <2>1. p.is = "http2" /\ s.matching = PrefaceLen
    BY <1>6 DEF AtFrames
  <2>2. Turn(p, until, r) = IF p.headerLen < FrameHeaderLen THEN ReadHeader(p, until, r)
                            ELSE ReadPayload(p, until, r)
    BY <1>3, <2>1 DEF Turn
  <2>3. CASE \E k \in 1..F : \E a \in Nat : InHeader(p, end, c, k, a)
    <3>1. PICK k \in 1..F : \E a \in Nat : InHeader(p, end, c, k, a)
      BY <2>3
    <3>2. PICK a \in Nat : InHeader(p, end, c, k, a)
      BY <3>1
    <3>3. c = end[k - 1] + a /\ a < FrameHeaderLen /\ p.headerLen = a
      BY <3>2 DEF InHeader
    <3>4. Owed(s, end, F, c, times) = AfterFrame(s, end, times, k - 1)
      <4>1. PICK len \in Nat : len = s.frames[k].len
        BY <1>2 DEF IsFramed
      <4>2. a \in 0..(FrameHeaderLen + len)
        BY <3>3, Lengths
      <4>3. a \in 0..(FrameHeaderLen + s.frames[k].len) /\ c = end[k - 1] + a
        BY <3>3, <4>1, <4>2
      <4>4. Owed(s, end, F, c, times) = OwedOf(s, end, times, k, a)
        BY <1>2, <2>1, <4>3, OwedIn
      <4> QED BY <3>3, <4>4 DEF OwedOf
    <3>5. Turn(p, until, r) = ReadHeader(p, until, r)
      BY <2>2, <3>3
    <3> QED BY <1>1, <1>4, <2>1, <3>3, <3>4, <3>5, HeaderFollows
  <2>4. CASE \E k \in 1..F : \E a \in Nat : InPayload(p, s, end, c, k, a)
    <3>1. PICK k \in 1..F : \E a \in Nat : InPayload(p, s, end, c, k, a)
      BY <2>4
    <3>2. PICK a \in Nat : InPayload(p, s, end, c, k, a)
      BY <3>1
    <3>3. /\ c = end[k - 1] + a /\ FrameHeaderLen <= a /\ a < FrameHeaderLen + s.frames[k].len
          /\ p.headerLen = FrameHeaderLen
          /\ p.payloadLeft = FrameHeaderLen + s.frames[k].len - a
          /\ p.endsHeaders = EndsHeaders(s.frames[k])
      BY <3>2 DEF InPayload
    <3>4. PICK len \in Nat : len = s.frames[k].len
      BY <1>2 DEF IsFramed
    <3>5. /\ a \in 0..(FrameHeaderLen + s.frames[k].len)
          /\ a \in FrameHeaderLen..(FrameHeaderLen + s.frames[k].len)
          /\ ~(a < FrameHeaderLen)
      <4>1. FrameHeaderLen <= a /\ a < FrameHeaderLen + len
        BY <3>3, <3>4
      <4>2. a \in 0..(FrameHeaderLen + len) /\ a \in FrameHeaderLen..(FrameHeaderLen + len)
            /\ ~(a < FrameHeaderLen)
        BY <4>1, Lengths
      <4> QED BY <3>4, <4>2
    <3>6. Owed(s, end, F, c, times) = AfterHeader(s, end, times, k)
      <4>1. c = end[k - 1] + a
        BY <3>3
      <4>2. Owed(s, end, F, c, times) = OwedOf(s, end, times, k, a)
        BY <1>2, <2>1, <3>5, <4>1, OwedIn
      <4> QED BY <3>3, <3>5, <4>2 DEF OwedOf
    <3>7. Turn(p, until, r) = ReadPayload(p, until, r)
      <4>1. ~(p.headerLen < FrameHeaderLen)
        BY <3>3, Lengths
      <4> QED BY <2>2, <4>1
    <3>8. c <= C
      BY <1>2
    <3> QED BY <1>1, <1>4, <2>1, <3>3, <3>5, <3>6, <3>7, <3>8, PayloadFollows
  <2>5. CASE BetweenFrames(p, end, F, c)
    <3>1. PICK j \in 0..F : c = end[j]
      BY <2>5 DEF BetweenFrames
    <3>2. p.headerLen = 0 /\ 0 < FrameHeaderLen
      BY <2>5, Lengths DEF BetweenFrames
    <3>3. F \in Nat
      BY <1>2 DEF IsFramed
    <3>4. j # F
      <4>1. C <= end[F] /\ c \in Nat
        BY <1>2
      <4> QED BY <1>2, <3>1, <4>1
    <3>5. PICK k \in 1..F : k = j + 1 /\ k - 1 = j
      BY <3>1, <3>3, <3>4
    <3>6. c = end[k - 1] + 0
      BY <3>1, <3>5
    <3>7. Owed(s, end, F, c, times) = AfterFrame(s, end, times, k - 1)
      BY <1>2, <2>1, <3>1, <3>5, OwedAfter
    <3>8. Turn(p, until, r) = ReadHeader(p, until, r)
      BY <2>2, <3>2
    <3>9. PICK a \in Nat : a = 0 /\ a < FrameHeaderLen /\ p.headerLen = a /\ c = end[k - 1] + a
      BY <3>2, <3>6
    <3>10. until = AfterFrame(s, end, times, k - 1) /\ DOMAIN p = ProtocolFields
      BY <1>4, <3>7
    <3>11. a < FrameHeaderLen /\ p.headerLen = a /\ c = end[k - 1] + a
      BY <3>9
    <3>12. \E e : /\ Turned(ReadHeader(p, until, SubSeq(b, c + 1, C)), b, s, end, F, c, e, C, times)
                  /\ c < e
      BY <2>1, <3>10, <3>11, HeaderFollows
    <3> QED BY <1>1, <3>8, <3>12
  <2> QED BY <1>6, <2>3, <2>4, <2>5 DEF AtFrames
<1> QED BY <1>4, <1>5, <1>6

----------------------------------------------------------------------------
(* Reads follow the bytes *)

\* f tells what n turns make of a read.
TurnsOf(p, until, read, n, f) ==
  f = [j \in 0..n |-> IF j = 0 THEN [protocol |-> p, deadline |-> until, rest |-> read]
                      ELSE Turn(f[j - 1].protocol, f[j - 1].deadline, f[j - 1].rest)]

\* What such a function says of a turn.
LEMMA TurnsOne ==
  ASSUME NEW p, NEW until, NEW read, NEW n \in Nat, NEW f, TurnsOf(p, until, read, n, f)
  PROVE  /\ f[0] = [protocol |-> p, deadline |-> until, rest |-> read]
         /\ \A j \in 1..n : f[j] = Turn(f[j - 1].protocol, f[j - 1].deadline, f[j - 1].rest)
<1> DEFINE F(j) == IF j = 0 THEN [protocol |-> p, deadline |-> until, rest |-> read]
                   ELSE Turn(f[j - 1].protocol, f[j - 1].deadline, f[j - 1].rest)
<1>1. f = [j \in 0..n |-> F(j)]
  BY Zenon DEF TurnsOf
<1>2. F(0) = [protocol |-> p, deadline |-> until, rest |-> read]
  OBVIOUS
<1>3. \A j \in 1..n : F(j) = Turn(f[j - 1].protocol, f[j - 1].deadline, f[j - 1].rest)
  OBVIOUS
<1> HIDE DEF F
<1>4. f[0] = F(0) /\ \A j \in 1..n : f[j] = F(j)
  BY <1>1
<1> QED BY <1>2, <1>3, <1>4

\* There is one, by induction on n.
LEMMA TurnsExist ==
  ASSUME NEW p, NEW until, NEW read
  PROVE  \A n \in Nat : \E f : TurnsOf(p, until, read, n, f)
<1> DEFINE First == [protocol |-> p, deadline |-> until, rest |-> read]
           Next(g, j) == Turn(g[j - 1].protocol, g[j - 1].deadline, g[j - 1].rest)
           T == {n \in Nat : ~\E f : TurnsOf(p, until, read, n, f)}
<1> SUFFICES ASSUME T # {} PROVE FALSE
  OBVIOUS
<1>1. PICK m \in T : \A n \in T : m <= n
  <2>1. T \subseteq Nat
    OBVIOUS
  <2> HIDE DEF T
  <2> QED BY <2>1, LeastNumber
<1>2. m # 0
  <2> DEFINE G(g, j) == IF j = 0 THEN First ELSE Next(g, j)
  <2>1. PICK f : f = [j \in 0..0 |-> First]
    OBVIOUS
  <2>2. \A j \in 0..0 : G(f, j) = First
    OBVIOUS
  <2> HIDE DEF G
  <2>3. f = [j \in 0..0 |-> G(f, j)]
    BY <2>1, <2>2
  <2>4. TurnsOf(p, until, read, 0, f)
    BY <2>3, Zenon DEF TurnsOf, G
  <2> QED BY <1>1, <2>4
<1>3. PICK f : TurnsOf(p, until, read, m - 1, f)
  <2>1. m - 1 \in Nat /\ ~(m <= m - 1)
    BY <1>1, <1>2
  <2>2. m - 1 \notin T
    BY <1>1, <2>1
  <2> QED BY <2>1, <2>2
<1>4. m \in Nat /\ m - 1 \in Nat
  BY <1>1, <1>2
<1>5. PICK last : last = Next(f, m)
  OBVIOUS
<1>6. PICK g : g = [j \in 0..m |-> IF j = m THEN last ELSE f[j]]
  OBVIOUS
<1>7. f[0] = First /\ \A j \in 1..(m - 1) : f[j] = Next(f, j)
  BY <1>3, <1>4, TurnsOne
<1>8. TurnsOf(p, until, read, m, g)
  <2> DEFINE G(j) == IF j = 0 THEN First ELSE Next(g, j)
  <2>1. g[0] = f[0] /\ g[m] = last
    BY <1>2, <1>4, <1>6
  <2>2. \A j \in 1..(m - 1) : g[j] = f[j]
    BY <1>4, <1>6
  <2>3. \A j \in 1..m : g[j - 1] = f[j - 1]
    BY <1>4, <1>6
  <2>4. \A j \in 1..m : Next(g, j) = Next(f, j)
    BY <2>3
  <2> HIDE DEF First, Next
  <2>5. \A j \in 0..m : g[j] = G(j)
    <3> SUFFICES ASSUME NEW j \in 0..m PROVE g[j] = G(j)
      OBVIOUS
    <3>1. CASE j = 0
      BY <1>7, <2>1, <3>1
    <3>2. CASE j = m
      BY <1>2, <1>4, <1>5, <2>1, <2>4, <3>2
    <3>3. CASE j # 0 /\ j # m
      <4>1. j \in 1..(m - 1) /\ j \in 1..m
        BY <1>4, <3>3
      <4> QED BY <1>7, <2>2, <2>4, <3>3, <4>1
    <3> QED BY <3>1, <3>2, <3>3
  <2> HIDE DEF G
  <2>6. g = [j \in 0..m |-> G(j)]
    BY <1>6, <2>5
  <2> QED BY <2>6, Zenon DEF TurnsOf, G, First, Next
<1> QED BY <1>1, <1>8

\* After a read, the protocol and the deadline are those of all its bytes.
LEMMA OnReadFollows ==
  ASSUME NEW b, NEW s, NEW end, NEW F, NEW c0 \in Nat, NEW C, c0 <= C, NEW times,
         Reads(b, s, end, F, c0, C, times, second),
         NEW p, NEW until, Follows(p, until, s, end, F, c0, times)
  PROVE  LET now == OnRead(p, until, SubSeq(b, c0 + 1, C))
         IN  Follows(now.protocol, now.deadline, s, end, F, C, times)
<1>1. PICK r : r = SubSeq(b, c0 + 1, C)
  OBVIOUS
<1>2. b \in Seq(Range(b)) /\ Len(b) = end[F] /\ C \in Nat /\ C <= Len(b)
  BY DEF Reads, AreBytes
<1>3. PICK n \in Nat : n = C - c0 /\ C = c0 + n
  BY <1>2
<1>4. Len(r) = n /\ (r = <<>> <=> c0 = C)
  <2>1. IsRest(r, b, c0, C)
    BY <1>1, <1>2, RestIs
  <2> QED BY <1>3, <2>1 DEF IsRest
<1> DEFINE after == CHOOSE after : after = [j \in 0..Len(r) |->
                      IF j = 0 THEN [protocol |-> p, deadline |-> until, rest |-> r]
                      ELSE Turn(after[j - 1].protocol, after[j - 1].deadline, after[j - 1].rest)]
<1>5. OnRead(p, until, r) = after[Len(r)]
  BY Zenon DEF OnRead
<1>6. after = [j \in 0..Len(r) |->
                 IF j = 0 THEN [protocol |-> p, deadline |-> until, rest |-> r]
                 ELSE Turn(after[j - 1].protocol, after[j - 1].deadline, after[j - 1].rest)]
  <2>1. PICK f : TurnsOf(p, until, r, n, f)
    BY TurnsExist
  <2>2. f = [j \in 0..Len(r) |->
               IF j = 0 THEN [protocol |-> p, deadline |-> until, rest |-> r]
               ELSE Turn(f[j - 1].protocol, f[j - 1].deadline, f[j - 1].rest)]
    BY <1>4, <2>1, Zenon DEF TurnsOf
  <2> QED BY <2>2, Zenon
<1> HIDE DEF after
<1>7. TurnsOf(p, until, r, n, after)
  BY <1>4, <1>6, Zenon DEF TurnsOf
<1>8. PICK f : f = after
  OBVIOUS
<1>9. /\ f[0] = [protocol |-> p, deadline |-> until, rest |-> r]
      /\ \A j \in 1..n : f[j] = Turn(f[j - 1].protocol, f[j - 1].deadline, f[j - 1].rest)
  BY <1>7, <1>8, TurnsOne
<1> DEFINE Taken(t, j) == \E c \in Nat : c0 + j <= c /\ Turned(t, b, s, end, F, c0, c, C, times)
           Told(t) == t.protocol.is = "http1" /\ Follows(t.protocol, t.deadline, s, end, F, C, times)
           T == {j \in 0..n : ~(Taken(f[j], j) \/ Told(f[j]))}
<1>10. ASSUME T # {} PROVE FALSE
  <2>1. PICK m \in T : \A j \in T : m <= j
    <3>1. T \subseteq Nat
      OBVIOUS
    <3> HIDE DEF T
    <3> QED BY <1>10, <3>1, LeastNumber
  <2>2. m \in 0..n /\ ~Taken(f[m], m) /\ ~Told(f[m])
    BY <2>1
  <2>3. m # 0
    <3> SUFFICES ASSUME m = 0 PROVE FALSE
      OBVIOUS
    <3>1. f[0].protocol = p /\ f[0].deadline = until /\ f[0].rest = r
      BY <1>9
    <3>2. Turned(f[0], b, s, end, F, c0, c0, C, times)
      BY <1>1, <3>1 DEF Turned
    <3>3. c0 + 0 <= c0
      OBVIOUS
    <3>4. Taken(f[0], 0)
      BY <3>2, <3>3
    <3> QED BY <2>2, <3>4
  <2>4. m \in 1..n /\ m - 1 \in 0..n /\ ~(m <= m - 1)
    BY <2>2, <2>3
  <2>5. Taken(f[m - 1], m - 1) \/ Told(f[m - 1])
    <3>1. m - 1 \notin T
      BY <2>1, <2>4
    <3> QED BY <2>4, <3>1
  <2>6. PICK t : t = f[m - 1]
    OBVIOUS
  <2>7. f[m] = Turn(t.protocol, t.deadline, t.rest)
    BY <1>9, <2>4, <2>6
  <2>8. CASE Told(t)
    <3>1. f[m] = [protocol |-> t.protocol, deadline |-> t.deadline, rest |-> t.rest]
      BY <2>7, <2>8 DEF Turn
    <3>2. f[m].protocol = t.protocol /\ f[m].deadline = t.deadline
      BY <3>1
    <3>3. Told(f[m])
      BY <2>8, <3>2
    <3> QED BY <2>2, <3>3
  <2>9. CASE Taken(t, m - 1) /\ ~Told(t)
    <3>1. PICK c \in Nat : c0 + (m - 1) <= c /\ Turned(t, b, s, end, F, c0, c, C, times)
      BY <2>9
    <3>2. c0 <= c /\ c <= C /\ t.rest = SubSeq(b, c + 1, C)
          /\ Follows(t.protocol, t.deadline, s, end, F, c, times)
      BY <3>1 DEF Turned
    <3>3. t.rest = <<>> <=> c = C
      <4>1. IsRest(t.rest, b, c, C)
        BY <1>2, <3>2, RestIs
      <4> QED BY <4>1 DEF IsRest
    <3>4. CASE c = C
      <4>1. f[m] = [protocol |-> t.protocol, deadline |-> t.deadline, rest |-> t.rest]
        BY <2>7, <3>3, <3>4 DEF Turn
      <4>2. f[m].protocol = t.protocol /\ f[m].deadline = t.deadline /\ f[m].rest = t.rest
        BY <4>1
      <4>3. Turned(f[m], b, s, end, F, c0, c, C, times)
        BY <3>1, <4>2 DEF Turned
      <4>4. c0 + m <= c
        BY <1>3, <2>4, <3>4
      <4>5. Taken(f[m], m)
        BY <4>3, <4>4
      <4> QED BY <2>2, <4>5
    <3>5. CASE c # C /\ t.protocol.is = "http1"
      <4>1. AtOther(t.protocol, s, c)
        BY <3>2, <3>5 DEF Follows, AtPreface, AtFrames
      <4>2. s.matching < PrefaceLen /\ s.matching < c
        BY <4>1 DEF AtOther
      <4>3. s.matching < C
        <5>1. s.matching \in Nat
          <6>1. s.matching \in 0..PrefaceLen
            BY DEF Reads, IsFramed
          <6> QED BY <6>1, Lengths
        <5> QED BY <1>2, <3>2, <4>2, <5>1
      <4>4. Owed(s, end, F, c, times) = NoDeadline /\ Owed(s, end, F, C, times) = NoDeadline
        BY <4>2, <4>3 DEF Owed
      <4>5. AtOther(t.protocol, s, C)
        BY <3>5, <4>2, <4>3 DEF AtOther
      <4>6. Follows(t.protocol, t.deadline, s, end, F, C, times)
        BY <3>2, <4>4, <4>5 DEF Follows
      <4> QED BY <2>9, <3>5, <4>6
    <3>6. CASE c # C /\ t.protocol.is # "http1"
      <4>1. c < C
        BY <1>2, <3>2, <3>6
      <4>2. PICK e : /\ Turned(Turn(t.protocol, t.deadline, SubSeq(b, c + 1, C)), b, s, end, F, c, e, C, times)
                     /\ c < e
        BY <3>2, <3>6, <4>1, TurnFollows
      <4>3. Turned(f[m], b, s, end, F, c, e, C, times)
        BY <2>7, <3>2, <4>2
      <4>4. e \in Nat /\ c0 <= e /\ c0 + m <= e
        <5>1. e \in Nat
          BY <4>3 DEF Turned
        <5> QED BY <2>4, <3>1, <3>2, <4>2, <5>1
      <4>5. Turned(f[m], b, s, end, F, c0, e, C, times)
        BY <4>3, <4>4 DEF Turned
      <4>6. Taken(f[m], m)
        BY <4>4, <4>5
      <4> QED BY <2>2, <4>6
    <3> QED BY <3>4, <3>5, <3>6
  <2> QED BY <2>5, <2>6, <2>8, <2>9
<1>11. Taken(f[n], n) \/ Told(f[n])
  <2>1. n \in 0..n
    OBVIOUS
  <2> QED BY <1>10, <2>1
<1>12. Follows(f[n].protocol, f[n].deadline, s, end, F, C, times)
  <2>1. CASE Taken(f[n], n)
    <3>1. PICK c \in Nat : c0 + n <= c /\ Turned(f[n], b, s, end, F, c0, c, C, times)
      BY <2>1
    <3>2. c <= C /\ Follows(f[n].protocol, f[n].deadline, s, end, F, c, times)
      BY <3>1 DEF Turned
    <3>3. c = C
      BY <1>2, <1>3, <3>1, <3>2
    <3> QED BY <3>2, <3>3
  <2>2. CASE Told(f[n])
    BY <2>2
  <2> QED BY <1>11, <2>1, <2>2
<1>13. OnRead(p, until, SubSeq(b, c0 + 1, C)) = f[n]
  BY <1>1, <1>4, <1>5, <1>8
<1> QED BY <1>12, <1>13

\* The protocol and the deadline are those of the bytes read of a stream, and
\* the last read came before the deadline.
Following(s) ==
  LET end == EndOf(s)
      F == Len(s.frames)
  IN  /\ sending = Bytes(s) /\ Len(readAt) <= end[F]
      /\ ~closed => Follows(protocol, deadline, s, end, F, Len(readAt), readAt)

TimeoutInv ==
  /\ second \in Nat /\ readAt \in Seq(Nat) /\ closed \in BOOLEAN
  /\ ~closed /\ readAt # <<>> /\ deadline # NoDeadline => Last(readAt) < deadline
  /\ \E s \in Streams : Following(s)

\* No byte is read, and HeaderWait is owed.
LEMMA TimeoutInvInit == TimeoutInit => TimeoutInv
<1> SUFFICES ASSUME TimeoutInit PROVE TimeoutInv
  OBVIOUS
<1>1. PICK s \in Streams : sending = Bytes(s)
  BY DEF TimeoutInit
<1>2. PICK end, F : end = EndOf(s) /\ F = Len(s.frames)
  OBVIOUS
<1>3. IsFramed(s, end, F)
  BY <1>2, EndOfIs
<1>4. second = 0 /\ readAt = <<>> /\ closed = FALSE /\ deadline = HeaderWait
      /\ protocol = [is |-> "unknown", matched |-> 0, headerLen |-> 0, payloadLeft |-> 0,
                     endsHeaders |-> FALSE]
  BY DEF TimeoutInit
<1>5. s.matching \in Nat /\ 0 <= s.matching /\ 0 < PrefaceLen
  <2>1. s.matching \in 0..PrefaceLen
    BY <1>3 DEF IsFramed
  <2> QED BY <2>1, Lengths
<1>6. Owed(s, end, F, 0, readAt) = HeaderWait
  BY <1>3, <1>5, OwedAtFirst
<1>7. DOMAIN protocol = ProtocolFields /\ AtPreface(protocol, s, 0)
  BY <1>4, <1>5 DEF ProtocolFields, AtPreface
<1>8. Follows(protocol, deadline, s, end, F, 0, readAt)
  BY <1>4, <1>6, <1>7 DEF Follows
<1>9. Len(readAt) = 0 /\ 0 <= end[F]
  <2>1. F \in Nat /\ end[F] \in Nat
    BY <1>3 DEF IsFramed
  <2> QED BY <1>4, <2>1
<1>10. Following(s)
  BY <1>1, <1>2, <1>8, <1>9 DEF Following
<1>11. readAt \in Seq(Nat)
  BY <1>4
<1> QED BY <1>4, <1>10, <1>11 DEF TimeoutInv

\* A read takes the protocol and the deadline to those of its bytes; the other
\* steps keep them.
LEMMA TimeoutInvStep == TimeoutInv /\ [TimeoutNext]_timeoutVars => TimeoutInv'
<1> SUFFICES ASSUME TimeoutInv, [TimeoutNext]_timeoutVars PROVE TimeoutInv'
  OBVIOUS
<1>1. /\ second \in Nat /\ readAt \in Seq(Nat) /\ closed \in BOOLEAN
      /\ ~closed /\ readAt # <<>> /\ deadline # NoDeadline => Last(readAt) < deadline
  BY DEF TimeoutInv
<1>2. PICK s \in Streams : Following(s)
  BY DEF TimeoutInv
<1>3. PICK end, F : end = EndOf(s) /\ F = Len(s.frames)
  OBVIOUS
<1>4. IsFramed(s, end, F) /\ AreBytes(Bytes(s), s, end, F)
  BY <1>3, BytesAre
<1>5. /\ sending = Bytes(s) /\ Len(readAt) <= end[F]
      /\ ~closed => Follows(protocol, deadline, s, end, F, Len(readAt), readAt)
  BY <1>2, <1>3 DEF Following
<1>6. ASSUME NEW count \in 1..Len(sending), PollRead(count) PROVE TimeoutInv'
  <2>1. PICK b, times : b = sending /\ times = readAt'
    OBVIOUS
  <2>2. PICK c0 \in Nat : c0 = Len(readAt)
    BY <1>1
  <2>3. AreBytes(b, s, end, F) /\ Len(b) = end[F] /\ end[F] \in Nat
    <3>1. AreBytes(b, s, end, F) /\ IsFramed(s, end, F)
      BY <1>4, <1>5, <2>1
    <3>2. F \in 0..F
      <4>1. F \in Nat
        BY <3>1 DEF IsFramed
      <4> QED BY <4>1
    <3>3. end[F] \in Nat
      BY <3>1, <3>2, Zenon DEF IsFramed
    <3>4. Len(b) = end[F]
      BY <3>1 DEF AreBytes
    <3> QED BY <3>1, <3>3, <3>4
  <2>4. PICK C \in Nat : C = c0 + count /\ c0 < C /\ C <= end[F] /\ C = Len(readAt) + count
    <3>1. count \in Nat /\ 0 < count
      BY <2>1, <2>3
    <3>2. c0 + count <= end[F]
      BY <2>1, <2>2, <2>3, <1>6 DEF PollRead
    <3> QED BY <2>2, <3>1, <3>2
  <2>5. PICK read : read = SubSeq(b, c0 + 1, C)
    OBVIOUS
  <2>6. PICK now : now = OnRead(protocol, deadline, read)
    OBVIOUS
  <2>7. /\ ~closed /\ protocol' = now.protocol /\ deadline' = now.deadline
        /\ closed' = Expired(now.deadline)
        /\ readAt' = readAt \o [i \in 1..count |-> second]
        /\ sending' = sending /\ second' = second
    <3> DEFINE bytes == SubSeq(sending, Len(readAt) + 1, Len(readAt) + count)
               turned == OnRead(protocol, deadline, bytes)
    <3>1. /\ ~closed /\ protocol' = turned.protocol /\ deadline' = turned.deadline
          /\ closed' = Expired(turned.deadline)
          /\ readAt' = readAt \o [i \in 1..count |-> second]
          /\ sending' = sending /\ second' = second
      BY <1>6, Zenon DEF PollRead
    <3>2. bytes = read
      BY <2>1, <2>2, <2>4, <2>5
    <3>3. turned = now
      BY <2>6, <3>2
    <3> HIDE DEF turned
    <3> QED BY <3>1, <3>3
  <2>8. /\ times \in Seq(Nat) /\ Len(times) = C
        /\ \A i \in 1..c0 : times[i] = readAt[i]
        /\ \A i \in (c0 + 1)..C : times[i] = second
    <3>1. PICK w : w = [i \in 1..count |-> second]
      OBVIOUS
    <3>2. count \in Nat
      BY <2>1, <2>3
    <3>3. w \in Seq(Nat) /\ Len(w) = count /\ \A i \in 1..count : w[i] = second
      BY <1>1, <3>1, <3>2
    <3>4. times = readAt \o w
      BY <2>1, <2>7, <3>1
    <3>5. /\ readAt \o w \in Seq(Nat) /\ Len(readAt \o w) = Len(readAt) + Len(w)
          /\ \A i \in 1..(Len(readAt) + Len(w)) :
               (readAt \o w)[i] = IF i <= Len(readAt) THEN readAt[i] ELSE w[i - Len(readAt)]
      BY <1>1, <3>3, ConcatProperties
    <3>6. times \in Seq(Nat) /\ Len(times) = C
          /\ \A i \in 1..C : times[i] = IF i <= c0 THEN readAt[i] ELSE w[i - c0]
      BY <2>2, <2>4, <3>3, <3>4, <3>5
    <3>7. \A i \in 1..c0 : i \in 1..C /\ i <= c0
      BY <2>4
    <3>8. \A i \in (c0 + 1)..C : i \in 1..C /\ ~(i <= c0) /\ i - c0 \in 1..count
      BY <2>4, <3>2
    <3> QED BY <3>3, <3>6, <3>7, <3>8
  <2>9. Reads(b, s, end, F, c0, C, times, second)
    <3>1. \A i \in 1..C : times[i] \in Nat
      BY <2>8
    <3> QED BY <1>1, <1>4, <2>3, <2>4, <2>8, <3>1 DEF Reads
  <2>10. Follows(protocol, deadline, s, end, F, c0, times)
    <3>1. Owed(s, end, F, c0, readAt) = Owed(s, end, F, c0, times)
      BY <1>4, <2>8, OwedByTimes
    <3> QED BY <1>5, <2>2, <2>7, <3>1 DEF Follows
  <2>11. Follows(now.protocol, now.deadline, s, end, F, C, times)
    <3>1. c0 <= C
      BY <2>4
    <3> QED BY <2>5, <2>6, <2>9, <2>10, <3>1, OnReadFollows
  <2>12. Following(s)'
    <3>1. Len(readAt') = C /\ readAt' = times
      BY <2>1, <2>8
    <3> QED BY <1>3, <1>5, <2>4, <2>7, <2>11, <3>1 DEF Following
  <2>13. (~closed /\ readAt # <<>> /\ deadline # NoDeadline => Last(readAt) < deadline)'
    <3> SUFFICES ASSUME ~closed', deadline' # NoDeadline PROVE Last(readAt') < deadline'
      OBVIOUS
    <3>1. ~(second >= deadline')
      BY <2>7 DEF Expired
    <3>2. Last(readAt') = second
      <4>1. Last(times) = times[Len(times)]
        BY DEF Last
      <4>2. C \in (c0 + 1)..C
        BY <2>4
      <4> QED BY <2>1, <2>8, <4>1, <4>2
    <3>3. deadline' \in Int
      <4>1. deadline' = Owed(s, end, F, C, times)
        BY <2>7, <2>11 DEF Follows
      <4>2. Owed(s, end, F, C, times) \in Int
        BY <1>4, <2>9, OwedType DEF Reads
      <4> QED BY <4>1, <4>2
    <3> QED BY <1>1, <3>1, <3>2, <3>3
  <2>14. closed' \in BOOLEAN
    BY <2>7 DEF Expired
  <2> QED BY <1>1, <2>1, <2>7, <2>8, <2>12, <2>13, <2>14 DEF TimeoutInv
<1>7. CASE SecondPasses
  <2>1. second' = second + 1
        /\ UNCHANGED <<sending, readAt, protocol, deadline, closed>>
    BY <1>7 DEF SecondPasses
  <2>2. Following(s)'
    BY <1>2, <2>1 DEF Following
  <2> QED BY <1>1, <2>1, <2>2 DEF TimeoutInv
<1>8. CASE WaitExpires
  <2>1. closed' = TRUE /\ UNCHANGED <<sending, second, readAt, protocol, deadline>>
    BY <1>8 DEF WaitExpires
  <2>2. Following(s)'
    BY <1>2, <2>1 DEF Following
  <2> QED BY <1>1, <2>1, <2>2 DEF TimeoutInv
<1>9. CASE UNCHANGED timeoutVars
  <2>1. UNCHANGED <<sending, second, readAt, protocol, deadline, closed>>
    BY <1>9 DEF timeoutVars
  <2>2. Following(s)'
    BY <1>2, <2>1 DEF Following
  <2> QED BY <1>1, <2>1, <2>2 DEF TimeoutInv
<1> QED BY <1>6, <1>7, <1>8, <1>9 DEF TimeoutNext

\* However the bytes of a connection are split into reads, and whatever frames
\* they are: the deadline is the one they call for as a whole, and no read
\* returned bytes after it while headers were owed (on_read and poll_read of
\* HeaderTimeout).
THEOREM DeadlinesFollowBytes == TimeoutSpec => []DeadlineFollowsBytes
<1>1. TimeoutInv => DeadlineFollowsBytes
  <2> SUFFICES ASSUME TimeoutInv, ~closed
               PROVE  /\ deadline = OwedUntil
                      /\ readAt # <<>> /\ OwedUntil # NoDeadline => Last(readAt) < OwedUntil
    BY DEF DeadlineFollowsBytes
  <2>1. PICK s \in Streams : Following(s)
    BY DEF TimeoutInv
  <2>2. PICK end, F : end = EndOf(s) /\ F = Len(s.frames)
    OBVIOUS
  <2>3. PICK c \in Nat : c = Len(readAt)
    BY DEF TimeoutInv
  <2>4. sending = Bytes(s) /\ c <= end[F]
        /\ Follows(protocol, deadline, s, end, F, c, readAt)
    BY <2>1, <2>2, <2>3 DEF Following
  <2>5. IsFramed(s, end, F) /\ AreBytes(sending, s, end, F)
    BY <2>2, <2>4, BytesAre
  <2>6. OwedUntil = Owed(s, end, F, c, readAt)
    BY <2>3, <2>4, <2>5, OwedIs
  <2>7. deadline = OwedUntil
    BY <2>4, <2>6 DEF Follows
  <2> QED BY <2>7 DEF TimeoutInv
<1> QED BY TimeoutInvInit, TimeoutInvStep, <1>1, PTL DEF TimeoutSpec
=============================================================================
