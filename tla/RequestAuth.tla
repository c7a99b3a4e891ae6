---------------------------- MODULE RequestAuth ----------------------------
(***************************************************************************)
(* A request of the management api, from its headers to the handler        *)
(* (auth/server/src/middleware.rs, provider/jwt.rs, api/manage/mod.rs and   *)
(* middleware.rs, client/rs/src/signature.rs): which credential counts, how *)
(* a signed request is verified although its body takes time to arrive,    *)
(* and what a login is still good for. The clock, the stored keys, the     *)
(* users and the server's key may change between any two steps.            *)
(* Signatures and hashes are perfect: a signature is what it was made for. *)
(***************************************************************************)
EXTENDS Integers, FiniteSets

CONSTANTS
  LastInstant,   \* bound: the clock stops here
  Credentials,   \* credentials of requests to try, see Arrive
  RecentWindow   \* reauthentication_window_secs, 0 for no limit

Times == Nat \cup {-1}   \* -1 for none: NoTime

\* What headers parse to: jwts and api keys are of their kind.
ASSUME CredentialsAssumption ==
  /\ LastInstant \in Nat /\ RecentWindow \in Nat
  /\ \A request \in Credentials :
       /\ request.timestamp \in Times
       /\ "jwt" \in DOMAIN request.with =>
            /\ request.with.jwt.kind = "jwt"
            /\ request.with.jwt.iat \in Nat /\ request.with.jwt.auth_time \in Times
       /\ "apiKey" \in DOMAIN request.with => request.with.apiKey.kind = "api"

VARIABLES
  instant,       \* the clock
  storedKeys,    \* api keys and signing keys that exist, with their owner
  disabledUsers, \* users that are not enabled
  serverKey,     \* the server's current key (it rotates)
  arrived,       \* the request being handled, and when its headers came
  step,          \* how far it is
  checkedAt,     \* the timestamp read_signed_request_body checked
  credential,    \* the RequestAuthentication extracted
  loginAt,       \* AuthenticatedAt: when the login was, of a jwt
  caller,        \* the user it authenticates
  response       \* the status it is answered with

authVars == <<instant, storedKeys, disabledUsers, serverKey, arrived, step,
              checkedAt, credential, loginAt, caller, response>>

NoTime == -1
NoCredential == [kind |-> "none"]
Leeway == 1     \* JWT_CLOCK_SKEW_TOLERANCE_SECS
Tolerance == 1  \* signing_key_timestamp_tolerance_ms
ServerTtl == 2  \* the JwtProvider's ttl

Later(a, b) == IF a > b THEN a ELSE b
Earlier(a, b) == IF a < b THEN a ELSE b

----------------------------------------------------------------------------
(* App tokens: JwtProvider *)

\* encode: at least a second, at most the provider's ttl; a login no later than
\* the token.
EncodeJwt(user, now, ttl, loggedIn) ==
  [kind |-> "jwt", user |-> user, iat |-> now,
   exp |-> now + Later(1, Earlier(ttl, ServerTtl)),
   auth_time |-> IF loggedIn = NoTime THEN NoTime ELSE Earlier(loggedIn, now)]

\* decode_claims: not expired, and not issued in the future, within the leeway.
DecodeClaims(jwt, now) == jwt.exp + Leeway >= now /\ jwt.iat <= now + Leeway

\* Mutant: when the token was issued.
AuthenticatedAtIssue(jwt) == jwt.iat

JwtAuthenticatedAt(jwt) ==
  IF jwt.auth_time = NoTime THEN jwt.iat ELSE Earlier(jwt.auth_time, jwt.iat)

----------------------------------------------------------------------------
(* Signed requests *)

\* pki_auth_prologue: what a signature covers.
Prologue(method, path, timestamp, body) == <<method, path, timestamp, body>>

\* Mutant: without the body.
PrologueWithoutBody(method, path, timestamp, body) == <<method, path, timestamp, "any">>

\* sign_request: only the server it was made for can verify it.
SignRequest(key, server, method, path, timestamp, body) ==
  [key |-> key, server |-> server,
   covers |-> Prologue(method, path, timestamp, body)]

\* check_request_timestamp
TimestampFits(timestamp, now) ==
  timestamp # NoTime /\ now - timestamp <= Tolerance /\ timestamp - now <= Tolerance

----------------------------------------------------------------------------
(* Requests of the management api *)

AccountRequests == {"UpdatePassword"}
ResourceRequests == {"CreateTrustedIssuer"}
OpenRequests == {"GetUserId", "DeleteApiKey"}

RequiresRecentLogin(request) == request \notin OpenRequests
ManagesResources(request) == request \in ResourceRequests

CheckNotWorkload(user, request) == ~user.workload \/ request = "GetUserId"

CheckCredentialKind(at, request) ==
  at # NoTime \/ ~RequiresRecentLogin(request) \/ ManagesResources(request)

\* Mutant: a token from the future is recent.
RecentWhenever(window, at, now, request) ==
  \/ window = 0 \/ ~RequiresRecentLogin(request) \/ at = NoTime
  \/ now - at <= 2 * window

CheckRecentLogin(window, at, now, request) ==
  \/ window = 0 \/ ~RequiresRecentLogin(request) \/ at = NoTime
  \/ at <= now + Leeway /\ now - at <= window

----------------------------------------------------------------------------
(* Handling *)

AuthUsers == {[id |-> "ann", workload |-> FALSE], [id |-> "bot", workload |-> TRUE]}
UserOf(id) == CHOOSE u \in AuthUsers : u.id = id

AuthInit ==
  /\ instant = 0 /\ serverKey = 1 /\ disabledUsers = {}
  /\ storedKeys = [k \in {"api", "signing"} |-> "ann"]
  /\ arrived = NoCredential /\ step = "idle" /\ checkedAt = NoTime
  /\ credential = NoCredential /\ loginAt = NoTime /\ caller = "nobody" /\ response = 0

Answer(status) == /\ response' = status /\ step' = "answered"

\* The headers of a request are here. It carries a jwt, an api key with its
\* secret, a signature with a timestamp, or several of them.
Arrive ==
  /\ step = "idle"
  /\ \E request \in Credentials : arrived' = [request |-> request, at |-> instant]
  /\ step' = "headers"
  /\ UNCHANGED <<instant, storedKeys, disabledUsers, serverKey, checkedAt,
                 credential, loginAt, caller, response>>

Request == arrived.request
Has(kind) == kind \in DOMAIN Request.with

\* read_signed_request_body: only a signature that will be used is looked at,
\* and its timestamp is checked before the body is read; a request without one
\* goes on.
CheckHeaders ==
  /\ step = "headers"
  /\ IF ~Has("signature") \/ Has("jwt") \/ Has("apiKey")
     THEN step' = "extract" /\ UNCHANGED <<checkedAt, response>>
     ELSE IF TimestampFits(Request.timestamp, instant)
          THEN step' = "body" /\ checkedAt' = Request.timestamp /\ UNCHANGED response
          ELSE Answer(401) /\ UNCHANGED checkedAt
  /\ UNCHANGED <<instant, storedKeys, disabledUsers, serverKey, arrived,
                 credential, loginAt, caller>>

\* The failure rate limit refuses before the body is read, or the body is
\* larger than the limit, or it is read, after any time.
ReadBody ==
  /\ step = "body"
  /\ \/ step' = "extract" /\ UNCHANGED response
     \/ \E status \in {429, 413} : Answer(status)
  /\ UNCHANGED <<instant, storedKeys, disabledUsers, serverKey, arrived,
                 checkedAt, credential, loginAt, caller>>

\* Mutant: the timestamp is checked once more.
VerifySignatureNow(signature, timestamp) ==
  /\ TimestampFits(timestamp, instant)
  /\ signature.server = serverKey
  /\ signature.covers = Prologue(Request.method, Request.path, timestamp, Request.body)

\* verify_request_signature: for the timestamp that was checked, with the
\* server's key of this moment.
VerifySignature(signature, timestamp) ==
  /\ signature.server = serverKey
  /\ signature.covers = Prologue(Request.method, Request.path, timestamp, Request.body)

\* extract_request_authentication: a jwt before an api key before a signature.
\* attach_user notes when the login of a jwt was, if it is valid now.
Extract ==
  /\ step = "extract"
  /\ CASE Has("jwt") ->
            /\ credential' = Request.with.jwt
            /\ loginAt' = IF DecodeClaims(Request.with.jwt, instant)
                          THEN JwtAuthenticatedAt(Request.with.jwt) ELSE NoTime
            /\ step' = "identify" /\ UNCHANGED response
       [] ~Has("jwt") /\ Has("apiKey") ->
            /\ credential' = Request.with.apiKey
            /\ step' = "identify" /\ UNCHANGED <<loginAt, response>>
       [] ~Has("jwt") /\ ~Has("apiKey") /\ Has("signature") ->
            /\ IF VerifySignature(Request.with.signature, checkedAt)
               THEN /\ credential' = [kind |-> "signing", key |-> Request.with.signature.key]
                    /\ step' = "identify" /\ UNCHANGED response
               ELSE Answer(401) /\ UNCHANGED credential
            /\ UNCHANGED loginAt
       [] ~Has("jwt") /\ ~Has("apiKey") /\ ~Has("signature") ->
            Answer(401) /\ UNCHANGED <<credential, loginAt>>
  /\ UNCHANGED <<instant, storedKeys, disabledUsers, serverKey, arrived, checkedAt, caller>>

\* The user a credential stands for now: nobody if the jwt is not valid, the
\* key does not exist, or its secret is wrong.
Identified(c) ==
  CASE c.kind = "jwt" -> IF DecodeClaims(c, instant) THEN c.user ELSE "nobody"
    [] c.kind = "api" -> IF c.key \in DOMAIN storedKeys /\ c.secret
                         THEN storedKeys[c.key] ELSE "nobody"
    [] c.kind = "signing" -> IF c.key \in DOMAIN storedKeys
                             THEN storedKeys[c.key] ELSE "nobody"

\* get_user_from_request_authentication, with the whitelists of the key and of
\* the user; a disabled user may only ask for its own id.
Identify ==
  /\ step = "identify"
  /\ caller' = Identified(credential)
  /\ IF caller' = "nobody" THEN Answer(401)
     ELSE IF ~Request.allowedIp
             \/ (caller' \in disabledUsers /\ Request.request # "GetUserId")
     THEN Answer(403)
     ELSE step' = "guard" /\ UNCHANGED response
  /\ UNCHANGED <<instant, storedKeys, disabledUsers, serverKey, arrived,
                 checkedAt, credential, loginAt>>

\* handler: the guards, then the request is resolved.
Guard ==
  /\ step = "guard"
  /\ IF /\ CheckNotWorkload(UserOf(caller), Request.request)
        /\ CheckCredentialKind(loginAt, Request.request)
        /\ CheckRecentLogin(RecentWindow, loginAt, instant, Request.request)
     THEN Answer(200) ELSE Answer(403)
  /\ UNCHANGED <<instant, storedKeys, disabledUsers, serverKey, arrived,
                 checkedAt, credential, loginAt, caller>>

\* Meanwhile: time passes, keys are deleted, users disabled, the server's key
\* rotates.
Meanwhile ==
  /\ step # "answered"
  /\ \/ /\ instant < LastInstant /\ instant' = instant + 1
        /\ UNCHANGED <<storedKeys, disabledUsers, serverKey>>
     \/ \E key \in DOMAIN storedKeys :
          /\ storedKeys' = [k \in DOMAIN storedKeys \ {key} |-> storedKeys[k]]
          /\ UNCHANGED <<instant, disabledUsers, serverKey>>
     \/ /\ disabledUsers = {} /\ disabledUsers' = {"ann"}
        /\ UNCHANGED <<instant, storedKeys, serverKey>>
     \/ /\ serverKey = 1 /\ serverKey' = 2
        /\ UNCHANGED <<instant, storedKeys, disabledUsers>>
  /\ UNCHANGED <<arrived, step, checkedAt, credential, loginAt, caller, response>>

AuthNext ==
  \/ Arrive
  \/ CheckHeaders
  \/ ReadBody
  \/ Extract
  \/ Identify
  \/ Guard
  \/ Meanwhile

AuthSpec == AuthInit /\ [][AuthNext]_authVars

----------------------------------------------------------------------------
(* Properties *)

Answered == step = "answered"

\* A signed request is authenticated only as what was signed: its method, path
\* and body, with a timestamp that was recent when the headers came in
\* (client/rs/src/signature.rs: "never one with another method, path, query or
\* body").
SignedForThisRequest ==
  (Answered /\ response = 200 /\ credential.kind = "signing") =>
    LET signature == Request.with.signature
    IN  /\ signature.covers[1] = Request.method
        /\ signature.covers[2] = Request.path
        /\ signature.covers[4] = Request.body
        /\ signature.covers[3] >= arrived.at - Tolerance

\* A body that takes longer than the timestamp's tolerance does not make the
\* request late: once its headers passed, a signature that covers the request
\* is refused only because the server's key changed
\* (read_signed_request_body, SignedRequestBody).
SlowBodyIsNotLate ==
  (Answered /\ response = 401 /\ checkedAt # NoTime /\ caller = "nobody"
     /\ credential = NoCredential) =>
    LET signature == Request.with.signature
    IN  \/ signature.server # serverKey
        \/ signature.covers
             # Prologue(Request.method, Request.path, Request.timestamp, Request.body)

\* What changes an account needs a person's login of the window: no api key or
\* signing key, no workload, and not a token exchanged for an old login
\* (check_credential_kind, check_recent_login).
AccountNeedsRecentLogin ==
  (Answered /\ response = 200 /\ Request.request \in AccountRequests) =>
    /\ credential.kind = "jwt" /\ ~UserOf(caller).workload
    /\ RecentWindow > 0 =>
         /\ arrived.at - credential.iat <= RecentWindow
         /\ credential.auth_time # NoTime => arrived.at - credential.auth_time <= RecentWindow

\* A signature authenticates the request it was made for, all of it and no
\* other, also when its body is slow to arrive.
SignedAsSent == SignedForThisRequest /\ SlowBodyIsNotLate
=============================================================================
