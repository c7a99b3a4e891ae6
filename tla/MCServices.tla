----------------------------- MODULE MCServices -----------------------------
(***************************************************************************)
(* Checks the parts that change stored state on behalf of requests, one    *)
(* per behaviour: request authentication, accounts, login providers,       *)
(* secret files, the session store, the enrollment of second factors and   *)
(* the tokens of a browser's tabs.                                         *)
(* They share no state, so `part` picks the one that runs and the others   *)
(* stay as they began.                                                     *)
(***************************************************************************)
EXTENDS RequestAuth, Accounts, ExternalProviders, SecretFile, SessionStore, LoginTokens,
        Enrollment

VARIABLE part

----------------------------------------------------------------------------
(* Requests *)

RequestWith(with, request) ==
  [request |-> request, method |-> "POST", path |-> "/manage", body |-> "b",
   timestamp |-> NoTime, allowedIp |-> TRUE, with |-> with]
ApiKey == [kind |-> "api", key |-> "api", secret |-> TRUE]
SignedFor(path, body, ts) == SignRequest("signing", 1, "POST", path, ts, body)
SignedWith(signature, ts, request) ==
  [RequestWith([signature |-> signature], request) EXCEPT !.timestamp = ts]
Requests == {"UpdatePassword", "CreateTrustedIssuer", "GetUserId", "DeleteApiKey"}
Jwts == {EncodeJwt(u, now, ttl, at) :
           u \in {"ann", "bot"}, now \in 0..2, ttl \in {0, 3}, at \in {NoTime, 0, 3}}
MCCredentials ==
  {RequestWith([jwt |-> j], k) : j \in Jwts, k \in Requests}
  \cup {RequestWith([apiKey |-> ApiKey], k) : k \in Requests}
  \cup {RequestWith([apiKey |-> [ApiKey EXCEPT !.secret = FALSE]], "GetUserId"),
        [RequestWith([apiKey |-> ApiKey], "GetUserId") EXCEPT !.allowedIp = FALSE],
        RequestWith([none |-> TRUE], "GetUserId")}
  \cup {SignedWith(SignedFor(p, b, ts), h, k) :
          p \in {"/manage", "/login"}, b \in {"b", "c"}, ts \in 0..2,
          h \in {NoTime, 0, 2}, k \in Requests}

----------------------------------------------------------------------------
(* Accounts: three requests at the same time *)

UserNamed(name, enabled) ==
  [name |-> name, logins |-> {}, password |-> TRUE, enabled |-> enabled]
MCInitialUsers == {<<>>, <<UserNamed(<<"ann">>, FALSE), UserNamed(<<"bob">>, TRUE)>>}
Duties ==
  {[op |-> "sign up", name |-> <<"cyd">>],
   [op |-> "external login", login |-> "x", name |-> <<"cyd">>],
   [op |-> "external login", login |-> "x", name |-> <<"dan">>],
   [op |-> "link", user |-> 1, login |-> "x"], [op |-> "link", user |-> 2, login |-> "x"],
   [op |-> "rename", user |-> 2, name |-> <<"cyd">>],
   [op |-> "password", user |-> 2], [op |-> "unlink local", user |-> 2],
   [op |-> "unlink", user |-> 2],
   [op |-> "create key", user |-> 1, key |-> "k1"],
   [op |-> "create key", user |-> 2, key |-> "k1"],
   [op |-> "delete key", user |-> 2, key |-> "k1"]}
MCBatches == {{}} \cup kSubset(3, Duties)
MCLockedNames == {<<"demo">>}

----------------------------------------------------------------------------
(* Login providers: a static one, one that may be stored, three edits by    *)
(* two admins                                                              *)

ConfigOf(kind, url, secret) ==
  [kind |-> kind, url |-> url, secret |-> secret, enabled |-> TRUE, allowed |-> {},
   admins |-> {}, claim |-> <<>>, fullEmail |-> FALSE]
Gated(url, secret) ==
  [ConfigOf("oidc", url, secret) EXCEPT !.allowed = {"staff"}, !.admins = {"root"},
                                        !.claim = <<"realm", "roles">>, !.fullEmail = TRUE]
Stored(id, slug, config) == [f \in DOMAIN config \cup {"id", "slug"} |->
                               CASE f = "id" -> id [] f = "slug" -> slug [] OTHER -> config[f]]
NoExchange == [enabled |-> FALSE, audiences |-> {}]
Creates(name, slug, config) ==
  [op |-> "create", byAdmin |-> TRUE, name |-> name, slug |-> slug,
   exchange |-> NoExchange, config |-> config]
Changes(slug, clear, config) ==
  [op |-> "update", byAdmin |-> TRUE, id |-> IdOf(0), name |-> <<"b">>, slug |-> slug,
   clear |-> clear, exchange |-> NoExchange, config |-> config]
Removes(id) == [op |-> "delete", byAdmin |-> TRUE, id |-> id]
MCStaticProviders == <<Stored(<<"s">>, <<>>, ConfigOf("github", "", "g"))>>
MCStoredAtStart == {<<>>, <<Stored(IdOf(0), <<"a">>, ConfigOf("oidc", "u1", "s1"))>>}
SomeEdits ==
  {Creates(<<"!", "A", "!">>, <<>>, ConfigOf("oidc", "u1", "s3")),
   Creates(<<"A", "a", "!", "b">>, <<>>, ConfigOf("google", "", "s3")),
   Creates(<<"b">>, <<"s">>, Gated("u2", "s3")),
   Changes(<<"b">>, FALSE, ConfigOf("oidc", "u1", "redacted")),
   Changes(<<>>, FALSE, Gated("u2", "s2")),
   Changes(<<>>, FALSE, ConfigOf("oidc", "u2", "")),
   Changes(<<>>, TRUE, ConfigOf("oidc", "u2", "")),
   Removes(IdOf(0)), Removes(<<"s">>)}
MCAgendas == {{}} \cup kSubset(3, SomeEdits)
MCUrls == {<<"a">>, <<"b">>, <<"s">>, <<"a", "a">>, <<"!">>}

TextClaim(t) == [type |-> "text", value |-> t]
ListClaim(s) == [type |-> "list", value |-> s]
ObjectClaim(fields) == [type |-> "object", value |-> fields]
OneClaim(at, v) == [n \in {at} |-> v]
MCResponses ==
  {[token |-> t, claims |-> c, userInfo |-> i, tokenNames |-> [f \in {"preferred"} |-> ""],
    names |-> [f \in {"name"} |-> "n"], subject |-> "sub"] :
     t \in {<<>>, OneClaim(<<"realm", "roles">>, ListClaim(<<TextClaim("staff"), TextClaim("x")>>)),
            OneClaim(<<"realm">>, ObjectClaim(OneClaim(<<"roles">>, TextClaim("root")))),
            OneClaim(<<"realm">>, ListClaim(<<TextClaim("x"), [type |-> "number"]>>)),
            OneClaim(<<"groups">>, TextClaim("x"))},
     c \in {<<>>, OneClaim(<<"realm", "roles">>, TextClaim("root"))},
     i \in {"unavailable", "sent"}}

----------------------------------------------------------------------------
(* Files: what can be found at the path, and one thing out of the ordinary  *)

MCFileSystems ==
  {f \in FileSystem :
     /\ f.parent = "missing" => f.found = Absent /\ f.dirWritable
     /\ f.found # Original =>
          f = [f EXCEPT !.hardLinked = FALSE, !.ownerOnlyDir = FALSE, !.fileWritable = TRUE,
                        !.identity = "kept", !.sticky = TRUE, !.rename = "ok"]
     /\ ~f.hardLinked => ~f.ownerOnlyDir
     /\ f.identity # "not permitted" => f.sticky
     /\ f.dirSync # "ok" => f.identity = "kept" /\ f.rename = "ok"}

----------------------------------------------------------------------------
(* Enrollments: ann begins one, the cookie jar is hers and bob's            *)

Asks(op, f, u) == [op |-> op, factor |-> f, user |-> u]
TotpPlan(rest) == <<Asks("begin", "totp", "ann")>> \o [i \in DOMAIN rest |->
                     Asks(rest[i][1], "totp", rest[i][2])]
MCPlans ==
  {<<>>} \cup
  {TotpPlan(rest) : rest \in
     {<<<<"confirm", "ann">>, <<"login", "ann">>, <<"login", "ann">>>>,
      <<<<"confirm", "bob">>, <<"confirm", "ann">>, <<"login", "ann">>>>,
      <<<<"confirm", "ann">>, <<"confirm", "ann">>, <<"login", "ann">>>>,
      <<<<"begin", "bob">>, <<"confirm", "ann">>, <<"confirm", "bob">>>>,
      <<<<"begin", "ann">>, <<"confirm", "ann">>, <<"login", "ann">>>>,
      <<<<"confirm", "ann">>, <<"unenroll", "ann">>, <<"confirm", "ann">>>>}}
  \cup {<<Asks("begin", "passkey", "ann"), Asks("confirm", "passkey", "bob"),
          Asks("confirm", "passkey", "ann"), Asks("unenroll", "passkey", "ann")>>,
        <<Asks("begin", "passkey", "ann"), Asks("begin", "totp", "bob"),
          Asks("confirm", "passkey", "ann"), Asks("confirm", "totp", "ann")>>}

----------------------------------------------------------------------------
serviceVars == <<authVars, accountVars, providerVars, fileVars, storeVars, tabVars,
                 enrollVars, part>>

\* A part that does not run begins in one state.
ServicesInit ==
  /\ part \in {"requests", "accounts", "providers", "files", "sessions", "tabs", "enrollment"}
  /\ IF part = "files" THEN TRUE ELSE fs = CHOOSE f \in FileSystems : TRUE
  /\ IF part = "accounts" THEN TRUE ELSE users = <<>> /\ duty = NewDuties({})
  /\ IF part = "providers" THEN TRUE ELSE catalog = <<>> /\ agenda = {}
  /\ IF part = "tabs" THEN TRUE ELSE storage = SignedOut
  /\ IF part = "enrollment" THEN TRUE ELSE plan = <<>>
  /\ FileInit /\ EnrollInit /\ AccountsInit /\ ProvidersInit /\ TokensInit /\ AuthInit /\ StoreInit

ServicesNext ==
  /\ UNCHANGED part
  /\ \/ /\ part = "requests" /\ AuthNext
        /\ UNCHANGED <<accountVars, providerVars, fileVars, storeVars, tabVars, enrollVars>>
     \/ /\ part = "accounts" /\ AccountsNext
        /\ UNCHANGED <<authVars, providerVars, fileVars, storeVars, tabVars, enrollVars>>
     \/ /\ part = "providers" /\ ProvidersNext
        /\ UNCHANGED <<authVars, accountVars, fileVars, storeVars, tabVars, enrollVars>>
     \/ /\ part = "files" /\ FileNext
        /\ UNCHANGED <<authVars, accountVars, providerVars, storeVars, tabVars, enrollVars>>
     \/ /\ part = "sessions" /\ StoreNext
        /\ UNCHANGED <<authVars, accountVars, providerVars, fileVars, tabVars, enrollVars>>
     \/ /\ part = "tabs" /\ TokensNext
        /\ UNCHANGED <<authVars, accountVars, providerVars, fileVars, storeVars, enrollVars>>
     \/ /\ part = "enrollment" /\ EnrollNext
        /\ UNCHANGED <<authVars, accountVars, providerVars, fileVars, storeVars, tabVars>>

ServicesSpec == ServicesInit /\ [][ServicesNext]_serviceVars
=============================================================================
