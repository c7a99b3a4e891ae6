--------------------------- MODULE TokenExchange ---------------------------
(***************************************************************************)
(* The decisions of the RFC 8693 token endpoint (auth/server/src/api/      *)
(* token.rs, provider/token_exchange.rs and the matching of provider/      *)
(* workload.rs): which providers and trusted issuers are asked about a     *)
(* token, what verifies, which rule its claims match and what is answered. *)
(* Signatures are external; text is a sequence of characters only where    *)
(* patterns are matched.                                                   *)
(***************************************************************************)
EXTENDS Integers, Sequences, FiniteSets, SequencesExt, FiniteSetsExt

CONSTANTS
  Patterns, Texts,     \* patterns and values to match
  ClaimObjects, Paths, \* claims of tokens, and paths to look up in them
  ObjectsWithin,       \* those and the objects within them
  MaxClaimPathParts,   \* MAX_CLAIM_PATH_PARTS (16)
  Tokens,              \* tokens presented, see Verify
  Providers, Issuers   \* lists of login providers and of trusted issuers

VARIABLES
  presented,  \* what is matched or exchanged
  asking,     \* the places of the providers or trusted issuers still to ask
  got,        \* how far those asked got with the token
  rejection,  \* why the login providers rejected it
  outcome     \* the answer

tokenVars == <<presented, asking, got, rejection, outcome>>

Nothing == [nothing |-> TRUE]

----------------------------------------------------------------------------
(* Matching *)

Stars(pattern) == {k \in DOMAIN pattern : pattern[k] = "*"}

\* str::find: where a part occurs in a text of which `from` characters are taken.
Occurrences(text, from, part) ==
  {n \in from..(Len(text) - Len(part)) : SubSeq(text, n + 1, n + Len(part)) = part}

NotFound == -1

\* The loop over the parts of a pattern between its stars (str::split('*')):
\* the first has to begin the value, the others are looked for after the one
\* before. For each star, how much of the value is taken by the parts up to it.
TakenAt(pattern, value) ==
  LET stars == Stars(pattern)
      taken[k \in stars] ==
        LET before == {j \in stars : j < k}
            part == SubSeq(pattern, Max({0} \cup before) + 1, k - 1)
        IN  IF before = {} THEN IF IsPrefix(part, value) THEN Len(part) ELSE NotFound
            ELSE LET from == taken[Max(before)]
                     found == Occurrences(value, from, part)
                 IN  IF from = NotFound \/ found = {} THEN NotFound
                     ELSE Min(found) + Len(part)
  IN  taken

\* Mutant: the last part is looked for like the others.
GlobMatchOpenEnd(pattern, value) ==
  LET stars == Stars(pattern)
      last == Max(stars)
      from == TakenAt(pattern, value)[last]
  IN  IF stars = {} THEN pattern = value
      ELSE /\ from # NotFound
           /\ Occurrences(value, from, SubSeq(pattern, last + 1, Len(pattern))) # {}

\* The last part has to end the value, without a star it is the value.
GlobMatch(pattern, value) ==
  LET stars == Stars(pattern)
      last == Max(stars)
      from == TakenAt(pattern, value)[last]
  IN  IF stars = {} THEN pattern = value
      ELSE /\ from # NotFound
           /\ Len(value) - (Len(pattern) - last)
                \in Occurrences(value, from, SubSeq(pattern, last + 1, Len(pattern)))

\* A claim is text, a list of claims or an object: names (sequences of the
\* parts between dots) with their claims.
IsObject(claim) == claim.type = "object"

\* The claims of tokens are objects, and objects within them.
ASSUME ClaimsAssumption ==
  /\ ClaimObjects \subseteq ObjectsWithin
  /\ \A object \in ObjectsWithin : \A name \in DOMAIN object :
       /\ object[name] # Nothing
       /\ IsObject(object[name]) => object[name].value \in ObjectsWithin

\* Mutant: the first name that exists decides.
LookupClaimGreedy(object, path) ==
  LET Name(m, k) == SubSeq(path, Len(path) - m + 1, Len(path) - m + k)
      lookup[m \in 0..Len(path)] ==
        [o \in ObjectsWithin |->
          LET known == {k \in 1..m : Name(m, k) \in DOMAIN o}
              k == Max(known)
              claim == o[Name(m, k)]
          IN  IF known = {} THEN Nothing
              ELSE IF k = m THEN claim
              ELSE IF IsObject(claim) THEN lookup[m - k][claim.value] ELSE Nothing]
  IN  IF path = <<>> \/ Len(path) > MaxClaimPathParts THEN Nothing
      ELSE lookup[Len(path)][object]

\* The claim at a path: of all the splits that lead to one, the longest name
\* first. lookup[m][o] is the one at the last m parts in o.
LookupClaim(object, path) ==
  LET Name(m, k) == SubSeq(path, Len(path) - m + 1, Len(path) - m + k)
      lookup[m \in 0..Len(path)] ==
        [o \in ObjectsWithin |->
          LET Found(k) ==
                LET claim == o[Name(m, k)]
                IN  IF k = m THEN claim
                    ELSE IF IsObject(claim) THEN lookup[m - k][claim.value]
                    ELSE Nothing
              leading == {k \in 1..m : Name(m, k) \in DOMAIN o /\ Found(k) # Nothing}
          IN  IF leading = {} THEN Nothing ELSE Found(Max(leading))]
  IN  IF path = <<>> \/ Len(path) > MaxClaimPathParts THEN Nothing
      ELSE lookup[Len(path)][object]

\* A list matches if one of its claims does.
ClaimMatches(object, condition) ==
  \E claim \in {LookupClaim(object, condition.path)} \ {Nothing} :
    \E c \in IF claim.type = "list" THEN Range(claim.value) ELSE {claim} :
      c.type = "text" /\ GlobMatch(condition.pattern, c.value)

\* The first enabled rule with conditions the claims all meet.
MatchRule(rules, object) ==
  LET Meets(rule) == /\ rule.enabled /\ rule.conditions # {}
                     /\ \A c \in rule.conditions : ClaimMatches(object, c)
      matching == SelectSeq(rules, Meets)
  IN  IF matching = <<>> THEN Nothing ELSE matching[1]

----------------------------------------------------------------------------
(* Verifying a token *)

\* A claim the token does not have.
Absent == -9

\* How far the clock of the provider may be ahead.
ClockSkewTolerance == 1

\* A token: whether it parses, what signed it, for whom, and its times.
CheckNotBefore(token, now) ==
  token.nbf = Absent \/ token.nbf <= now + ClockSkewTolerance

\* A maximum age of 0 is no limit.
CheckTokenAge(issuedAt, now, maxAge) ==
  maxAge = 0 \/ (now - issuedAt >= -ClockSkewTolerance /\ now - issuedAt <= maxAge)

\* Mutant: at the time of the exchange.
AuthenticatedNow(token, now) == now

\* When the provider authenticated the user, at most now.
AuthenticatedAt(token, now) ==
  LET at == IF token.auth_time # Absent THEN token.auth_time ELSE token.iat
      known == IF at < 0 THEN 0 ELSE at
  IN  IF known < now THEN known ELSE now

IsAsymmetric(alg) == alg = "asymmetric"

\* openidconnect's verifier for one audience.
ClaimsFor(token, audience, audiences, trusted, now) ==
  /\ IsAsymmetric(token.alg) /\ token.signed /\ token.exp > now
  /\ audience \in token.aud /\ token.aud \subseteq audiences \cup trusted

\* Verified for one of the audiences, and no security event, not too early
\* and not too old.
Verify(token, audiences, trusted, maxAge, now) ==
  /\ \E audience \in audiences : ClaimsFor(token, audience, audiences, trusted, now)
  /\ ~token.events
  /\ CheckNotBefore(token, now)
  /\ CheckTokenAge(token.iat, now, maxAge)

----------------------------------------------------------------------------
(* The exchange: answers are a token or an error of RFC 6749 *)

Error(code) == [error |-> code]
InvalidRequest == Error("invalid_request")
InvalidGrant == Error("invalid_grant")
TemporarilyUnavailable == Error("temporarily_unavailable")
ServerError == Error("server_error")
Accepted == [accepted |-> TRUE]

\* The request's parameters: Nothing if they are valid.
ValidateRequest(request) ==
  IF ~request.grant THEN Error("unsupported_grant_type")
  ELSE IF /\ request.subjectType /\ ~request.actor
          /\ request.subject /\ request.requestedType
       THEN Nothing ELSE InvalidRequest

IsRole(role, name) == role = "any" \/ role = name

\* Providers asked about the token: enabled, opted in, of the issuer it
\* claims, and of the role if one is named.
ExchangeCandidates(providers, role) ==
  {k \in DOMAIN providers :
     LET p == providers[k]
     IN  p.enabled /\ p.optedIn /\ p.sameIssuer /\ IsRole(role, p.name)}

\* Trusted issuers asked: enabled, of the issuer, with a rule of the role.
IssuerCandidates(issuers, role) ==
  {k \in DOMAIN issuers :
     LET i == issuers[k]
     IN  i.enabled /\ i.sameIssuer /\ \E r \in Range(i.rules) : IsRole(role, r.name)}

\* One turn of the loop over providers: its client cannot be loaded, it
\* rejects the token (or its groups), it has no user for it, looking the user
\* up fails, or it accepts.
ProviderOutcome(p, token, now) ==
  CASE ~p.available -> "unavailable"
    [] p.available /\ ~(Verify(token, p.audiences, p.trusted, p.maxAge, now)
                          /\ p.allowedGroups) -> "rejected"
    [] p.available /\ Verify(token, p.audiences, p.trusted, p.maxAge, now)
                   /\ p.allowedGroups ->
         CASE p.user = "unknown" -> "verified"
           [] p.user = "failing" -> "failed"
           [] p.user = "known" -> "accepted"

\* The same for a trusted issuer: verified without a matching rule, or
\* matched by a rule without an id of its own (check_rule_id).
IssuerOutcome(i, token, role, now) ==
  LET rules == SelectSeq(i.rules, LAMBDA r : IsRole(role, r.name))
      rule == MatchRule(rules, token.claims)
      unique == Cardinality({k \in DOMAIN i.rules : i.rules[k].id = rule.id}) = 1
  IN  IF ~i.available THEN "unavailable"
      ELSE IF ~Verify(token, i.audiences, {}, i.maxAge, now) THEN "rejected"
      ELSE IF rule = Nothing THEN "verified"
      ELSE IF unique THEN "accepted" ELSE "failed"

\* Mutant: a rejection is reported before a provider that was not asked.
FurthestRejectionFirst(outcomes) ==
  IF outcomes \cap {"verified", "rejected"} # {} \/ "unavailable" \notin outcomes
  THEN InvalidGrant ELSE TemporarilyUnavailable

\* Without a candidate that accepts or fails: the furthest any got, one that
\* verified the token, one that could not be asked, one that rejected it.
Furthest(outcomes) ==
  IF "verified" \in outcomes \/ "unavailable" \notin outcomes
  THEN InvalidGrant ELSE TemporarilyUnavailable

\* Patterns, texts and paths are sequences, providers and issuers are lists,
\* and times are numbers.
ASSUME TokensAssumption ==
  /\ MaxClaimPathParts \in Nat
  /\ \A s \in Patterns \cup Texts \cup Paths \cup Providers \cup Issuers : s \in Seq(Range(s))
  /\ \A token \in Tokens : {token.exp, token.nbf, token.auth_time, token.iat} \subseteq Int
  /\ \A list \in Providers : \A k \in DOMAIN list : list[k].maxAge \in Nat

TokenInit ==
  /\ presented = Nothing /\ asking = {} /\ got = {}
  /\ rejection = Nothing /\ outcome = Nothing

Now == 2

\* glob_match and lookup_claim on their own.
MatchText(pattern, text) ==
  /\ presented' = [pattern |-> pattern, text |-> text]
  /\ outcome' = [matches |-> GlobMatch(pattern, text)]
  /\ UNCHANGED <<asking, got, rejection>>

FindClaim(object, path) ==
  /\ presented' = [object |-> object, path |-> path]
  /\ outcome' = LookupClaim(object, path)
  /\ UNCHANGED <<asking, got, rejection>>

\* exchange: a request that is not valid is answered.
RefuseRequest(request) ==
  /\ ValidateRequest(request) # Nothing
  /\ presented' = [request |-> request]
  /\ outcome' = ValidateRequest(request)
  /\ UNCHANGED <<asking, got, rejection>>

\* Otherwise the login providers are asked first, unless the token is not a JWT.
BeginExchange(token, providers, issuers, role) ==
  /\ presented' = [token |-> token, providers |-> providers,
                   issuers |-> issuers, role |-> role, stage |-> "providers"]
  /\ outcome' = IF token.jwt THEN Nothing ELSE InvalidGrant
  /\ asking' = ExchangeCandidates(providers, role)
  /\ UNCHANGED <<got, rejection>>

Exchanging(stage) == /\ presented # Nothing /\ outcome = Nothing
                     /\ "stage" \in DOMAIN presented /\ presented.stage = stage

\* The loop of verify_exchange and of verify_workload: the first that accepts
\* or fails ends it.
Ask ==
  /\ asking # {} /\ (Exchanging("providers") \/ Exchanging("issuers"))
  /\ \E next \in {Min(asking)} :
       \E answer \in {IF presented.stage = "providers"
                      THEN ProviderOutcome(presented.providers[next], presented.token, Now)
                      ELSE IssuerOutcome(presented.issuers[next], presented.token,
                                         presented.role, Now)} :
         /\ got' = got \cup {answer}
         /\ asking' = IF answer \in {"accepted", "failed"} THEN {} ELSE asking \ {next}
         /\ presented' = IF answer = "accepted"
                         THEN [presented EXCEPT !.stage = IF @ = "providers" THEN "user"
                                                          ELSE "workload"]
                         ELSE presented
  /\ UNCHANGED <<rejection, outcome>>

\* Why nobody accepted the token, Nothing if nobody was asked.
Rejected == IF got = {} THEN Nothing
            ELSE IF "failed" \in got THEN ServerError ELSE Furthest(got)

\* Then the trusted issuers are asked.
ProvidersDone ==
  /\ Exchanging("providers") /\ asking = {}
  /\ rejection' = Rejected
  /\ asking' = IssuerCandidates(presented.issuers, presented.role)
  /\ presented' = [presented EXCEPT !.stage = "issuers"]
  /\ got' = {}
  /\ UNCHANGED outcome

\* Of two rejections the login providers' is reported.
IssuersDone ==
  /\ Exchanging("issuers") /\ asking = {}
  /\ outcome' = CASE rejection # Nothing -> rejection
                  [] rejection = Nothing /\ Rejected # Nothing -> Rejected
                  [] rejection = Nothing /\ Rejected = Nothing -> InvalidGrant
  /\ UNCHANGED <<presented, asking, got, rejection>>

\* complete_exchange: the whitelist and the second factor of the user. The
\* login counts from when the provider authenticated the user.
CompleteExchange(user) ==
  /\ Exchanging("user")
  /\ outcome' = IF user.whitelisted /\ ~user.secondFactor
                THEN [user |-> TRUE, authenticatedAt |-> AuthenticatedAt(presented.token, Now)]
                ELSE InvalidGrant
  /\ UNCHANGED <<presented, asking, got, rejection>>

\* complete_workload: the user has to be a workload's, enabled, and no admin
\* but by its rule. Its login is not a recent one of anybody.
CompleteWorkload(user) ==
  /\ Exchanging("workload")
  /\ outcome' = IF ~user.isWorkload THEN ServerError
                ELSE IF user.enabled /\ user.adminByRule /\ user.whitelisted
                        /\ ~user.secondFactor
                THEN [workload |-> TRUE] ELSE InvalidGrant
  /\ UNCHANGED <<presented, asking, got, rejection>>

\* The status an answer is sent with (token_exchange_error).
StatusOf(answer) ==
  IF "error" \notin DOMAIN answer THEN 200
  ELSE IF answer = TemporarilyUnavailable THEN 503
  ELSE IF answer = ServerError THEN 500 ELSE 400

GoodRequest == [grant |-> TRUE, subjectType |-> TRUE, actor |-> FALSE,
                subject |-> TRUE, requestedType |-> TRUE]
GoodUser == [whitelisted |-> TRUE, secondFactor |-> FALSE, isWorkload |-> TRUE,
             enabled |-> TRUE, adminByRule |-> TRUE]
Flip(record, fields) == [f \in DOMAIN record |-> IF f \in fields THEN ~record[f] ELSE record[f]]
AllBut(record) == {record} \cup {Flip(record, {f}) : f \in DOMAIN record}

TokenNext ==
  \/ /\ presented = Nothing
     /\ \/ \E pattern \in Patterns, text \in Texts : MatchText(pattern, text)
        \/ \E object \in ClaimObjects, path \in Paths : FindClaim(object, path)
        \/ \E request \in AllBut(GoodRequest) : RefuseRequest(request)
        \/ \E token \in Tokens, role \in {"any", "ci"} :
             \E providers \in Providers, issuers \in Issuers :
               BeginExchange(token, providers, issuers, role)
  \/ Ask
  \/ ProvidersDone
  \/ IssuersDone
  \/ \E user \in AllBut(GoodUser) : CompleteExchange(user) \/ CompleteWorkload(user)

TokenSpec == TokenInit /\ [][TokenNext]_tokenVars

----------------------------------------------------------------------------
(* Reference definitions *)

\* What a pattern means: a star is any text, anything else itself. The first k
\* of the pattern stand for the first cut[k] of the value.
Denotes(pattern, value) ==
  \E cut \in [0..Len(pattern) -> 0..Len(value)] :
    /\ cut[0] = 0 /\ cut[Len(pattern)] = Len(value)
    /\ \A k \in 1..Len(pattern) :
         IF pattern[k] = "*" THEN cut[k - 1] <= cut[k]
         ELSE cut[k] = cut[k - 1] + 1 /\ value[cut[k]] = pattern[k]

\* The claims that some way of cutting the path into names leads to: those of
\* its last m parts in o.
Reachable(object, path) ==
  LET Name(m, k) == SubSeq(path, Len(path) - m + 1, Len(path) - m + k)
      reach[m \in 0..Len(path)] ==
        [o \in ObjectsWithin |->
          UNION {LET claim == o[Name(m, k)] IN
                         IF k = m THEN {claim}
                         ELSE IF IsObject(claim) THEN reach[m - k][claim.value] ELSE {} :
                         k \in {k \in 1..m : Name(m, k) \in DOMAIN o}}]
  IN  reach[Len(path)][object]

----------------------------------------------------------------------------
(* Properties *)

\* A pattern matches what it means: the greedy search for its parts (glob_match)
\* misses nothing that some way of filling the stars allows.
GlobMeansPattern ==
  (presented # Nothing /\ "pattern" \in DOMAIN presented) =>
    outcome.matches = Denotes(presented.pattern, presented.text)

\* Looking a claim up finds one if there is any way to cut the path into names
\* that leads to one (lookup_claim): a longer name that is a dead end does not
\* hide a shorter one. A path that is empty or too long leads nowhere.
LookupIsComplete ==
  (presented # Nothing /\ "object" \in DOMAIN presented) =>
    LET reachable == IF Len(presented.path) \in 1..MaxClaimPathParts
                     THEN Reachable(presented.object, presented.path) ELSE {}
    IN  IF reachable = {} THEN outcome = Nothing ELSE outcome \in reachable

AnsweredExchange == /\ presented # Nothing /\ "stage" \in DOMAIN presented
                    /\ outcome # Nothing

\* A token that a login provider verified cannot be replayed into a fresher
\* login: the app token's login is no later than what the provider's token
\* says, nor than now, and the token is for an audience of a provider that was
\* asked (verify, authenticated_at).
ReplayIsNoLogin ==
  (AnsweredExchange /\ "user" \in DOMAIN outcome) =>
    LET token == presented.token
    IN  /\ outcome.authenticatedAt <= Now
        /\ \/ outcome.authenticatedAt = 0
           \/ outcome.authenticatedAt <= IF token.auth_time # Absent THEN token.auth_time
                                          ELSE token.iat
        /\ token.exp > Now
        /\ \E p \in Range(presented.providers) :
             /\ p.enabled /\ p.optedIn /\ p.sameIssuer
             /\ token.aud \cap p.audiences # {}
             /\ p.maxAge > 0 => Now - token.iat <= p.maxAge

\* The furthest a candidate of one kind gets is what is reported.
Verdict(outcomes) ==
  IF "verified" \in outcomes THEN 400
  ELSE IF "unavailable" \in outcomes THEN 503 ELSE 400

OutcomesOf(exchange) ==
  [providers |-> {ProviderOutcome(exchange.providers[k], exchange.token, Now) :
                    k \in ExchangeCandidates(exchange.providers, exchange.role)},
   issuers |-> {IssuerOutcome(exchange.issuers[k], exchange.token, exchange.role, Now) :
                  k \in IssuerCandidates(exchange.issuers, exchange.role)}]

\* Where only login providers, or only trusted issuers, take the token's
\* issuer: a rejected token is a temporary failure if one could not be asked and
\* none verified it, and the token's fault otherwise (the docs of the module).
FurthestIsReported ==
  (AnsweredExchange /\ presented.token.jwt /\ presented.stage = "issuers") =>
    \A all \in {OutcomesOf(presented)} :
      LET outcomes == all.providers \cup all.issuers
      IN  ((all.providers = {} \/ all.issuers = {}) /\ outcomes \cap {"accepted", "failed"} = {})
            => StatusOf(outcome) = Verdict(outcomes)

\* The docs of the module say the same of login providers and trusted issuers
\* together: "when another login provider / trusted issuer of the same issuer
\* couldn't be loaded" (api/token.rs:28).
UnaskedIsTemporary ==
  (AnsweredExchange /\ presented.token.jwt /\ presented.stage = "issuers") =>
    \A all \in {OutcomesOf(presented)} :
      LET outcomes == all.providers \cup all.issuers
      IN  outcomes \cap {"accepted", "failed"} = {} => StatusOf(outcome) = Verdict(outcomes)

\* A rule's condition holds exactly when its claim path leads to a value its
\* pattern means (glob_match, lookup_claim).
ConditionsMeanPatterns == GlobMeansPattern /\ LookupIsComplete

\* An exchange answers with no fresher login than the token shows, and with
\* the furthest any candidate got when it has none.
ExchangeAnswers == ReplayIsNoLogin /\ FurthestIsReported
=============================================================================
