------------------------------ MODULE MCInputs ------------------------------
(***************************************************************************)
(* Checks what the server makes of outside input, one kind per behaviour:  *)
(* tokens to exchange, forwarding headers, configuration files and the     *)
(* bytes of a connection. They share no state, so `part` picks the one     *)
(* that runs and the others stay as they began.                            *)
(***************************************************************************)
EXTENDS TokenExchange, ClientIp, Config, HeaderTimeout

VARIABLE part

----------------------------------------------------------------------------
(* Tokens *)

SeqsUpTo(S, n) == UNION {[1..k -> S] : k \in 0..n}
MCPatterns == SeqsUpTo({"a", "b", "*"}, 4)
MCTexts == SeqsUpTo({"a", "b"}, 4)

TextClaim(t) == [type |-> "text", value |-> t]
ObjectClaim(fields) == [type |-> "object", value |-> fields]
Leaves == {TextClaim(<<"a">>), [type |-> "list", value |-> <<TextClaim(<<"b">>)>>]}
Inner == {[n \in names |-> TextClaim(<<"b">>)] : names \in SUBSET {<<"x">>, <<"y">>, <<"y", "x">>}}
MCClaimObjects == UNION {[names -> Leaves \cup {ObjectClaim(i) : i \in Inner}] :
                           names \in SUBSET {<<"x">>, <<"x", "y">>}}
MCObjectsWithin == MCClaimObjects \cup Inner
MCPaths == SeqsUpTo({"x", "y"}, 3) \cup {<<"x", "x", "x", "x">>}

GoodToken ==
  [jwt |-> TRUE, alg |-> "asymmetric", signed |-> TRUE, exp |-> 3, aud |-> {"app"},
   events |-> FALSE, nbf |-> Absent, auth_time |-> Absent, iat |-> 1,
   claims |-> [n \in {<<"x">>} |-> TextClaim(<<"a">>)]]
MCTokens ==
  {GoodToken, [GoodToken EXCEPT !.jwt = FALSE], [GoodToken EXCEPT !.alg = "symmetric"],
   [GoodToken EXCEPT !.signed = FALSE], [GoodToken EXCEPT !.events = TRUE],
   [GoodToken EXCEPT !.exp = 2], [GoodToken EXCEPT !.claims = <<>>]}
  \cup {[GoodToken EXCEPT !.aud = a] : a \in {{"app", "other"}, {"cli", "trusted"}}}
  \cup {[GoodToken EXCEPT !.nbf = t] : t \in {3, 4}}
  \cup {[GoodToken EXCEPT !.auth_time = t] : t \in {-1, 0, 3}}
  \cup {[GoodToken EXCEPT !.iat = t] : t \in {-1, 3, 4}}

\* A login provider, and one that differs.
GoodProvider ==
  [enabled |-> TRUE, optedIn |-> TRUE, sameIssuer |-> TRUE, name |-> "login",
   available |-> TRUE, audiences |-> {"app"}, trusted |-> {"trusted"}, maxAge |-> 0,
   allowedGroups |-> TRUE, user |-> "known"]
OtherProviders ==
  {[GoodProvider EXCEPT !.available = FALSE], [GoodProvider EXCEPT !.enabled = FALSE],
   [GoodProvider EXCEPT !.optedIn = FALSE], [GoodProvider EXCEPT !.sameIssuer = FALSE],
   [GoodProvider EXCEPT !.audiences = {"cli"}, !.maxAge = 2],
   [GoodProvider EXCEPT !.user = "unknown", !.name = "ci"],
   [GoodProvider EXCEPT !.user = "failing"], [GoodProvider EXCEPT !.allowedGroups = FALSE]}
MCProviders == {<<>>, <<GoodProvider>>} \cup {<<p>> : p \in OtherProviders}
                 \cup {<<p, GoodProvider>> : p \in OtherProviders}

RuleFor(id, name, pattern) ==
  [id |-> id, name |-> name, enabled |-> TRUE,
   conditions |-> {[path |-> <<"x">>, pattern |-> pattern]}]
GoodIssuer ==
  [enabled |-> TRUE, sameIssuer |-> TRUE, available |-> TRUE, audiences |-> {"app"},
   maxAge |-> 0, rules |-> <<RuleFor(1, "deploy", <<"b">>), RuleFor(2, "ci", <<"*">>)>>]
OtherIssuers ==
  {[GoodIssuer EXCEPT !.available = FALSE], [GoodIssuer EXCEPT !.audiences = {"cli"}],
   [GoodIssuer EXCEPT !.enabled = FALSE],
   [GoodIssuer EXCEPT !.rules = <<RuleFor(1, "ci", <<"b">>)>>],
   [GoodIssuer EXCEPT !.rules = <<RuleFor(1, "ci", <<"a">>), RuleFor(1, "deploy", <<"b">>)>>]}
MCIssuers == {<<>>, <<GoodIssuer>>} \cup {<<i>> : i \in OtherIssuers}
               \cup {<<i, GoodIssuer>> : i \in OtherIssuers}

----------------------------------------------------------------------------
(* Forwarding headers and whitelists *)

MCProxyConfigs ==
  {<<>>, <<Keyword("all")>>, <<Keyword("none")>>, <<Keyword("blank")>>, <<Invalid>>,
   <<Keyword("all"), Keyword("private")>>, <<Keyword("private"), V4(1)>>, <<V6(13)>>}
MCSentValues ==
  {<<>>, NotText, <<V4(2)>>, <<WithPort(V4(0)), BlankEntry>>, <<V4(1), V4(3)>>,
   <<Garbage, V6(14)>>}
MCClientIps == {V4(0), V4(3), V6(12)}
MCProxyIps == {V4(0), V4(1), V4(2)}
MCWhitelists ==
  {<<>>, <<Invalid>>, <<V6(13), V4(2)>>}
  \cup {<<[ip |-> V6(n), len |-> l]>> : n \in {3, 12, 14}, l \in 0..4}
  \cup {<<[ip |-> V4(n), len |-> l]>> : n \in {0, 3}, l \in 0..2}

----------------------------------------------------------------------------
(* Configuration files: two directories, a link and an env file behind it,  *)
(* a file that does not parse, a cicada source.                             *)

FileNames == {"base", "local", "link", "secret", "shared", "broken", "vault", "A", "B", "gone"}
Plain(x) == <<Literal(x)>>
EnvNames == {<<"a">>, <<"a", "b">>, <<"a", "b", "c">>, <<"", "a">>}
EnvFiles == {<<[name |-> m, text |-> <<Command("steal")>>], [name |-> n, text |-> Plain("x")],
               [name |-> <<"b">>, text |-> Plain("y")]>> : m, n \in EnvNames}
Vault == Object([f \in {<<"d">>} |-> String(<<<<Command("steal"), Variable("HOME")>>>>)])

SystemOf(paths, inA, inB, vault, wildcards, env, nested, extend) ==
  [kind |-> [n \in FileNames |-> CASE n \in {"A", "B"} -> "dir"
                                   [] n = "vault" -> "cicada"
                                   [] n = "gone" -> "missing"
                                   [] OTHER -> "file"],
   canonical |-> [n \in FileNames |-> IF n = "link" THEN "secret" ELSE n],
   type |-> [n \in FileNames |-> CASE n = "link" -> "env"
                                   [] n = "secret" -> "other"
                                   [] OTHER -> "toml"],
   children |-> [A |-> <<"base", "local", "secret">>, B |-> <<"broken", "link", "shared">>],
   matches |-> [n \in FileNames |-> CASE n = "local" -> {0, 1}
                                      [] n \in {"base", "link", "broken"} -> {1}
                                      [] OTHER -> {}],
   includes |-> [A |-> inA, B |-> inB],
   wildcards |-> wildcards,
   content |->
     [base |-> Object([f \in {<<"a">>, <<"b">>} |->
                         IF f = <<"a">> THEN Object([g \in {<<"b">>} |-> String(<<Plain("base")>>)])
                         ELSE Array(<<Plain("base")>>)]),
      local |-> Object([f \in {<<"a">>, <<"b">>} |->
                          IF f = <<"a">> THEN Null
                          ELSE Array(<<<<Command("hostname"), Variable("HOME")>>>>)]),
      secret |-> [entries |-> env],
      shared |-> Object([f \in {<<"b">>} |-> String(<<<<Command("hostname")>>, <<>>>>)]),
      broken |-> Failed,
      vault |-> vault],
   paths |-> paths, mergeNested |-> nested, extendArray |-> extend]
MCSystems ==
  {SystemOf(paths, inA, inB, vault, w, env, nested, extend) :
     paths \in {<<"A">>, <<"B", "A">>, <<"link", "vault", "A">>, <<"gone", "local", "B", "base">>},
     inA \in {<<>>, <<"B", "gone", "base", "B">>, <<"A", "link", "vault">>},
     inB \in {<<>>, <<"A", "secret">>},
     vault \in {Failed, Vault}, w \in {0, 2},
     env \in EnvFiles, nested \in BOOLEAN, extend \in BOOLEAN}
MCEnvironment == [HOME |-> <<Literal("home"), Command("steal"), Variable("USER")>>,
                  USER |-> <<Literal("user"), Variable("HOME")>>]

----------------------------------------------------------------------------
(* Connections *)

Frame(kind, ends, len) == [kind |-> kind, ends |-> ends, len |-> len]
Ping == Frame("PING", TRUE, 1)
Opening == Frame("HEADERS", FALSE, 1)
Whole == Frame("HEADERS", TRUE, 0)
Closing == Frame("CONTINUATION", TRUE, 1)
Stream(matching, frames) == [matching |-> matching, frames |-> frames]
MCStreams == {Stream(0, <<>>), Stream(1, <<>>)} \cup
             {Stream(2, f) : f \in {<<Ping, Whole, Whole>>, <<Opening, Closing, Ping>>,
                                   <<Whole, Opening, Closing>>,
                                   <<Frame("HEADERS", TRUE, 2), Ping, Opening>>}}

----------------------------------------------------------------------------
inputVars == <<tokenVars, clientVars, configVars, timeoutVars, part>>

InputsInit ==
  /\ part \in {"tokens", "clients", "configuration", "connections"}
  /\ TokenInit /\ ClientInit /\ ConfigInit
  /\ TimeoutInit /\ (part # "connections" => sending = Bytes(Stream(0, <<>>)))

InputsNext ==
  /\ UNCHANGED part
  /\ \/ part = "tokens" /\ TokenNext /\ UNCHANGED <<clientVars, configVars, timeoutVars>>
     \/ part = "clients" /\ ClientNext /\ UNCHANGED <<tokenVars, configVars, timeoutVars>>
     \/ part = "configuration" /\ ConfigNext /\ UNCHANGED <<tokenVars, clientVars, timeoutVars>>
     \/ part = "connections" /\ TimeoutNext /\ UNCHANGED <<tokenVars, clientVars, configVars>>

InputsSpec == InputsInit /\ [][InputsNext]_inputVars
=============================================================================
