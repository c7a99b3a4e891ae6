------------------------- MODULE ExternalProviders -------------------------
(***************************************************************************)
(* The external login providers: how admins create, update and delete the  *)
(* stored ones (api/manage/provider.rs), how they are listed and found by  *)
(* their slug (provider/external.rs), and how a login or token passes      *)
(* through one of them (api/external.rs, provider/oidc.rs). Every request  *)
(* awaits the app's storage between its checks and its write, so requests  *)
(* interleave there. Names and slugs are sequences of characters; a claim  *)
(* name is the sequence of its parts between dots. Building and caching    *)
(* the clients is LoadCache; the session of a login is LoginSession.       *)
(***************************************************************************)
EXTENDS Integers, Sequences, FiniteSets, SequencesExt, FiniteSetsExt

CONSTANTS
  StaticProviders,   \* AuthImpl::static_external_providers, in order
  StoredAtStart,     \* what earlier versions of the program left stored
  Agendas,           \* the sets of management requests that may be sent
  Editor,            \* the slots in which management requests run
  Journeys,          \* the browsers logging in
  Urls,              \* the slugs browsers ask for
  Responses          \* what a provider's token endpoint may answer

\* What is stored has every id once.
ASSUME ProvidersAssumption ==
  /\ \A list \in StoredAtStart \cup {StaticProviders} : list \in Seq(ToSet(list))
  /\ \A list \in StoredAtStart : \A i, k \in DOMAIN list : list[i].id = list[k].id => i = k

VARIABLES
  catalog,           \* the stored providers, in the order of the app's list
  created,           \* how many ids random_string has drawn
  agenda,            \* the management requests still to be sent
  entered,           \* history: the <<url, secret>> pairs admins typed in
  edit,              \* per editor: the management request being handled
  journey            \* per browser: the login in flight

providerVars == <<catalog, created, agenda, entered, edit, journey>>

----------------------------------------------------------------------------
(* Names and slugs. *)

MaxSlugLength == 3
Hyphen == "-"
Lowercase(c) == IF c = "A" THEN "a" ELSE c
IsAlphanumeric(c) == c \notin {Hyphen, "!"}

TrimHyphens(s) == SubSeq(s, 1, Max({0} \cup {i \in 1..Len(s) : s[i] # Hyphen}))

\* What slugify makes of one more character: its letter or digit, or a hyphen
\* for a run of others.
AddToSlug(slug, c) ==
  IF IsAlphanumeric(Lowercase(c)) THEN Append(slug, Lowercase(c))
  ELSE IF slug # <<>> /\ Last(slug) # Hyphen THEN Append(slug, Hyphen)
  ELSE slug

Hyphenated(name) ==
  LET slug[n \in 0..Len(name)] == IF n = 0 THEN <<>> ELSE AddToSlug(slug[n - 1], name[n])
  IN slug[Len(name)]

\* Mutant: the hyphens are trimmed before the slug is cut to length.
SlugifyUntrimmed(name) ==
  LET whole == TrimHyphens(Hyphenated(name))
  IN SubSeq(whole, 1, Min({Len(whole), MaxSlugLength}))

Slugify(name) ==
  LET whole == Hyphenated(name)
  IN TrimHyphens(SubSeq(whole, 1, Min({Len(whole), MaxSlugLength})))

ValidSlug(slug) == slug # <<>> /\ Len(slug) <= MaxSlugLength /\ slug = Slugify(slug)

SlugOf(p) == IF p.slug = <<>> THEN p.id ELSE p.slug

\* What is stored was given a valid slug, or none; names are text.
ASSUME SlugsAssumption ==
  /\ \A list \in StoredAtStart : \A i \in DOMAIN list :
       list[i].slug # <<>> => ValidSlug(list[i].slug)
  /\ \A requests \in Agendas : \A request \in requests :
       request.op = "create" => request.name \in Seq(ToSet(request.name))

\* The id drawn by the n-th create_provider: never drawn again.
IdOf(n) == <<"0", ToString(n)>>
ValidProviderId(id) == id # <<>> /\ \A i \in 1..Len(id) : id[i] # "!"

----------------------------------------------------------------------------
(* Listing and resolving. *)

\* merge_providers: static ones first, the first of an id or a slug wins.
MergeProviders(stored) ==
  LET Take(found, p) ==
        IF ~ValidProviderId(p.id) \/ \E i \in 1..Len(found) :
             found[i].id = p.id \/ SlugOf(found[i]) = SlugOf(p)
        THEN found ELSE Append(found, p)
  IN FoldLeft(Take, <<>>, StaticProviders \o stored)

IsStatic(p) == Contains(StaticProviders, p)

WithSlug(slug) == {p \in ToSet(MergeProviders(catalog)) : SlugOf(p) = slug}

\* resolve_external_provider: a static provider hides a stored one.
WithId(id) ==
  LET static == {p \in ToSet(StaticProviders) : p.id = id}
  IN IF static # {} THEN static ELSE {p \in ToSet(catalog) : p.id = id}

\* OidcConfig::enabled and NamedOauthConfig::enabled.
IsEnabled(p) == p.enabled /\ (p.kind = "oidc" => p.url # "")

----------------------------------------------------------------------------
(* The checks of a management request. *)

Redacted == "redacted"
NoSecret == ""
LongAudience == "long"
MaxAudiences == 1
MaxNameLength == 5

ValidName(name) == Len(name) \in 1..MaxNameLength

ValidConfig(config) ==
  /\ config.secret # Redacted
  /\ config.kind \in {"github", "google"} /\ config.enabled => config.secret # NoSecret

Audiences(exchange) == exchange.audiences \ {""}
ValidTokenExchange(exchange, config) ==
  /\ ~(exchange.enabled /\ config.kind = "github")
  /\ LongAudience \notin exchange.audiences
  /\ Cardinality(Audiences(exchange)) <= MaxAudiences

\* Mutant: the url of the provider is not looked at.
KeepSecretAnywhere(config, existing, clear) ==
  IF clear \/ config.secret \notin {NoSecret, Redacted} THEN config.secret ELSE existing.secret

Refused == "refused"
KeepExistingSecret(config, existing, clear) ==
  LET new == config.secret \notin {NoSecret, Redacted}
  IN CASE clear /\ new -> Refused
       [] clear /\ ~new -> NoSecret
       [] ~clear /\ new -> config.secret
       [] OTHER -> IF config.kind = "oidc" /\ config.url # existing.url /\ existing.secret # NoSecret
                   THEN Refused ELSE existing.secret

\* validate_provider_slug, which reads the list as it is now.
SlugFor(request, except) ==
  LET slug == IF request.slug = <<>> THEN Slugify(request.name) ELSE request.slug
      usable == IF request.slug = <<>> THEN slug # <<>> ELSE ValidSlug(slug)
      taken == \E p \in ToSet(MergeProviders(catalog)) : p.id # except /\ SlugOf(p) = slug
  IN IF usable /\ ~taken THEN {slug} ELSE {}

----------------------------------------------------------------------------
NoRequest == [step |-> "none"]
NotBegun == [step |-> "out"]

ProvidersInit ==
  /\ catalog \in StoredAtStart
  /\ created = 0
  /\ agenda \in Agendas
  /\ entered = {<<p.url, p.secret>> : p \in ToSet(catalog)}
  /\ edit = [e \in Editor |-> NoRequest]
  /\ journey = [j \in Journeys |-> NotBegun]

Edits(e, to) == edit' = [edit EXCEPT ![e] = to]
Takes(e, request, op) == /\ edit[e] = NoRequest /\ request \in agenda
                         /\ request.op = op /\ agenda' = agenda \ {request}

\* The provider a request stores under the id, slug and secret settled on.
Provider(id, slug, secret, request) ==
  [id |-> id, slug |-> slug, kind |-> request.config.kind, url |-> request.config.url,
   secret |-> secret, enabled |-> request.config.enabled,
   allowed |-> request.config.allowed, admins |-> request.config.admins,
   claim |-> request.config.claim, fullEmail |-> request.config.fullEmail]

\* create_provider up to the app's create_external_provider.
BeginCreate(e, request) ==
  /\ Takes(e, request, "create")
  /\ request.byAdmin /\ ValidConfig(request.config) /\ ValidName(request.name)
  /\ ValidTokenExchange(request.exchange, request.config)
  /\ \E slug \in SlugFor(request, <<>>) :
       Edits(e, [step |-> "create", request |-> request, slug |-> slug])
  /\ UNCHANGED <<catalog, created, entered, journey>>

StoreCreated(e) ==
  /\ edit[e].step = "create"
  /\ LET request == edit[e].request
         p == Provider(IdOf(created + 1), edit[e].slug, request.config.secret, request)
     IN /\ created' = created + 1
        /\ \/ catalog' = Append(catalog, p)
           \/ catalog' = catalog   \* the app failed to store it
        /\ entered' = entered \cup {<<p.url, p.secret>>}
  /\ Edits(e, NoRequest) /\ UNCHANGED <<agenda, journey>>

\* update_provider up to the slug: resolve_managed_provider and merge_update.
BeginUpdate(e, request) ==
  /\ Takes(e, request, "update") /\ request.byAdmin
  /\ ValidName(request.name) /\ ValidTokenExchange(request.exchange, request.config)
  /\ \E existing \in WithId(request.id) :
       LET secret == KeepExistingSecret(request.config, existing, request.clear)
       IN /\ ~IsStatic(existing) /\ request.config.kind = existing.kind
          /\ secret # Refused /\ ValidConfig([request.config EXCEPT !.secret = secret])
          /\ Edits(e, [step |-> IF request.slug = <<>> THEN "update" ELSE "slug",
                       request |-> request, slug |-> existing.slug, secret |-> secret])
  /\ UNCHANGED <<catalog, created, entered, journey>>

CheckSlug(e) ==
  /\ edit[e].step = "slug"
  /\ IF SlugFor(edit[e].request, edit[e].request.id) = {} THEN Edits(e, NoRequest)
     ELSE \E slug \in SlugFor(edit[e].request, edit[e].request.id) :
            Edits(e, [edit[e] EXCEPT !.step = "update", !.slug = slug])
  /\ UNCHANGED <<catalog, created, agenda, entered, journey>>

\* update_external_provider replaces the stored provider of the id, whole.
StoreUpdated(e) ==
  /\ edit[e].step = "update"
  /\ LET request == edit[e].request
         p == Provider(request.id, edit[e].slug, edit[e].secret, request)
     IN /\ catalog' = [i \in 1..Len(catalog) |-> IF catalog[i].id = p.id THEN p ELSE catalog[i]]
        /\ entered' = IF request.config.secret \in {NoSecret, Redacted} THEN entered
                      ELSE entered \cup {<<p.url, p.secret>>}
  /\ Edits(e, NoRequest) /\ UNCHANGED <<created, agenda, journey>>

BeginDelete(e, request) ==
  /\ Takes(e, request, "delete") /\ request.byAdmin
  /\ \E existing \in WithId(request.id) : ~IsStatic(existing)
  /\ Edits(e, [step |-> "delete", request |-> request])
  /\ UNCHANGED <<catalog, created, entered, journey>>

\* The app keeps one provider of an id.
DeleteStored(e) ==
  /\ edit[e].step = "delete"
  /\ LET stored == {k \in DOMAIN catalog : catalog[k].id = edit[e].request.id}
     IN \/ stored = {} /\ catalog' = catalog
        \/ \E k \in stored : catalog' = RemoveAt(catalog, k)
  /\ Edits(e, NoRequest) /\ UNCHANGED <<created, agenda, entered, journey>>

\* The app failed, or the connection was lost, between the request's calls.
AbandonEdit(e) == /\ edit[e] # NoRequest /\ Edits(e, NoRequest)
                  /\ UNCHANGED <<catalog, created, agenda, entered, journey>>

----------------------------------------------------------------------------
(* Logging in through a provider. *)

Travels(j, to) == /\ journey' = [journey EXCEPT ![j] = to]
                  /\ UNCHANGED <<catalog, created, agenda, entered, edit>>

\* begin_external_login: the id goes on the session, the browser to the url.
BeginJourney(j, slug) ==
  /\ journey[j].step \in {"out", "done"} /\ ValidProviderId(slug)
  /\ \E p \in WithSlug(slug) :
       /\ IsEnabled(p)
       /\ Travels(j, [step |-> "away", id |-> p.id, slug |-> slug])

\* Mutant: the callback is matched by the slug the login began with.
CallbackMatchesSlug(login, slug, p) == login.slug = slug

\* validate_callback (the state token is matched in LoginSession).
CallbackMatches(login, slug, p) == login.id = p.id

\* external_callback takes the login first, whatever happens next.
Callback(j, slug) ==
  /\ journey[j].step = "away"
  /\ LET passes == {p \in WithSlug(slug) : IsEnabled(p) /\ CallbackMatches(journey[j], slug, p)}
     IN IF passes = {} THEN Travels(j, NotBegun)
        ELSE \E p \in passes : Travels(j, [step |-> "redeem", at |-> p, begun |-> journey[j].id])

\* OidcConfig::groups_claim.
GroupsClaim(p) ==
  CASE p.claim # <<>> -> {p.claim}
    [] p.claim = <<>> /\ p.allowed \cup p.admins # {} -> {<<"groups">>}
    [] OTHER -> {}

\* extract_groups: the claim by its exact name, then as a path.
ClaimAt(claims, path) ==
  LET Inside(value, key) == IF value.type = "object" /\ <<key>> \in DOMAIN value.value
                            THEN value.value[<<key>>] ELSE [type |-> "missing"]
  IN IF path \in DOMAIN claims THEN claims[path]
     ELSE FoldLeft(Inside, [type |-> "object", value |-> claims], path)

ExtractGroups(claims, path) ==
  LET found == ClaimAt(claims, path)
  IN IF found.type = "text" THEN {{found.value}}
     ELSE IF found.type = "list" /\ \A v \in ToSet(found.value) : v.type = "text"
     THEN {{v.value : v \in ToSet(found.value)}}
     ELSE {}

\* Groups of the id token, or of the networked user info if it has none.
LoginGroups(p, response) ==
  LET From(claims) == UNION {ExtractGroups(claims, claim) : claim \in GroupsClaim(p)}
  IN IF From(response.token) # {} THEN From(response.token)
     ELSE IF response.userInfo = "unavailable" \/ GroupsClaim(p) = {} THEN {}
     ELSE From(response.claims)

\* Mutant: a user whose groups are missing is let in.
AllowedUnlessMissing(p, groups) ==
  p.allowed = {} \/ groups = {} \/ \E g \in groups : g \cap (p.allowed \cup p.admins) # {}

\* Groups are a Rust Option: {} is None, {x} is Some(x).
CheckAllowedGroups(p, groups) ==
  p.allowed = {} \/ \E g \in groups : g \cap (p.allowed \cup p.admins) # {}

\* OidcLoginInfo::new.
AdminOf(p, groups) == IF p.admins = {} THEN {} ELSE {g \cap p.admins # {} : g \in groups}

\* The names a response gives a user, the id token's before the user info's.
Named(response, field) ==
  LET From(names) == IF field \in DOMAIN names THEN {names[field]} ELSE {}
      info == IF response.userInfo = "unavailable" THEN {} ELSE From(response.names)
  IN IF From(response.tokenNames) # {} THEN From(response.tokenNames) ELSE info

\* get_username, or get_username_prioritize_email with use_full_email; the
\* subject when nothing was sent, or (CompletedExternalLogin::username) a
\* blank name was.
Username(p, response) ==
  LET order == IF p.fullEmail THEN <<"email", "preferred", "username", "name">>
               ELSE <<"preferred", "username", "name", "email">>
      given == SelectSeq(order, LAMBDA field : Named(response, field) # {})
      first == CHOOSE name \in Named(response, Head(given)) : TRUE
      name == IF given = <<>> THEN response.subject
              ELSE IF Head(given) = "email" /\ ~p.fullEmail THEN first.local ELSE first
  IN IF name = "" THEN response.subject ELSE name

\* complete_login redeems the code at the provider resolved by the callback.
CompleteJourney(j, response) ==
  /\ journey[j].step = "redeem"
  /\ LET p == journey[j].at
         groups == IF p.kind = "oidc" THEN LoginGroups(p, response) ELSE {}
     IN IF p.kind = "oidc" => CheckAllowedGroups(p, groups)
        THEN Travels(j, [step |-> "done", at |-> p, begun |-> journey[j].begun, response |-> response,
                         name |-> Username(p, response),
                         admin |-> IF p.kind = "oidc" THEN AdminOf(p, groups) ELSE {}])
        ELSE Travels(j, NotBegun)

LoseJourney(j) == journey[j].step = "redeem" /\ Travels(j, NotBegun)   \* the code was refused

ProvidersNext ==
  \/ \E e \in Editor :
       \/ \E request \in agenda :
            BeginCreate(e, request) \/ BeginUpdate(e, request) \/ BeginDelete(e, request)
       \/ StoreCreated(e) \/ CheckSlug(e) \/ StoreUpdated(e) \/ DeleteStored(e) \/ AbandonEdit(e)
  \/ \E j \in Journeys :
       \/ \E slug \in Urls : BeginJourney(j, slug) \/ Callback(j, slug)
       \/ \E response \in Responses : CompleteJourney(j, response)
       \/ LoseJourney(j)

ProvidersSpec == ProvidersInit /\ [][ProvidersNext]_providerVars

----------------------------------------------------------------------------
\* keep_existing_secret: a stored secret is only ever stored with the url it
\* was typed in with, whatever updates of the same provider interleave, so no
\* update can send it to another server.
SecretStaysWithUrl ==
  \A i \in 1..Len(catalog) :
    catalog[i].kind = "oidc" /\ catalog[i].secret # NoSecret
    => <<catalog[i].url, catalog[i].secret>> \in entered

\* slugify and validate_slug: the slug a name makes is one an admin could have
\* typed, so a later update that sends it back is not refused.
StoredSlugsAreValid ==
  \A i \in 1..Len(catalog) : catalog[i].slug # <<>> => ValidSlug(catalog[i].slug)

\* external_callback: the code of a login is redeemed at the provider it began
\* with, by its id, even when the slug was given to another provider meanwhile.
RedeemedWhereBegun ==
  \A j \in Journeys : journey[j].step = "done" => journey[j].at.id = journey[j].begun

\* Every text a response's claims hold under the first of them that is usable.
GroupsNamed(p, response) ==
  LET Texts(claims) == UNION UNION {ExtractGroups(claims, claim) : claim \in GroupsClaim(p)}
  IN Texts(response.token) \cup
     (IF response.userInfo = "unavailable" THEN {} ELSE Texts(response.claims))

\* check_allowed_groups and OidcLoginInfo::new: with allowed_groups configured
\* nobody gets in unless the provider named an allowed or admin group, missing
\* and malformed claims included; and whoever is reported an admin was named in
\* an admin group.
GroupsFailClosed ==
  \A j \in Journeys :
    journey[j].step = "done" /\ journey[j].at.kind = "oidc" =>
      LET p == journey[j].at
          named == GroupsNamed(p, journey[j].response)
      IN /\ p.allowed # {} => named \cap (p.allowed \cup p.admins) # {}
         /\ TRUE \in journey[j].admin => named \cap p.admins # {}

\* Nobody comes in through a provider but past its own checks: the login is
\* redeemed at the provider it began with, under that provider's groups.
LoginsPassTheirProvider == RedeemedWhereBegun /\ GroupsFailClosed

\* What admins' interleaved edits leave in the catalog is sound: secrets with
\* the url they were typed in with, slugs that pass validation.
StoredProvidersSound == SecretStaysWithUrl /\ StoredSlugsAreValid
============================================================================
