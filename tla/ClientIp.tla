------------------------------ MODULE ClientIp ------------------------------
(***************************************************************************)
(* Which address a request is attributed to (crates/request_ip): a client  *)
(* sends a request with headers of its choice, proxies pass it on, each    *)
(* appending the address it got the request from to X-Forwarded-For, and   *)
(* the server walks the headers back. Addresses are 2 bits (IPv4) or 4     *)
(* bits (IPv6); the IPv6 addresses whose high bits are all set are the     *)
(* IPv4-mapped ones. Text is parsed already: an entry of a header is an    *)
(* address with or without a port, blank, or not an address.               *)
(***************************************************************************)
EXTENDS Integers, Sequences, FiniteSets, SequencesExt

CONSTANTS
  ProxyConfigs,  \* trusted_proxies configurations to try (sequences)
  SentValues,    \* values (lines) a client puts in its own headers
  ClientHops,    \* bound: proxies a request passes
  ClientIps,     \* where clients send from
  ProxyIps,      \* where proxies are
  Whitelists     \* CIDR whitelists to check the address against

VARIABLES
  policy,        \* the server's TrustedProxies
  senders,       \* who sent the request on, the client first (canonical)
  forwardedFor,  \* the X-Forwarded-For values, in order
  realIp,        \* the X-Real-IP values, in order
  answer         \* what get_client_ip returned

clientVars == <<policy, senders, forwardedFor, realIp, answer>>

NotYet == [waiting |-> TRUE]
NoAddress == [none |-> TRUE]
Unauthorized == [status |-> 401]

----------------------------------------------------------------------------
(* Addresses and networks *)

V4(n) == [v |-> 4, n |-> n]
V6(n) == [v |-> 6, n |-> n]
Addresses == {V4(n) : n \in 0..3} \cup {V6(n) : n \in 0..15}
Width(v) == IF v = 4 THEN 2 ELSE 4
MappedBits == 2
IsMapped(ip) == ip.v = 6 /\ ip.n \div 4 = 3

\* IpAddr::to_canonical
Canonical(ip) == IF IsMapped(ip) THEN V4(ip.n % 4) ELSE ip

\* A network is an address and how many of its leading bits count.
InNet(net, ip) ==
  /\ net.ip.v = ip.v
  /\ LET rest == 2^(Width(ip.v) - net.len)
     IN  net.ip.n \div rest = ip.n \div rest

\* Mutant: networks stay as they are written.
CanonicalizeNetNever(net) == net

CanonicalizeNet(net) ==
  IF net.len >= MappedBits /\ IsMapped(net.ip)
  THEN [ip |-> Canonical(net.ip), len |-> net.len - MappedBits] ELSE net

\* An entry is a network, a bare address, or not valid.
Invalid == [invalid |-> TRUE]
ParseCidr(entry) ==
  IF entry = Invalid THEN Invalid
  ELSE IF "ip" \in DOMAIN entry THEN CanonicalizeNet(entry)
  ELSE CanonicalizeNet([ip |-> entry, len |-> Width(entry.v)])

\* Any invalid entry fails the whole set.
ParseCidrSet(entries) ==
  LET nets == {ParseCidr(entries[k]) : k \in DOMAIN entries}
  IN  IF Invalid \in nets THEN Invalid ELSE [nets |-> nets]

SetContains(set, ip) == \E net \in set.nets : InNet(net, Canonical(ip))

CheckCidrWhitelist(ip, whitelist) ==
  LET set == ParseCidrSet(whitelist)
  IN  IF set = Invalid THEN 500
      ELSE IF set.nets = {} \/ SetContains(set, ip) THEN 200 ELSE 403

----------------------------------------------------------------------------
(* TrustedProxies *)

TrustNone == [trust |-> "none"]
TrustAll == [trust |-> "all"]

\* PRIVATE_RANGES: one IPv4 network and one IPv6 address.
PrivateRanges == <<[ip |-> V4(2), len |-> 1], V6(1)>>

ParseProxies(entries) ==
  LET set == ParseCidrSet(entries)
  IN  IF set = Invalid THEN Invalid
      ELSE IF set.nets = {} THEN TrustNone ELSE [trust |-> "cidrs", set |-> set]

Keyword(word) == [keyword |-> word]
Alone == {Keyword("all"), Keyword("none")}

\* "all" and "none" stand alone, "private" expands to the private ranges,
\* which are also the default of an empty list. Blank entries are skipped.
FromConfig(config) ==
  LET entries == SelectSeq(config, LAMBDA e : e # Keyword("blank"))
      Expand(e) == IF e = Keyword("private") THEN PrivateRanges
                   ELSE IF e \in Alone THEN <<>> ELSE <<e>>
      cidrs == FlattenSeq([k \in DOMAIN entries |-> Expand(entries[k])])
      alone == Range(entries) \cap Alone # {}
  IN  CASE alone /\ Len(entries) > 1 -> Invalid
        [] alone /\ Len(entries) = 1 ->
             IF entries[1] = Keyword("all") THEN TrustAll ELSE TrustNone
        [] ~alone -> ParseProxies(IF cidrs = <<>> THEN PrivateRanges ELSE cidrs)

Trusts(proxies, ip) ==
  CASE proxies.trust = "none" -> FALSE
    [] proxies.trust = "all" -> TRUE
    [] proxies.trust = "cidrs" -> SetContains(proxies.set, ip)

----------------------------------------------------------------------------
(* get_client_ip *)

\* Entries of a header value; a value that is not UTF-8 is NotText.
NotText == <<[notText |-> TRUE]>>
BlankEntry == [blank |-> TRUE]
Garbage == [garbage |-> TRUE]
WithPort(ip) == [port |-> ip]

ParseForwardedIp(entry) ==
  CASE entry = Garbage -> Unauthorized
    [] "port" \in DOMAIN entry -> Canonical(entry.port)
    [] entry # Garbage /\ "port" \notin DOMAIN entry -> Canonical(entry)

\* What clients write.
Entry == Addresses \cup {WithPort(ip) : ip \in Addresses} \cup {BlankEntry, Garbage}
Networks == {net \in [ip : Addresses, len : 0..4] : net.len <= Width(net.ip.v)}

ASSUME ClientIpAssumption ==
  /\ \A v \in SentValues : v \in Seq(Entry) \cup {NotText}
  /\ ClientIps \subseteq Addresses /\ ProxyIps \subseteq Addresses
  /\ \A list \in Whitelists : list \in Seq(Networks \cup Addresses \cup {Invalid})

\* All the entries of a header, over its values in order: a value that is not
\* text counts as one entry that is not an address.
EntriesOf(value) == IF value = NotText THEN <<Garbage>> ELSE value
Entries(values) == FlattenSeq([k \in DOMAIN values |-> EntriesOf(values[k])])

\* The addresses of a header by their place, blank entries left out.
ForwardedIps(values) ==
  LET entries == Entries(values)
  IN  [k \in {k \in DOMAIN entries : entries[k] # BlankEntry} |-> ParseForwardedIp(entries[k])]

\* Mutant: the walk starts at the client's end.
WalkFromTheLeft(values, proxies, lenient) ==
  LET parsed == ForwardedIps(values)
      Ends(ip) == IF ip = Unauthorized THEN ~lenient ELSE ~Trusts(proxies, ip)
      stops == {k \in DOMAIN parsed : Ends(parsed[k])}
      known == {k \in DOMAIN parsed : parsed[k] # Unauthorized}
  IN  IF stops # {} THEN parsed[CHOOSE k \in stops : \A j \in stops : k <= j]
      ELSE IF known = {} THEN NoAddress
      ELSE parsed[CHOOSE k \in known : \A j \in known : k <= j]

\* From the right, the first entry that is not a trusted proxy; an entry that
\* is not an address ends the walk with an error unless lenient. The leftmost
\* address if every entry is trusted, NoAddress if there are none.
WalkForwardingHeader(values, proxies, lenient) ==
  LET parsed == ForwardedIps(values)
      Ends(ip) == IF ip = Unauthorized THEN ~lenient ELSE ~Trusts(proxies, ip)
      stops == {k \in DOMAIN parsed : Ends(parsed[k])}
      known == {k \in DOMAIN parsed : parsed[k] # Unauthorized}
  IN  IF stops # {} THEN parsed[CHOOSE k \in stops : \A j \in stops : j <= k]
      ELSE IF known = {} THEN NoAddress
      ELSE parsed[CHOOSE k \in known : \A j \in known : k <= j]

GetClientIp(peer, proxies, xForwardedFor, xRealIp) ==
  LET lenient == proxies = TrustAll
      peerTrusted == \/ proxies = TrustAll
                     \/ peer # NoAddress /\ Trusts(proxies, peer)
      orPeer == IF peer = NoAddress THEN Unauthorized ELSE peer
      forwarded == WalkForwardingHeader(xForwardedFor, proxies, lenient)
      real == WalkForwardingHeader(xRealIp, proxies, lenient)
  IN  CASE ~peerTrusted -> orPeer
        [] peerTrusted /\ forwarded # NoAddress -> forwarded
        [] peerTrusted /\ forwarded = NoAddress /\ real # NoAddress -> real
        [] peerTrusted /\ forwarded = NoAddress /\ real = NoAddress -> orPeer

----------------------------------------------------------------------------
(* A request on its way *)

ClientInit ==
  /\ policy = TrustNone /\ senders = <<>> /\ forwardedFor = <<>>
  /\ realIp = <<>> /\ answer = NotYet

\* A client sends a request with header values of its choice to a server with
\* a valid configuration.
SendRequest(config, client, values, real) ==
  /\ senders = <<>>
  /\ FromConfig(config) # Invalid
  /\ policy' = FromConfig(config)
  /\ senders' = <<Canonical(client)>>
  /\ forwardedFor' = values
  /\ realIp' = real
  /\ UNCHANGED answer

\* A proxy sends it on: the address it got it from is appended, to the last
\* value or in a value of its own, with or without the port. The proxy need
\* not be one the server trusts.
PassOn(proxy) ==
  /\ senders # <<>> /\ Len(senders) <= ClientHops /\ answer = NotYet
  /\ \E entry \in {Last(senders), WithPort(Last(senders))} :
       \/ forwardedFor' = Append(forwardedFor, <<entry>>)
       \/ /\ forwardedFor # <<>> /\ Last(forwardedFor) # NotText
          /\ forwardedFor' = Append(Front(forwardedFor),
                                    Append(Last(forwardedFor), entry))
  /\ senders' = Append(senders, Canonical(proxy))
  /\ UNCHANGED <<policy, realIp, answer>>

\* The server has it, from a peer it may not know the address of.
Receive ==
  /\ senders # <<>> /\ answer = NotYet
  /\ \E peer \in {Last(senders), NoAddress} :
       answer' = GetClientIp(peer, policy, forwardedFor, realIp)
  /\ UNCHANGED <<policy, senders, forwardedFor, realIp>>

ClientNext ==
  \/ \E config \in ProxyConfigs, client \in ClientIps :
       \E values, real \in {<<>>} \cup {<<v>> : v \in SentValues} :
         SendRequest(config, client, values, real)
  \/ \E proxy \in ProxyIps : PassOn(proxy)
  \/ Receive

ClientIpSpec == ClientInit /\ [][ClientNext]_clientVars

----------------------------------------------------------------------------
(* Properties *)

\* Whatever a client writes into its headers, the request is attributed to the
\* last sender that is not a trusted proxy, or refused: addresses left of it
\* are ignored (get_client_ip, unless the policy is to trust everyone).
ClientCannotChooseIp ==
  LET outside == {k \in DOMAIN senders : ~Trusts(policy, senders[k])}
      last == CHOOSE k \in outside : \A j \in outside : j <= k
  IN  (answer # NotYet /\ policy.trust # "all" /\ outside # {})
        => answer \in {senders[last], Unauthorized}

\* The same 2 + 2 bit space for both kinds of address.
Embedded(ip) == IF ip.v = 4 THEN 12 + ip.n ELSE ip.n
Lead(net) == IF net.ip.v = 4 THEN net.len + MappedBits ELSE net.len

AsNet(entry) ==
  IF "ip" \in DOMAIN entry THEN entry ELSE [ip |-> entry, len |-> Width(entry.v)]

\* As the bits of both in the IPv6 space say, except that an IPv6 network
\* wider than the mapped range holds no IPv4 address.
HoldsInBits(net, ip) ==
  LET rest == 2^(4 - Lead(net))
  IN  /\ Embedded(net.ip) \div rest = Embedded(ip) \div rest
      /\ Embedded(ip) \div 4 = 3 => Lead(net) >= MappedBits

\* The whitelist decides the same for an address and a network in either form
\* (check_cidr_whitelist).
WhitelistIgnoresForm ==
  LET forms == {answer} \cup {V6(12 + n) : n \in {k \in 0..3 : answer = V4(k)}}
  IN  answer \notin {NotYet, Unauthorized} =>
        \A list \in Whitelists, ip \in forms :
          (list # <<>> /\ Invalid \notin Range(list)) =>
            ((CheckCidrWhitelist(ip, list) = 200)
               <=> \E k \in DOMAIN list : HoldsInBits(AsNet(list[k]), ip))

\* The address a request is attributed to, and what the whitelist says of it,
\* do not depend on how a client writes addresses into its headers.
ClientIpIsTheirs == ClientCannotChooseIp /\ WhitelistIgnoresForm
=============================================================================
