----------------------- MODULE WorkloadIdentityProofs -----------------------
(***************************************************************************)
(* The guarantees of workload identity for any number of exchanges,        *)
(* changes and issuers. Two layers:                                        *)
(*   - LockInv: whoever works under a lock holds the one the map has for   *)
(*     its key, although locks come and go with their users, and whoever   *)
(*     excludes others is alone with it;                                   *)
(*   - DataInv: what was read under the locks is still so.                 *)
(***************************************************************************)
EXTENDS WorkloadIdentity, FiniteSetTheorems, SequenceTheorems, WellFoundedInduction, TLAPS

HoldsRule == {"current", "find", "write", "dropRule", "dropRuleThenIssue"}
HoldsIssuer == HoldsRule \cup
               {"waitRule", "update", "sync", "dropIssuer", "dropIssuerThenIssue"}
Over == {"idle", "done"}

Read == [issuer : Issuer \cup {None}, body : IssuerRecord \cup {None},
         rule : RuleRecord \cup {None}, found : UserRecord \cup {None},
         issuerLock : Lock \cup {None}, ruleLock : Lock \cup {None}]

\* Issuers are stored with valid ids only.
StoredIds == \A i \in Stored : issuers[i] # None => IdsOf(issuers[i]) \subseteq Id

Types == TypeOK /\ read \in [Request -> Read] /\ StoredIds

\* Where the two kinds of requests can be, and what they know.
Stages(r) ==
  /\ r \in Change => pc[r] \in Over \cup {"waitIssuer", "update", "sync", "dropIssuer"}
  /\ r \in Exchange => pc[r] \notin {"update", "sync"}
  /\ pc[r] \notin Over => read[r].issuer \in Issuer
  /\ r \in Exchange /\ pc[r] \notin Over => read[r].rule # None /\ read[r].rule.id \in Id

\* Who waits for a lock or holds it has the one of the map.
IssuerLocked(r) ==
  /\ pc[r] \in HoldsIssuer \cup {"waitIssuer"} =>
       /\ locks[read[r].issuer] = read[r].issuerLock
       /\ read[r].issuerLock # None
  /\ pc[r] \in HoldsIssuer => r \in holders[read[r].issuerLock]
  /\ pc[r] = "waitIssuer" => Contains(queue[read[r].issuerLock], r)

RuleLocked(r) ==
  /\ pc[r] \in HoldsRule \cup {"waitRule"} =>
       locks[RuleKey(r)] = read[r].ruleLock /\ read[r].ruleLock # None
  /\ pc[r] \in HoldsRule => r \in holders[read[r].ruleLock]
  /\ pc[r] = "waitRule" => Contains(queue[read[r].ruleLock], r)

\* The locks of the two maps.
Kinds ==
  \A k \in Key : locks[k] # None => locks[k][2] = IF k \in Issuer THEN "issuer" ELSE "rule"

\* Whoever excludes others is alone with the lock.
Exclusion ==
  \A l \in Lock : \A h \in holders[l] : Exclusive(h, l) => holders[l] = {h}

\* Nothing runs while the app starts.
Startup ==
  /\ starting # {} => \A r \in Request : pc[r] \in Over
  /\ \A i \in starting : issuers[i] # None

RequestOK(r) == Stages(r) /\ IssuerLocked(r) /\ RuleLocked(r)
Locking == Kinds /\ Exclusion /\ Startup /\ \A r \in Request : RequestOK(r)
LockInv == Types /\ Locking

\* The rule an exchange goes by is the issuer's only one with its id.
RuleIsCurrent(e) ==
  LET i == issuers[read[e].issuer]
      rule == read[e].rule
  IN  /\ i # None /\ i.enabled /\ rule.enabled
      /\ rule \in RulesWith(i, rule.id) /\ ~Shared(i, rule.id)

\* An issuer is known to be unsynced until its update ends.
SyncPending ==
  \A c \in Change : pc[c] = "sync" =>
    read[c].issuer \in unsynced /\ issuers[read[c].issuer] # None

\* AccessFollowsRule of one user, whoever changes its issuer.
Follows(i, id) ==
  LET user == users[<<i, id>>]
  IN  user # None /\ i \notin unsynced \cup starting =>
        /\ issuers[i] # None /\ id \in IdsOf(issuers[i])
        /\ user.admin => \A rule \in RulesWith(issuers[i], id) : rule.admin
        /\ user.enabled => /\ issuers[i].enabled /\ ~Shared(issuers[i], id)
                           /\ \A rule \in RulesWith(issuers[i], id) : rule.enabled

DataInv ==
  /\ \A e \in Exchange : pc[e] \in {"find", "write"} => RuleIsCurrent(e)
  /\ SyncPending
  /\ FoundIsCurrent
  /\ \A i \in Issuer, id \in Id : Follows(i, id)

IInv == LockInv /\ DataInv

----------------------------------------------------------------------------
(* Queues and positions *)

\* Joining a queue.
LEMMA Joining ==
  ASSUME NEW S, NEW s \in Seq(S), NEW x \in S
  PROVE  /\ Append(s, x) \in Seq(S)
         /\ Contains(Append(s, x), x)
         /\ \A q : Contains(s, q) => Contains(Append(s, x), q)
BY DEF Contains

\* Whoever is not first stays in the queue when the first leaves.
LEMMA Leaving ==
  ASSUME NEW S, NEW s \in Seq(S), s # <<>>
  PROVE  /\ Tail(s) \in Seq(S)
         /\ \A q : q # Head(s) /\ Contains(s, q) => Contains(Tail(s), q)
<1>1. Tail(s) \in Seq(S) /\ Len(Tail(s)) = Len(s) - 1 /\ \A i \in 1..Len(Tail(s)) : Tail(s)[i] = s[i + 1]
  OBVIOUS
<1>2. ASSUME NEW q, q # Head(s), Contains(s, q) PROVE Contains(Tail(s), q)
  <2>1. PICK i \in 1..Len(s) : s[i] = q
    BY <1>2 DEF Contains
  <2>2. i # 1
    BY <1>2, <2>1
  <2>3. (i - 1) \in 1..Len(Tail(s)) /\ Tail(s)[i - 1] = q
    BY <1>1, <2>1, <2>2
  <2> QED BY <2>3 DEF Contains
<1> QED BY <1>1, <1>2

\* Giving up a place leaves everybody else theirs.
LEMMA GivingUp ==
  ASSUME NEW S, NEW s \in Seq(S), NEW k \in DOMAIN s
  PROVE  /\ RemoveAt(s, k) \in Seq(S)
         /\ \A q : q # s[k] /\ Contains(s, q) => Contains(RemoveAt(s, k), q)
<1> DEFINE a == SubSeq(s, 1, k - 1)
           b == SubSeq(s, k + 1, Len(s))
<1>1. k \in 1..Len(s) /\ Len(s) \in Nat
  OBVIOUS
<1>2. a \in Seq(S) /\ Len(a) = k - 1 /\ \A i \in 1..(k - 1) : a[i] = s[i]
  BY <1>1
<1>3. b \in Seq(S) /\ Len(b) = Len(s) - k /\ \A i \in 1..(Len(s) - k) : b[i] = s[k + i]
  BY <1>1
<1> HIDE DEF a, b
<1> DEFINE t == a \o b
<1>4. RemoveAt(s, k) = t
  BY DEF RemoveAt, a, b
<1>5. /\ t \in Seq(S) /\ Len(t) = Len(a) + Len(b)
      /\ \A i \in 1..Len(a) + Len(b) : t[i] = IF i <= Len(a) THEN a[i] ELSE b[i - Len(a)]
  BY <1>2, <1>3, ConcatProperties
<1> HIDE DEF t
<1>6. ASSUME NEW q, q # s[k], Contains(s, q) PROVE Contains(t, q)
  <2>1. PICK i \in 1..Len(s) : s[i] = q
    BY <1>6 DEF Contains
  <2>2. CASE i < k
    <3>1. i \in 1..Len(t) /\ i \in 1..Len(a) + Len(b) /\ i <= Len(a) /\ i \in 1..(k - 1)
      <4>1. Len(a) = k - 1 /\ Len(a) + Len(b) = Len(s) - 1 /\ Len(t) = Len(s) - 1
        BY <1>1, <1>2, <1>3, <1>5
      <4> QED BY <1>1, <2>2, <4>1
    <3>2. t[i] = q
      BY <1>2, <1>5, <2>1, <3>1
    <3> QED BY <3>1, <3>2 DEF Contains
  <2>3. CASE i > k
    <3> DEFINE j == i - 1
    <3>0. Len(a) = k - 1 /\ Len(a) + Len(b) = Len(s) - 1 /\ Len(t) = Len(s) - 1
      BY <1>1, <1>2, <1>3, <1>5
    <3>1. /\ j \in 1..Len(t) /\ j \in 1..Len(a) + Len(b) /\ ~(j <= Len(a))
          /\ j - Len(a) = i - k /\ (i - k) \in 1..(Len(s) - k) /\ k + (i - k) = i
      BY <1>1, <2>3, <3>0
    <3> HIDE DEF j
    <3>2. t[j] = b[i - k]
      BY <1>5, <3>1
    <3>3. b[i - k] = s[i]
      BY <1>3, <3>1
    <3> QED BY <2>1, <3>1, <3>2, <3>3 DEF Contains
  <2> QED BY <1>1, <1>6, <2>1, <2>2, <2>3
<1> QED BY <1>4, <1>5, <1>6

\* The first place that passes a test is one that passes it.
LEMMA FirstPasses ==
  ASSUME NEW S \in SUBSET Nat, S # {}
  PROVE  Min(S) \in S
<1> DEFINE LT == {ss \in Nat \X Nat : ss[1] < ss[2]}
<1>1. IsWellFoundedOn(LT, Nat)
  BY NatLessThanWellFounded DEF OpToRel
<1> HIDE DEF LT
<1>2. PICK x \in S : \A y \in S : ~(<<y, x>> \in LT)
  BY <1>1, WFMin
<1>3. ASSUME NEW y \in S PROVE x <= y
  <2>1. x \in Nat /\ y \in Nat
    OBVIOUS
  <2>2. y < x => <<y, x>> \in LT
    BY <2>1 DEF LT
  <2> QED BY <1>2, <2>1, <2>2
<1> QED BY <1>2, <1>3 DEF Min

----------------------------------------------------------------------------
(* Rules *)

\* A match is a rule of the list that matches.
LEMMA MatchMeans ==
  ASSUME NEW rules \in Seq(RuleRecord), NEW e, MatchRule(rules, e) # None
  PROVE  \E k \in 1..Len(rules) : MatchRule(rules, e) = rules[k] /\ Matches(rules[k], e)
<1> DEFINE I == {i \in 1..Len(rules) : Matches(rules[i], e)}
           k == IF I # {} THEN Min(I) ELSE 0
<1>1. MatchRule(rules, e) = IF k = 0 THEN None ELSE rules[k]
  BY DEF MatchRule, SelectInSeq
<1>2. I # {} /\ k = Min(I)
  BY <1>1
<1>3. I \in SUBSET Nat
  OBVIOUS
<1> HIDE DEF I
<1>4. k \in I
  BY <1>2, <1>3, FirstPasses
<1>5. k \in 1..Len(rules) /\ Matches(rules[k], e)
  BY <1>4 DEF I
<1> HIDE DEF k
<1>6. k # 0
  BY <1>5
<1> QED BY <1>1, <1>5, <1>6

\* The current rule is the issuer's only one with its id, enabled as the
\* issuer is.
LEMMA CurrentMeans ==
  ASSUME Types, NEW e \in Exchange, read[e].issuer \in Issuer, CurrentRule(e) # None
  PROVE  LET now == issuers[read[e].issuer]
             rule == CurrentRule(e)
         IN  /\ now \in IssuerRecord /\ now # None /\ now.enabled /\ rule.enabled
             /\ rule \in RuleRecord /\ rule.id = read[e].rule.id
             /\ rule \in RulesWith(now, rule.id) /\ ~Shared(now, rule.id)
<1> DEFINE now == issuers[read[e].issuer]
           I == {i \in 1..Len(now.rules) : now.rules[i].id = read[e].rule.id}
           k == IF I # {} THEN Min(I) ELSE 0
           rule == IF k = 0 THEN None ELSE MatchRule(<<now.rules[k]>>, e)
<1>1. CurrentRule(e) = IF now = None \/ read[e].issuer = None THEN None
                       ELSE IF ~now.enabled \/ now.verify # read[e].body.verify THEN None
                       ELSE IF rule = None \/ Shared(now, read[e].rule.id) THEN None ELSE rule
  BY DEF CurrentRule, SelectInSeq
<1>2. /\ now # None /\ now.enabled /\ rule # None /\ ~Shared(now, read[e].rule.id)
      /\ CurrentRule(e) = rule
  BY <1>1
<1>3. now \in IssuerRecord /\ now.rules \in Seq(RuleRecord)
  BY <1>2 DEF Types, TypeOK, IssuerRecord
<1> HIDE DEF now
<1>4. k # 0 /\ rule = MatchRule(<<now.rules[k]>>, e)
  BY <1>2
<1>5. I # {} /\ k = Min(I)
  BY <1>4
<1>6. I \in SUBSET Nat
  BY <1>3
<1> HIDE DEF I
<1>7. k \in I
  BY <1>5, <1>6, FirstPasses
<1>8. k \in 1..Len(now.rules) /\ now.rules[k].id = read[e].rule.id
  BY <1>7 DEF I
<1> HIDE DEF k, rule
<1>9. now.rules[k] \in RuleRecord
  BY <1>3, <1>8
<1>10. rule = now.rules[k] /\ Matches(now.rules[k], e)
  <2> DEFINE one == <<now.rules[k]>>
  <2>1. one \in Seq(RuleRecord) /\ Len(one) = 1 /\ one[1] = now.rules[k]
    BY <1>9
  <2>2. rule = MatchRule(one, e) /\ rule # None
    BY <1>2, <1>4
  <2> HIDE DEF one
  <2>3. PICK j \in 1..Len(one) : MatchRule(one, e) = one[j] /\ Matches(one[j], e)
    BY <2>1, <2>2, MatchMeans
  <2>4. j = 1
    BY <2>1, <2>3
  <2> QED BY <2>1, <2>2, <2>3, <2>4
<1>11. rule.enabled
  BY <1>10 DEF Matches
<1>12. rule \in RulesWith(now, rule.id) /\ rule.id = read[e].rule.id
  BY <1>3, <1>8, <1>10 DEF RulesWith
<1> QED BY <1>2, <1>3, <1>9, <1>10, <1>11, <1>12 DEF now

\* Rules with an id nobody shares are one rule.
LEMMA OnlyRule ==
  ASSUME NEW issuer \in IssuerRecord, NEW id, ~Shared(issuer, id),
         NEW a \in RulesWith(issuer, id), NEW b \in RulesWith(issuer, id)
  PROVE  a = b
<1> DEFINE K == {k \in DOMAIN issuer.rules : issuer.rules[k].id = id}
<1>1. PICK j \in K, k \in K : a = issuer.rules[j] /\ b = issuer.rules[k]
  BY DEF RulesWith
<1>2. IsFiniteSet(K)
  <2>1. K \subseteq 1..Len(issuer.rules) /\ Len(issuer.rules) \in Nat
    BY DEF IssuerRecord
  <2>2. IsFiniteSet(1..Len(issuer.rules))
    BY <2>1, FS_Interval
  <2> QED BY <2>1, <2>2, FS_Subset
<1>3. ~(Cardinality(K) > 1)
  BY DEF Shared
<1> HIDE DEF K
<1>4. Cardinality(K) \in Nat
  BY <1>2, FS_CardinalityType
<1>5. IsFiniteSet(K \ {j}) /\ Cardinality(K \ {j}) = Cardinality(K) - 1
  BY <1>1, <1>2, FS_RemoveElement
<1>6. Cardinality(K \ {j}) \in Nat
  BY <1>5, FS_CardinalityType
<1>7. Cardinality(K \ {j}) = 0
  BY <1>3, <1>4, <1>5, <1>6
<1>8. K \ {j} = {}
  BY <1>5, <1>7, FS_EmptySet
<1> QED BY <1>1, <1>8

\* The access of a rule is what every rule with its id gives.
LEMMA AccessMeans ==
  ASSUME NEW issuer \in IssuerRecord
  PROVE  /\ DOMAIN OfIssuer(issuer) = IdsOf(issuer) \ {BadId}
         /\ \A id \in IdsOf(issuer) \ {BadId} :
              LET user == OfIssuer(issuer)[id]
              IN  /\ user \in UserRecord
                  /\ user.admin => \A rule \in RulesWith(issuer, id) : rule.admin
                  /\ user.enabled => /\ issuer.enabled /\ ~Shared(issuer, id)
                                     /\ \A rule \in RulesWith(issuer, id) : rule.enabled
<1>1. DOMAIN OfIssuer(issuer) = IdsOf(issuer) \ {BadId}
  BY DEF OfIssuer
<1>2. ASSUME NEW id \in IdsOf(issuer) \ {BadId}
      PROVE  LET user == OfIssuer(issuer)[id]
             IN  /\ user \in UserRecord
                 /\ user.admin => \A rule \in RulesWith(issuer, id) : rule.admin
                 /\ user.enabled => /\ issuer.enabled /\ ~Shared(issuer, id)
                                    /\ \A rule \in RulesWith(issuer, id) : rule.enabled
  <2>1. CASE Shared(issuer, id)
    <3>1. OfIssuer(issuer)[id] = [admin |-> FALSE, enabled |-> FALSE]
      BY <2>1 DEF OfIssuer
    <3> QED BY <3>1 DEF UserRecord
  <2>2. CASE ~Shared(issuer, id)
    <3> DEFINE rule == CHOOSE r \in RulesWith(issuer, id) : TRUE
    <3>1. OfIssuer(issuer)[id] = [admin |-> rule.admin, enabled |-> issuer.enabled /\ rule.enabled]
      BY <2>2 DEF OfIssuer
    <3>2. RulesWith(issuer, id) # {} /\ RulesWith(issuer, id) \subseteq RuleRecord
      BY DEF RulesWith, IdsOf, IssuerRecord
    <3>3. rule \in RulesWith(issuer, id)
      BY <3>2
    <3> HIDE DEF rule
    <3>4. \A r \in RulesWith(issuer, id) : r = rule
      BY <2>2, <3>3, OnlyRule
    <3>5. rule.admin \in BOOLEAN /\ rule.enabled \in BOOLEAN /\ issuer.enabled \in BOOLEAN
      BY <3>2, <3>3 DEF RuleRecord, IssuerRecord
    <3>6. PICK b \in BOOLEAN : b = (issuer.enabled /\ rule.enabled)
      BY <3>5, Zenon
    <3>7. OfIssuer(issuer)[id] = [admin |-> rule.admin, enabled |-> b]
      BY <3>1, <3>6
    <3> QED BY <2>2, <3>4, <3>5, <3>6, <3>7 DEF UserRecord
  <2> QED BY <2>1, <2>2
<1> QED BY <1>1, <1>2

\* What a body is stored as: an issuer whose ids are new or were its own.
LEMMA ValidMeans ==
  ASSUME NEW body \in IssuerRecord, NEW existing \in IssuerRecord \cup {None},
         NEW issuer \in ValidateIssuer(body, existing)
  PROVE  /\ issuer \in IssuerRecord
         /\ \A id \in IdsOf(issuer) :
              id \in Id \ usedIds \/ (existing # None /\ id \in IdsOf(existing))
<1> DEFINE keeps == {k \in DOMAIN body.rules : KeepsId(body, existing, k)}
           new == DOMAIN body.rules \ keeps
           Rules(ids) == [k \in DOMAIN body.rules |->
                            IF k \in keeps THEN body.rules[k]
                            ELSE [body.rules[k] EXCEPT !.id = ids[k]]]
<1>1. PICK ids \in [new -> Id \ usedIds] : issuer = [body EXCEPT !.rules = Rules(ids)]
  BY DEF ValidateIssuer
<1>2. /\ body.rules \in Seq(RuleRecord) /\ DOMAIN body.rules = 1..Len(body.rules)
      /\ Len(body.rules) \in Nat /\ \A k \in DOMAIN body.rules : body.rules[k] \in RuleRecord
  BY DEF IssuerRecord
<1>3. ASSUME NEW k \in DOMAIN body.rules
      PROVE  /\ Rules(ids)[k] \in RuleRecord
             /\ \/ Rules(ids)[k].id \in Id \ usedIds
                \/ existing # None /\ Rules(ids)[k].id \in IdsOf(existing)
  <2>1. CASE k \in keeps
    BY <1>2, <2>1 DEF KeepsId
  <2>2. CASE k \notin keeps
    <3>1. ids[k] \in Id \ usedIds
      BY <2>2
    <3>2. Rules(ids)[k] = [body.rules[k] EXCEPT !.id = ids[k]]
      BY <2>2
    <3> HIDE DEF Rules
    <3> QED BY <1>2, <3>1, <3>2 DEF RuleRecord
  <2> QED BY <2>1, <2>2
<1>4. DOMAIN Rules(ids) = 1..Len(body.rules)
  BY <1>2
<1>5. Rules(ids) \in [1..Len(body.rules) -> RuleRecord]
  <2>1. Rules(ids) = [k \in 1..Len(body.rules) |-> Rules(ids)[k]]
    BY <1>2
  <2> HIDE DEF Rules
  <2> QED BY <1>2, <1>3, <2>1
<1> HIDE DEF Rules
<1>6. Rules(ids) \in Seq(RuleRecord)
  BY <1>2, <1>5, SeqDef
<1>7. issuer \in IssuerRecord /\ issuer.rules = Rules(ids)
  BY <1>1, <1>6 DEF IssuerRecord
<1> QED BY <1>2, <1>3, <1>4, <1>7 DEF IdsOf

----------------------------------------------------------------------------
(* Locks *)

\* What a step must leave to a request that does not take it: its place in
\* queues, its hold on locks, and these locks in the map.
Undisturbed(q) ==
  /\ pc'[q] = pc[q] /\ read'[q] = read[q]
  /\ \A l \in Lock : q \in holders[l] => q \in holders'[l]
  /\ \A l \in Lock : Contains(queue[l], q) => Contains(queue'[l], q)
  /\ \A k \in Key : /\ locks[k] # None
                    /\ q \in holders[locks[k]] \/ Contains(queue[locks[k]], q)
                    => locks'[k] = locks[k]

\* What is known of a request under LockInv.
LEMMA Known ==
  ASSUME LockInv, NEW r \in Request
  PROVE  /\ read[r] \in Read /\ pc[r] \in PC
         /\ Stages(r) /\ IssuerLocked(r) /\ RuleLocked(r)
         /\ pc[r] \notin Over => starting = {} /\ read[r].issuer \in Key
         /\ pc[r] \in HoldsRule \cup {"waitRule", "waitIssuer"} /\ r \in Exchange => RuleKey(r) \in Key
         /\ pc[r] \in HoldsRule \cup {"waitRule"} =>
              r \in Exchange /\ RuleKey(r) \in Key /\ read[r].ruleLock \in Lock
         /\ pc[r] \in HoldsIssuer \cup {"waitIssuer"} => read[r].issuerLock \in Lock
<1>1. /\ read[r] \in Read /\ pc[r] \in PC /\ Stages(r) /\ IssuerLocked(r) /\ RuleLocked(r)
      /\ Startup
  BY DEF LockInv, Types, TypeOK, Locking, RequestOK
<1>2. pc[r] \notin Over => starting = {} /\ read[r].issuer \in Key
  BY <1>1 DEF Startup, Stages, Key
<1>3. pc[r] \in HoldsRule \cup {"waitRule"} => r \in Exchange
  BY <1>1 DEF Stages, HoldsRule, Over, Request
<1>4. pc[r] \notin Over /\ r \in Exchange => RuleKey(r) \in Key
  BY <1>1 DEF Stages, RuleKey, Key
<1>5. pc[r] \in HoldsIssuer \cup {"waitIssuer"} => read[r].issuerLock \in Lock
  BY <1>1 DEF IssuerLocked, Read
<1>6. pc[r] \in HoldsRule \cup {"waitRule"} => read[r].ruleLock \in Lock
  BY <1>1 DEF RuleLocked, Read
<1> QED BY <1>1, <1>2, <1>3, <1>4, <1>5, <1>6 DEF HoldsRule, Over

LEMMA LockFrame ==
  ASSUME LockInv, NEW r \in Request, \A q \in Request : q # r => Undisturbed(q),
         starting = {}, starting' = starting, RequestOK(r)', Kinds', Exclusion'
  PROVE  Locking'
<1>1. ASSUME NEW q \in Request, q # r PROVE RequestOK(q)'
  <2>1. Undisturbed(q) /\ Stages(q) /\ IssuerLocked(q) /\ RuleLocked(q)
    BY <1>1, Known
  <2>2. Stages(q)'
    BY <2>1 DEF Undisturbed, Stages
  <2>3. IssuerLocked(q)'
    <3>1. CASE pc[q] \in HoldsIssuer \cup {"waitIssuer"}
      <4>1. read[q].issuer \in Key /\ read[q].issuerLock \in Lock
        BY <3>1, Known DEF HoldsIssuer, HoldsRule, Over
      <4> QED BY <2>1, <3>1, <4>1 DEF Undisturbed, IssuerLocked, HoldsIssuer, HoldsRule
    <3>2. CASE pc[q] \notin HoldsIssuer \cup {"waitIssuer"}
      BY <2>1, <3>2 DEF Undisturbed, IssuerLocked
    <3> QED BY <3>1, <3>2
  <2>4. RuleLocked(q)'
    <3>1. RuleKey(q)' = RuleKey(q)
      BY <2>1 DEF RuleKey, Undisturbed
    <3>2. CASE pc[q] \in HoldsRule \cup {"waitRule"}
      <4>1. RuleKey(q) \in Key /\ read[q].ruleLock \in Lock
        BY <3>2, Known
      <4> QED BY <2>1, <3>1, <3>2, <4>1 DEF Undisturbed, RuleLocked, HoldsRule
    <3>3. CASE pc[q] \notin HoldsRule \cup {"waitRule"}
      BY <2>1, <3>3 DEF Undisturbed, RuleLocked
    <3> QED BY <3>2, <3>3
  <2> QED BY <2>2, <2>3, <2>4 DEF RequestOK
<1> QED BY <1>1 DEF Locking, Startup

\* Nobody else holds a lock that excludes: a change is alone with its issuer,
\* an exchange with its rule.
LEMMA Alone ==
  ASSUME LockInv, NEW r \in Request, NEW q \in Request
  PROVE  /\ /\ pc[r] \in HoldsIssuer /\ pc[q] \in HoldsIssuer /\ r \in Change
            /\ read[r].issuer = read[q].issuer
            => r = q
         /\ /\ pc[r] \in HoldsRule /\ pc[q] \in HoldsRule /\ RuleKey(r) = RuleKey(q)
            => r = q
<1>1. /\ Kinds /\ Exclusion
  BY DEF LockInv, Locking
<1>2. ASSUME pc[r] \in HoldsIssuer, pc[q] \in HoldsIssuer, r \in Change,
             read[r].issuer = read[q].issuer
      PROVE  r = q
  <2> DEFINE l == read[r].issuerLock
  <2>1. l \in Lock /\ read[q].issuerLock = l /\ r \in holders[l] /\ q \in holders[l]
    BY <1>2, Known DEF IssuerLocked
  <2> QED BY <1>1, <1>2, <2>1 DEF Exclusion, Exclusive
<1>3. ASSUME pc[r] \in HoldsRule, pc[q] \in HoldsRule, RuleKey(r) = RuleKey(q)
      PROVE  r = q
  <2> DEFINE l == read[r].ruleLock
  <2>1. /\ l \in Lock /\ read[q].ruleLock = l /\ r \in holders[l] /\ q \in holders[l]
        /\ locks[RuleKey(r)] = l /\ RuleKey(r) \in Issuer \X Id
    <3>1. RuleKey(r) \in Issuer \X Id
      BY <1>3, Known DEF Stages, RuleKey, HoldsRule, Over
    <3> QED BY <1>3, <3>1, Known DEF RuleLocked
  <2>2. l[2] = "rule"
    BY <1>1, <2>1, ConstantsAssumption DEF Kinds, Key
  <2> QED BY <1>1, <2>1, <2>2 DEF Exclusion, Exclusive
<1> QED BY <1>2, <1>3

\* Steps that take or give up no lock.
LEMMA LockStepPlain ==
  ASSUME LockInv, NEW r \in Request, UNCHANGED <<lockVars, process>>, Serving,
         \A q \in Request : q # r => pc'[q] = pc[q] /\ read'[q] = read[q],
         RequestOK(r)'
  PROVE  Locking'
<1>1. \A q \in Request : q # r => Undisturbed(q)
  BY DEF lockVars, Undisturbed
<1>2. Kinds' /\ Exclusion'
  BY DEF LockInv, Locking, Kinds, Exclusion, Exclusive, lockVars
<1> QED BY <1>1, <1>2, LockFrame DEF Serving, process

LEMMA LockStepRead ==
  ASSUME LockInv, NEW e \in Exchange,
         VerifyWorkload(e) \/ ReadAgain(e) \/ FindUser(e) \/ WriteUser(e) \/ IssueToken(e)
  PROVE  Locking'
<1>1. e \in Request /\ Types /\ read[e] \in Read
  BY Known DEF LockInv, Request
<1>2. /\ UNCHANGED <<lockVars, process>> /\ Serving
      /\ \A q \in Request : q # e => pc'[q] = pc[q] /\ read'[q] = read[q]
  BY <1>1, Known DEF VerifyWorkload, ReadAgain, FindUser, WriteUser, IssueToken, Goto, Types, TypeOK,
     Over, Serving
<1>3. CASE VerifyWorkload(e)
  <2>1. PICK i \in Issuer :
          /\ issuers[i] # None /\ issuers[i].enabled
          /\ MatchRule(issuers[i].rules, e) # None
          /\ CheckRuleId(issuers[i], MatchRule(issuers[i].rules, e))
          /\ read' = [read EXCEPT ![e] = [NoRead EXCEPT !.issuer = i, !.body = issuers[i],
                                                       !.rule = MatchRule(issuers[i].rules, e)]]
    BY <1>3 DEF VerifyWorkload
  <2>2. issuers[i] \in IssuerRecord /\ issuers[i].rules \in Seq(RuleRecord)
    BY <1>1, <2>1 DEF Types, TypeOK, IssuerRecord
  <2>3. MatchRule(issuers[i].rules, e) \in RuleRecord
    BY <2>1, <2>2, MatchMeans
  <2>4. MatchRule(issuers[i].rules, e).id \in Id
    BY <2>1, <2>3 DEF CheckRuleId, RuleRecord
  <2>5. /\ pc'[e] = "issuerLock" /\ read'[e].issuer = i
        /\ read'[e].rule = MatchRule(issuers[i].rules, e)
    BY <1>1, <1>3, <2>1 DEF VerifyWorkload, Goto, Types, TypeOK, NoRead
  <2>6. RequestOK(e)'
    BY <2>1, <2>4, <2>5, ConstantsAssumption
    DEF RequestOK, Stages, IssuerLocked, RuleLocked, HoldsIssuer, HoldsRule, Over
  <2> QED BY <1>1, <1>2, <2>6, LockStepPlain
<1>4. CASE ReadAgain(e)
  <2>1. pc[e] = "current" /\ read[e].issuer \in Issuer /\ read[e].rule # None
    BY <1>1, <1>4, Known DEF ReadAgain, Stages, Over
  <2>2. /\ pc'[e] \in {"dropRule", "find"} /\ read'[e].issuer = read[e].issuer
        /\ read'[e].issuerLock = read[e].issuerLock /\ read'[e].ruleLock = read[e].ruleLock
        /\ read'[e].rule \in {read[e].rule, CurrentRule(e)}
        /\ read'[e].rule # None /\ read'[e].rule.id = read[e].rule.id
    BY <1>1, <1>4, <2>1, CurrentMeans DEF ReadAgain, Goto, Types, TypeOK, Read
  <2>3. RequestOK(e)'
    BY <1>1, <1>2, <2>1, <2>2, Known, ConstantsAssumption
    DEF RequestOK, Stages, IssuerLocked, RuleLocked, HoldsIssuer, HoldsRule, Over, RuleKey, lockVars
  <2> QED BY <1>1, <1>2, <2>3, LockStepPlain
<1>5. CASE FindUser(e) \/ WriteUser(e)
  <2>1. /\ pc[e] \in {"find", "write"} /\ pc'[e] \in {"write", "dropRule", "dropRuleThenIssue"}
        /\ read'[e].issuer = read[e].issuer /\ read'[e].rule = read[e].rule
        /\ read'[e].issuerLock = read[e].issuerLock /\ read'[e].ruleLock = read[e].ruleLock
    BY <1>1, <1>5 DEF FindUser, WriteUser, Goto, Types, TypeOK, Read
  <2>2. RequestOK(e)'
    BY <1>1, <1>2, <2>1, Known, ConstantsAssumption
    DEF RequestOK, Stages, IssuerLocked, RuleLocked, HoldsIssuer, HoldsRule, Over, RuleKey, lockVars
  <2> QED BY <1>1, <1>2, <2>2, LockStepPlain
<1>6. CASE IssueToken(e)
  <2>1. pc'[e] = "done"
    BY <1>1, <1>6 DEF IssueToken, Goto, Types, TypeOK
  <2>2. RequestOK(e)'
    BY <2>1 DEF RequestOK, Stages, IssuerLocked, RuleLocked, HoldsIssuer, HoldsRule, Over
  <2> QED BY <1>1, <1>2, <2>2, LockStepPlain
<1> QED BY <1>3, <1>4, <1>5, <1>6

LEMMA LockStepChange ==
  ASSUME LockInv, NEW c \in Change,
         CreateIssuer(c) \/ UpdateIssuer(c) \/ Sync(c) \/ DeleteIssuer(c)
  PROVE  Locking'
<1>1. c \in Request /\ Types /\ read[c] \in Read /\ c \notin Exchange
  BY Known, ConstantsAssumption DEF LockInv, Request
<1>2. /\ UNCHANGED <<lockVars, process>> /\ Serving /\ read' = read
      /\ \A q \in Request : q # c => pc'[q] = pc[q] /\ read'[q] = read[q]
  BY <1>1, Known DEF CreateIssuer, UpdateIssuer, Sync, DeleteIssuer, Goto, Types, TypeOK, Over, Serving
<1>3. \/ pc'[c] = "done"
      \/ pc[c] \in {"update", "sync"} /\ pc'[c] \in {"sync", "dropIssuer"}
  BY <1>1 DEF CreateIssuer, UpdateIssuer, Sync, DeleteIssuer, Goto, Types, TypeOK
<1>4. RequestOK(c)'
  BY <1>1, <1>2, <1>3, Known
  DEF RequestOK, Stages, IssuerLocked, RuleLocked, HoldsIssuer, HoldsRule, Over, lockVars
<1> QED BY <1>1, <1>2, <1>4, LockStepPlain

LEMMA LockStepCancel ==
  ASSUME LockInv, NEW r \in Request, CancelHolding(r)
  PROVE  Locking'
<1>1. /\ UNCHANGED <<lockVars, process>> /\ Serving /\ read' = read
      /\ \A q \in Request : q # r => pc'[q] = pc[q] /\ read'[q] = read[q]
  BY Known DEF CancelHolding, Goto, LockInv, Types, TypeOK, Over, Serving
<1>2. /\ pc[r] \in {"current", "find", "write", "update", "sync"}
      /\ pc'[r] = IF r \in Exchange THEN "dropRule" ELSE "dropIssuer"
  BY DEF CancelHolding, Goto, LockInv, Types, TypeOK
<1>3. RequestOK(r)'
  BY <1>1, <1>2, Known, ConstantsAssumption
  DEF RequestOK, Stages, IssuerLocked, RuleLocked, HoldsIssuer, HoldsRule, Over, RuleKey, lockVars
<1> QED BY <1>1, <1>3, LockStepPlain

\* The lock of a key is the one of the map, or a new one of its kind.
LEMMA LockOfKey ==
  ASSUME LockInv, NEW r \in Request, NEW k \in Key, NEW kind,
         kind = IF k \in Issuer THEN "issuer" ELSE "rule"
  PROVE  /\ LockOf(r, k, kind) \in Lock
         /\ LockOf(r, k, kind)[2] = kind
         /\ locks[k] # None => LockOf(r, k, kind) = locks[k]
<1>1. locks[k] \in Lock \cup {None}
  BY DEF LockInv, Types, TypeOK
<1>2. locks[k] # None => locks[k][2] = kind
  BY DEF LockInv, Locking, Kinds
<1> QED BY <1>1, <1>2 DEF LockOf, Lock

\* Joining the queue of an issuer's lock.
LEMMA LockStepHold ==
  ASSUME LockInv, NEW r \in Request,
         (r \in Exchange /\ HoldIssuer(r)) \/ (r \in Change /\ BeginChange(r))
  PROVE  Locking'
<1> DEFINE i == read'[r].issuer
           l == LockOf(r, i, "issuer")
<1>1. Types /\ read[r] \in Read
  BY Known DEF LockInv
<1>2. /\ i \in Issuer /\ Serving /\ UNCHANGED <<process, holders>>
      /\ locks' = [locks EXCEPT ![i] = l] /\ queue' = [queue EXCEPT ![l] = Append(@, r)]
      /\ pc'[r] = "waitIssuer" /\ read'[r].issuerLock = l
      /\ r \in Exchange => read'[r].rule = read[r].rule /\ pc[r] = "issuerLock"
      /\ \A q \in Request : q # r => pc'[q] = pc[q] /\ read'[q] = read[q]
  <2>1. CASE r \in Exchange /\ HoldIssuer(r)
    <3>1. pc[r] = "issuerLock" /\ read[r].issuer \in Issuer /\ Serving
      BY <2>1, Known DEF HoldIssuer, Stages, Over, Serving
    <3> QED BY <1>1, <2>1, <3>1 DEF HoldIssuer, Goto, Types, TypeOK, Read
  <2>2. CASE r \in Change /\ BeginChange(r)
    <3>1. PICK j \in Issuer, body \in Body \cup {None} :
            /\ locks' = [locks EXCEPT ![j] = LockOf(r, j, "issuer")]
            /\ queue' = [queue EXCEPT ![LockOf(r, j, "issuer")] = Append(@, r)]
            /\ read' = [read EXCEPT ![r] = [NoRead EXCEPT !.issuer = j, !.body = body,
                                                     !.issuerLock = LockOf(r, j, "issuer")]]
      BY <2>2 DEF BeginChange
    <3>2. read'[r].issuer = j /\ read'[r].issuerLock = LockOf(r, j, "issuer")
      BY <1>1, <3>1 DEF Types, NoRead
    <3>3. r \notin Exchange
      BY <2>2, ConstantsAssumption
    <3> QED BY <1>1, <2>2, <3>1, <3>2, <3>3 DEF BeginChange, Goto, Types, TypeOK
  <2> QED BY <2>1, <2>2
<1> HIDE DEF i
<1>3. i \in Key /\ l \in Lock /\ l[2] = "issuer" /\ (locks[i] # None => l = locks[i])
  BY <1>2, LockOfKey DEF Key
<1> HIDE DEF l
<1>4. /\ \A k \in Key : locks'[k] = IF k = i THEN l ELSE locks[k]
      /\ \A m \in Lock : queue'[m] = IF m = l THEN Append(queue[m], r) ELSE queue[m]
      /\ \A m \in Lock : queue[m] \in Seq(Request)
  BY <1>1, <1>2, <1>3 DEF Types, TypeOK
<1>5. \A m \in Lock : \A q : Contains(queue[m], q) => Contains(queue'[m], q)
  BY <1>4, Joining
<1>6. Contains(queue'[l], r)
  BY <1>3, <1>4, Joining
<1>7. \A q \in Request : q # r => Undisturbed(q)
  BY <1>2, <1>3, <1>4, <1>5 DEF Undisturbed
<1>8. Kinds'
  BY <1>2, <1>3, <1>4 DEF LockInv, Locking, Kinds
<1>9. Exclusion'
  BY <1>2 DEF LockInv, Locking, Exclusion, Exclusive
<1>10. RequestOK(r)'
  <2>1. Stages(r)'
    BY <1>2, Known, ConstantsAssumption DEF Stages, Over, Request, i
  <2>2. IssuerLocked(r)'
    BY <1>2, <1>3, <1>4, <1>6, ConstantsAssumption DEF IssuerLocked, HoldsIssuer, HoldsRule, i
  <2>3. RuleLocked(r)'
    BY <1>2 DEF RuleLocked, HoldsRule
  <2> QED BY <2>1, <2>2, <2>3 DEF RequestOK
<1> QED BY <1>2, <1>7, <1>8, <1>9, <1>10, LockFrame DEF Serving, process

\* Who is granted a lock was first in its queue and is excluded by nobody.
LEMMA Grant ==
  ASSUME LockInv, NEW r \in Request, NEW l \in Lock, Granted(r, l),
         holders' = [holders EXCEPT ![l] = @ \cup {r}]
  PROVE  /\ Tail(queue[l]) \in Seq(Request)
         /\ \A q : q # r /\ Contains(queue[l], q) => Contains(Tail(queue[l]), q)
         /\ \A m \in Lock : \A q : q \in holders[m] => q \in holders'[m]
         /\ r \in holders'[l] /\ Exclusion'
         /\ Exclusive(r, l) => holders[l] = {}
<1>1. queue[l] \in Seq(Request) /\ holders \in [Lock -> SUBSET Request] /\ Exclusion
  BY DEF LockInv, Types, TypeOK, Locking
<1>2. /\ Tail(queue[l]) \in Seq(Request)
      /\ \A q : q # r /\ Contains(queue[l], q) => Contains(Tail(queue[l]), q)
  BY <1>1, Leaving DEF Granted
<1>3. \A m \in Lock : holders'[m] = IF m = l THEN holders[m] \cup {r} ELSE holders[m]
  BY <1>1
<1>4. Exclusive(r, l) => holders[l] = {}
  BY DEF Granted
<1>5. Exclusion'
  <2> SUFFICES ASSUME NEW m \in Lock, NEW h \in holders'[m], Exclusive(h, m)
               PROVE  holders'[m] = {h}
    BY DEF Exclusion, Exclusive
  <2>1. CASE m = l
    BY <1>3, <2>1 DEF Granted
  <2>2. CASE m # l
    BY <1>1, <1>3, <2>2 DEF Exclusion
  <2> QED BY <2>1, <2>2
<1>6. r \in holders'[l] /\ \A m \in Lock : \A q : q \in holders[m] => q \in holders'[m]
  BY <1>3
<1> QED BY <1>2, <1>4, <1>5, <1>6, Zenon

LEMMA LockStepAcquireIssuer ==
  ASSUME LockInv, NEW e \in Exchange, AcquireIssuer(e)
  PROVE  Locking'
<1> DEFINE l == read[e].issuerLock
           key == RuleKey(e)
           k == LockOf(e, key, "rule")
<1>1. /\ e \in Request /\ Types /\ read[e] \in Read /\ pc[e] = "waitIssuer" /\ Serving
      /\ key \in Key /\ key \in Issuer \X Id /\ key \notin Issuer /\ l \in Lock
      /\ read[e].issuer \in Issuer /\ read[e].rule # None /\ read[e].rule.id \in Id
      /\ locks[read[e].issuer] = l
  <2>1. e \in Request /\ pc[e] = "waitIssuer"
    BY DEF Request, AcquireIssuer
  <2>2. /\ Types /\ read[e] \in Read /\ Serving /\ key \in Key /\ l \in Lock
        /\ read[e].issuer \in Issuer /\ read[e].rule # None /\ read[e].rule.id \in Id
        /\ locks[read[e].issuer] = l
    BY <2>1, Known DEF LockInv, Serving, Over, Stages, IssuerLocked
  <2> QED BY <2>1, <2>2, ConstantsAssumption DEF RuleKey
<1>2. /\ Granted(e, l) /\ UNCHANGED process
      /\ locks' = [locks EXCEPT ![key] = k]
      /\ queue' = [queue EXCEPT ![l] = Tail(@), ![k] = Append(@, e)]
      /\ holders' = [holders EXCEPT ![l] = @ \cup {e}]
      /\ read' = [read EXCEPT ![e].ruleLock = k]
      /\ pc' = [pc EXCEPT ![e] = "waitRule"]
  BY DEF AcquireIssuer, Goto
<1>3. k \in Lock /\ k[2] = "rule" /\ (locks[key] # None => k = locks[key])
  BY <1>1, LockOfKey
<1>4. l # k
  <2>1. l[2] = "issuer"
    BY <1>1, ConstantsAssumption DEF LockInv, Locking, Kinds, Key
  <2> QED BY <1>3, <2>1
<1>5. /\ pc'[e] = "waitRule" /\ read'[e].issuer = read[e].issuer /\ read'[e].rule = read[e].rule
      /\ read'[e].issuerLock = l /\ read'[e].ruleLock = k
      /\ \A q \in Request : q # e => pc'[q] = pc[q] /\ read'[q] = read[q]
  BY <1>1, <1>2 DEF Types, TypeOK, Read
<1>6. key = RuleKey(e)'
  BY <1>5 DEF RuleKey
<1> HIDE DEF l, k, key
<1>7. /\ \A m \in Key : locks'[m] = IF m = key THEN k ELSE locks[m]
      /\ \A m \in Lock : queue'[m] = IF m = k THEN Append(queue[m], e)
                                     ELSE IF m = l THEN Tail(queue[m]) ELSE queue[m]
      /\ \A m \in Lock : queue[m] \in Seq(Request)
  BY <1>1, <1>2, <1>3, <1>4 DEF Types, TypeOK
<1>8. /\ \A q : q # e /\ Contains(queue[l], q) => Contains(Tail(queue[l]), q)
      /\ \A m \in Lock : \A q : q \in holders[m] => q \in holders'[m]
      /\ e \in holders'[l] /\ Exclusion'
  BY <1>1, <1>2, Grant
<1>9. Contains(queue'[k], e) /\ \A q : Contains(queue[k], q) => Contains(queue'[k], q)
  BY <1>1, <1>3, <1>7, Joining
<1>10. \A m \in Lock : \A q : q # e /\ Contains(queue[m], q) => Contains(queue'[m], q)
  BY <1>7, <1>8, <1>9
<1>11. \A q \in Request : q # e => Undisturbed(q)
  BY <1>3, <1>5, <1>7, <1>8, <1>10 DEF Undisturbed
<1>12. Kinds'
  BY <1>1, <1>3, <1>7 DEF LockInv, Locking, Kinds
<1>13. RequestOK(e)'
  <2>1. Stages(e)'
    BY <1>1, <1>5, ConstantsAssumption DEF Stages, Over
  <2>2. IssuerLocked(e)'
    BY <1>1, <1>5, <1>7, <1>8, ConstantsAssumption DEF IssuerLocked, HoldsIssuer, HoldsRule, Key
  <2>3. RuleLocked(e)'
    BY <1>1, <1>3, <1>5, <1>6, <1>7, <1>9, ConstantsAssumption DEF RuleLocked, HoldsRule
  <2> QED BY <2>1, <2>2, <2>3 DEF RequestOK
<1> QED BY <1>1, <1>2, <1>8, <1>11, <1>12, <1>13, LockFrame DEF Serving, process

LEMMA LockStepAcquire ==
  ASSUME LockInv, NEW r \in Request,
         (r \in Exchange /\ AcquireRule(r)) \/ (r \in Change /\ AcquireForChange(r))
  PROVE  Locking'
<1> DEFINE l == IF r \in Exchange THEN read[r].ruleLock ELSE read[r].issuerLock
<1>1. Types /\ read[r] \in Read /\ (r \in Change => r \notin Exchange)
  BY Known, ConstantsAssumption DEF LockInv
<1>2. /\ pc[r] = (IF r \in Exchange THEN "waitRule" ELSE "waitIssuer")
      /\ pc' = [pc EXCEPT ![r] = IF r \in Exchange THEN "current" ELSE "update"]
      /\ Granted(r, l) /\ queue' = [queue EXCEPT ![l] = Tail(@)]
      /\ UNCHANGED <<process, locks, read>>
  BY <1>1 DEF AcquireRule, AcquireForChange, Goto
<1>3. l \in Lock /\ Serving
  BY <1>1, <1>2, Known DEF Over, Serving, HoldsRule
<1>4. holders' = [holders EXCEPT ![l] = @ \cup {r}]
  <2>1. CASE r \in Exchange
    BY <1>1, <2>1 DEF AcquireRule
  <2>2. CASE r \notin Exchange
    <3>1. holders[l] = {}
      BY <1>1, <1>2, <2>2 DEF Granted, Exclusive, Request
    <3> QED BY <1>1, <1>3, <2>2, <3>1 DEF AcquireForChange, Types, TypeOK
  <2> QED BY <2>1, <2>2
<1> HIDE DEF l
<1>5. /\ \A q : q # r /\ Contains(queue[l], q) => Contains(Tail(queue[l]), q)
      /\ \A m \in Lock : \A q : q \in holders[m] => q \in holders'[m]
      /\ r \in holders'[l] /\ Exclusion'
  BY <1>2, <1>3, <1>4, Grant
<1>6. /\ \A m \in Lock : queue'[m] = IF m = l THEN Tail(queue[m]) ELSE queue[m]
      /\ pc'[r] = (IF r \in Exchange THEN "current" ELSE "update")
      /\ \A q \in Request : q # r => pc'[q] = pc[q] /\ read'[q] = read[q]
  BY <1>1, <1>2, <1>3 DEF Types, TypeOK
<1>7. \A q \in Request : q # r => Undisturbed(q)
  BY <1>2, <1>5, <1>6 DEF Undisturbed
<1>8. Kinds'
  BY <1>2 DEF LockInv, Locking, Kinds
<1>9. RequestOK(r)'
  <2>1. Stages(r)'
    BY <1>1, <1>2, <1>6, Known DEF Stages, Over, Request
  <2>2. IssuerLocked(r)' /\ RuleLocked(r)'
    BY <1>1, <1>2, <1>3, <1>5, <1>6, Known
    DEF IssuerLocked, RuleLocked, RuleKey, HoldsIssuer, HoldsRule, l
  <2> QED BY <2>1, <2>2 DEF RequestOK
<1> QED BY <1>2, <1>3, <1>5, <1>7, <1>8, <1>9, LockFrame DEF Serving, process

\* A lock that is dropped leaves the map only when nobody else uses it.
LEMMA Drop ==
  ASSUME LockInv, NEW r \in Request, NEW key \in Key, NEW l \in Lock, DropHeld(r, key, l)
  PROVE  /\ \A m \in Lock : \A q : q # r \/ m # l => (q \in holders[m] => q \in holders'[m])
         /\ \A k \in Key : k # key => locks'[k] = locks[k]
         /\ \A k \in Key : \A q :
              /\ q # r /\ locks[k] # None
              /\ q \in holders[locks[k]] \/ Contains(queue[locks[k]], q)
              => locks'[k] = locks[k]
         /\ Kinds' /\ Exclusion'
<1>1. /\ holders \in [Lock -> SUBSET Request] /\ locks \in [Key -> Lock \cup {None}]
      /\ Kinds /\ Exclusion
  BY DEF LockInv, Types, TypeOK, Locking
<1>2. /\ holders' = [holders EXCEPT ![l] = @ \ {r}] /\ queue' = queue
      /\ locks' = IF locks[key] # None /\ ~InUse(locks[key], holders')
                  THEN [locks EXCEPT ![key] = None] ELSE locks
  BY DEF DropHeld
<1>3. \A m \in Lock : holders'[m] = IF m = l THEN holders[m] \ {r} ELSE holders[m]
  BY <1>1, <1>2
<1>4. \A m \in Lock : \A q : q # r \/ m # l => (q \in holders[m] => q \in holders'[m])
  BY <1>3
<1>5. \A k \in Key : k # key => locks'[k] = locks[k]
  BY <1>1, <1>2
<1>6. ASSUME NEW q, q # r, locks[key] # None,
             q \in holders[locks[key]] \/ Contains(queue[locks[key]], q)
      PROVE  locks' = locks
  <2>1. locks[key] \in Lock
    BY <1>1, <1>6
  <2>2. q \in holders'[locks[key]] \/ Contains(queue[locks[key]], q)
    BY <1>4, <1>6, <2>1
  <2>3. Contains(<<>>, q) => FALSE
    BY DEF Contains
  <2>4. InUse(locks[key], holders')
    BY <2>2, <2>3 DEF InUse
  <2> QED BY <1>2, <2>4
<1>7. \A k \in Key : \A q :
        /\ q # r /\ locks[k] # None
        /\ q \in holders[locks[k]] \/ Contains(queue[locks[k]], q)
        => locks'[k] = locks[k]
  BY <1>5, <1>6
<1>8. Kinds'
  <2>1. \A k \in Key : locks'[k] = locks[k] \/ locks'[k] = None
    BY <1>1, <1>2
  <2> QED BY <1>1, <2>1 DEF Kinds
<1>9. Exclusion'
  <2> SUFFICES ASSUME NEW m \in Lock, NEW h \in holders'[m], Exclusive(h, m)
               PROVE  holders'[m] = {h}
    BY DEF Exclusion, Exclusive
  <2>1. h \in holders[m] /\ \A x \in holders'[m] : x \in holders[m]
    BY <1>3
  <2>2. holders[m] = {h}
    BY <1>1, <2>1 DEF Exclusion
  <2> QED BY <2>1, <2>2
<1> QED BY <1>4, <1>5, <1>7, <1>8, <1>9, Zenon

LEMMA LockStepDropRule ==
  ASSUME LockInv, NEW e \in Exchange, DropRule(e)
  PROVE  Locking'
<1> DEFINE l == read[e].ruleLock
           key == RuleKey(e)
<1>1. /\ e \in Request /\ Types /\ read[e] \in Read /\ Serving
      /\ pc[e] \in {"dropRule", "dropRuleThenIssue"}
  <2>1. e \in Request /\ pc[e] \in {"dropRule", "dropRuleThenIssue"}
    BY DEF Request, DropRule
  <2> QED BY <2>1, Known DEF LockInv, Over, Serving
<1>2. key \in Key /\ l \in Lock /\ locks[key] = l /\ key \in Issuer \X Id /\ key \notin Issuer
  BY <1>1, Known, ConstantsAssumption DEF HoldsRule, RuleLocked, Stages, Over, RuleKey
<1>3. /\ DropHeld(e, key, l) /\ UNCHANGED <<process, read>> /\ queue' = queue
      /\ pc'[e] \in {"dropIssuer", "dropIssuerThenIssue"}
      /\ \A q \in Request : q # e => pc'[q] = pc[q]
  BY <1>1 DEF DropRule, Goto, Types, TypeOK, DropHeld
<1>4. /\ read[e].issuer \in Issuer /\ read[e].issuer \in Key /\ read[e].issuerLock \in Lock
      /\ locks[read[e].issuer] = read[e].issuerLock /\ read[e].issuerLock # None
      /\ e \in holders[read[e].issuerLock]
  BY <1>1, Known DEF HoldsIssuer, HoldsRule, IssuerLocked, Over, Stages
<1>5. read[e].issuerLock # l
  <2>1. read[e].issuerLock[2] = "issuer" /\ l[2] = "rule"
    BY <1>2, <1>4, ConstantsAssumption DEF LockInv, Locking, Kinds, Lock
  <2> QED BY <2>1
<1>6. /\ \A m \in Lock : \A q : q # e \/ m # l => (q \in holders[m] => q \in holders'[m])
      /\ \A k \in Key : k # key => locks'[k] = locks[k]
      /\ \A k \in Key : \A q :
           /\ q # e /\ locks[k] # None
           /\ q \in holders[locks[k]] \/ Contains(queue[locks[k]], q)
           => locks'[k] = locks[k]
      /\ Kinds' /\ Exclusion'
  BY <1>1, <1>2, <1>3, Drop
<1> HIDE DEF l, key
<1>7. \A q \in Request : q # e => Undisturbed(q)
  BY <1>3, <1>6 DEF Undisturbed
<1>8. RequestOK(e)'
  <2>1. Stages(e)'
    BY <1>1, <1>3, Known, ConstantsAssumption DEF Stages, Over
  <2>2. locks'[read[e].issuer] = read[e].issuerLock /\ e \in holders'[read[e].issuerLock]
    BY <1>2, <1>4, <1>5, <1>6
  <2>3. IssuerLocked(e)'
    BY <1>3, <1>4, <2>2 DEF IssuerLocked
  <2>4. RuleLocked(e)'
    BY <1>3 DEF RuleLocked, HoldsRule
  <2> QED BY <2>1, <2>3, <2>4 DEF RequestOK
<1> QED BY <1>1, <1>3, <1>6, <1>7, <1>8, LockFrame DEF Serving, process

LEMMA LockStepDropIssuer ==
  ASSUME LockInv, NEW r \in Request, DropIssuer(r)
  PROVE  Locking'
<1> DEFINE l == read[r].issuerLock
           key == read[r].issuer
<1>1. /\ Types /\ read[r] \in Read /\ Serving
      /\ pc[r] \in {"dropIssuer", "dropIssuerThenIssue"}
      /\ key \in Key /\ l \in Lock
  <2>1. pc[r] \in {"dropIssuer", "dropIssuerThenIssue"}
    BY DEF DropIssuer
  <2> QED BY <2>1, Known DEF LockInv, Over, Serving, HoldsIssuer
<1>2. /\ DropHeld(r, key, l) /\ UNCHANGED process /\ queue' = queue
      /\ \A q \in Request : q # r => pc'[q] = pc[q] /\ read'[q] = read[q]
      /\ \/ pc'[r] = "done"
         \/ pc[r] = "dropIssuerThenIssue" /\ pc'[r] = "issue" /\ read'[r] = read[r]
  BY <1>1 DEF DropIssuer, Goto, Types, TypeOK, DropHeld
<1>3. /\ \A m \in Lock : \A q : q # r \/ m # l => (q \in holders[m] => q \in holders'[m])
      /\ \A k \in Key : \A q :
           /\ q # r /\ locks[k] # None
           /\ q \in holders[locks[k]] \/ Contains(queue[locks[k]], q)
           => locks'[k] = locks[k]
      /\ Kinds' /\ Exclusion'
  BY <1>1, <1>2, Drop
<1> HIDE DEF l, key
<1>4. \A q \in Request : q # r => Undisturbed(q)
  BY <1>2, <1>3 DEF Undisturbed
<1>5. RequestOK(r)'
  <2>1. Stages(r)'
    BY <1>1, <1>2, Known, ConstantsAssumption DEF Stages, Over
  <2>2. IssuerLocked(r)' /\ RuleLocked(r)'
    BY <1>2 DEF IssuerLocked, RuleLocked, HoldsIssuer, HoldsRule
  <2> QED BY <2>1, <2>2 DEF RequestOK
<1> QED BY <1>1, <1>2, <1>3, <1>4, <1>5, LockFrame DEF Serving, process

LEMMA LockStepGiveUp ==
  ASSUME LockInv, NEW r \in Request, CancelWaiting(r)
  PROVE  Locking'
<1> DEFINE l == IF pc[r] = "waitIssuer" THEN read[r].issuerLock ELSE read[r].ruleLock
<1>1. /\ Types /\ read[r] \in Read /\ Serving /\ l \in Lock /\ pc[r] \in {"waitIssuer", "waitRule"}
  <2>1. pc[r] \in {"waitIssuer", "waitRule"}
    BY DEF CancelWaiting
  <2> QED BY <2>1, Known DEF LockInv, Over, Serving
<1>2. PICK k \in DOMAIN queue[l] :
        queue[l][k] = r /\ queue' = [queue EXCEPT ![l] = RemoveAt(@, k)]
  BY DEF CancelWaiting
<1>3. /\ UNCHANGED <<process, locks, holders>>
      /\ \A q \in Request : q # r => pc'[q] = pc[q] /\ read'[q] = read[q]
      /\ \/ pc'[r] = "done"
         \/ pc[r] = "waitRule" /\ pc'[r] = "dropIssuer" /\ read'[r] = read[r]
  BY <1>1 DEF CancelWaiting, Goto, Types, TypeOK
<1> HIDE DEF l
<1>4. \A m \in Lock : queue[m] \in Seq(Request) /\
                      queue'[m] = IF m = l THEN RemoveAt(queue[m], k) ELSE queue[m]
  BY <1>1, <1>2 DEF Types, TypeOK
<1>5. \A q : q # r /\ Contains(queue[l], q) => Contains(RemoveAt(queue[l], k), q)
  BY <1>1, <1>2, <1>4, GivingUp
<1>6. \A m \in Lock : \A q : q # r /\ Contains(queue[m], q) => Contains(queue'[m], q)
  BY <1>4, <1>5
<1>7. \A q \in Request : q # r => Undisturbed(q)
  BY <1>3, <1>6 DEF Undisturbed
<1>8. Kinds' /\ Exclusion'
  BY <1>3 DEF LockInv, Locking, Kinds, Exclusion, Exclusive
<1>9. RequestOK(r)'
  <2>1. Stages(r)'
    BY <1>1, <1>3, Known, ConstantsAssumption DEF Stages, Over, HoldsRule
  <2>2. IssuerLocked(r)' /\ RuleLocked(r)'
    BY <1>3, Known DEF IssuerLocked, RuleLocked, HoldsIssuer, HoldsRule
  <2> QED BY <2>1, <2>2 DEF RequestOK
<1> QED BY <1>1, <1>3, <1>7, <1>8, <1>9, LockFrame DEF Serving, process

LEMMA LockStepRestart ==
  ASSUME LockInv, Restart
  PROVE  Locking'
<1>1. /\ locks' = [k \in Key |-> None] /\ holders' = [l \in Lock |-> {}]
      /\ \A r \in Request : pc'[r] \in Over
      /\ starting' = {i \in Issuer : issuers'[i] # None}
  BY DEF Restart, Over
<1>2. Kinds' /\ Exclusion' /\ Startup'
  BY <1>1 DEF Kinds, Exclusion, Startup
<1>3. \A r \in Request : RequestOK(r)'
  BY <1>1 DEF RequestOK, Stages, IssuerLocked, RuleLocked, HoldsIssuer, HoldsRule, Over
<1> QED BY <1>2, <1>3 DEF Locking

LEMMA LockStepSyncAll ==
  ASSUME LockInv, NEW i \in Issuer, SyncAllWorkloadUsers(i)
  PROVE  Locking'
<1>1. /\ UNCHANGED <<issuers, lockVars, pc, read>> /\ starting # {}
      /\ starting' = starting \ {i}
  BY DEF SyncAllWorkloadUsers
<1>2. Startup'
  BY <1>1 DEF LockInv, Locking, Startup
<1> QED BY <1>1, <1>2
    DEF LockInv, Locking, Kinds, Exclusion, Exclusive, RequestOK, Stages, IssuerLocked, RuleLocked,
        RuleKey, lockVars

----------------------------------------------------------------------------
(* Types *)

\* Bringing users in line keeps them users.
LEMMA SyncTypes ==
  ASSUME Types, NEW i \in Issuer, issuers[i] # None, SyncWorkloadUsers(i, OfIssuer(issuers[i]))
  PROVE  users' \in [Issuer \X Id -> UserRecord \cup {None}]
<1> DEFINE access == OfIssuer(issuers[i])
<1>1. /\ users \in [Issuer \X Id -> UserRecord \cup {None}] /\ issuers[i] \in IssuerRecord
  BY DEF Types, TypeOK
<1>2. \A id \in DOMAIN access : access[id] \in UserRecord
  BY <1>1, AccessMeans
<1> HIDE DEF access
<1>3. users' = [u \in Issuer \X Id |->
                  IF u[1] # i \/ users[u] = None THEN users[u]
                  ELSE IF u[2] \in DOMAIN access THEN access[u[2]] ELSE None]
  BY <1>1 DEF SyncWorkloadUsers, access
<1> QED BY <1>1, <1>2, <1>3

\* What a step stores.
StorageTypes ==
  /\ issuers \in [Issuer -> IssuerRecord \cup {None}] /\ StoredIds
  /\ users \in [Issuer \X Id -> UserRecord \cup {None}]
  /\ usedIds \subseteq Id /\ unsynced \subseteq Issuer

LEMMA StoreNext ==
  ASSUME LockInv, NEW c \in Change, CreateIssuer(c) \/ UpdateIssuer(c)
  PROVE  StorageTypes'
<1>1. c \in Request /\ Types /\ read[c] \in Read
  BY Known DEF LockInv, Request
<1>2. StorageTypes
  BY <1>1 DEF StorageTypes, Types, TypeOK
<1>3. \/ UNCHANGED storage
      \/ /\ users' = users /\ unsynced' \in SUBSET (unsynced \cup Issuer)
         /\ \E i \in Stored, body \in IssuerRecord :
              \E existing \in {None, issuers[i]} : \E issuer \in ValidateIssuer(body, existing) :
                 /\ issuers' = [issuers EXCEPT ![i] = issuer]
                 /\ usedIds' = usedIds \cup IdsOf(issuer)
  <2>1. CASE CreateIssuer(c)
    BY <2>1, ConstantsAssumption DEF CreateIssuer
  <2>2. CASE UpdateIssuer(c)
    <3>1. read[c].body \in IssuerRecord
      BY <1>1, <2>2 DEF UpdateIssuer, Read
    <3> QED BY <2>2, <3>1 DEF UpdateIssuer, Managed, storage, Issuer
  <2> QED BY <2>1, <2>2
<1>4. CASE UNCHANGED storage
  BY <1>2, <1>4 DEF StorageTypes, storage, StoredIds
<1>5. CASE ~UNCHANGED storage
  <2>1. PICK i \in Stored, body \in IssuerRecord :
          \E existing \in {None, issuers[i]} : \E issuer \in ValidateIssuer(body, existing) :
             /\ issuers' = [issuers EXCEPT ![i] = issuer]
             /\ usedIds' = usedIds \cup IdsOf(issuer)
    BY <1>3, <1>5
  <2>2. PICK existing \in {None, issuers[i]} : \E issuer \in ValidateIssuer(body, existing) :
             /\ issuers' = [issuers EXCEPT ![i] = issuer]
             /\ usedIds' = usedIds \cup IdsOf(issuer)
    BY <2>1
  <2>0. PICK issuer \in ValidateIssuer(body, existing) :
             /\ issuers' = [issuers EXCEPT ![i] = issuer]
             /\ usedIds' = usedIds \cup IdsOf(issuer)
    BY <2>2
  <2>3. i \in Issuer /\ existing \in IssuerRecord \cup {None}
    BY <1>2 DEF StorageTypes, Issuer
  <2>4. /\ issuer \in IssuerRecord
        /\ \A id \in IdsOf(issuer) :
              id \in Id \ usedIds \/ (existing # None /\ id \in IdsOf(existing))
    BY <2>3, ValidMeans
  <2>5. existing # None => IdsOf(existing) \subseteq Id
    BY <1>2 DEF StorageTypes, StoredIds
  <2>6. IdsOf(issuer) \subseteq Id
    BY <2>4, <2>5
  <2>7. \A j \in Issuer : issuers'[j] = IF j = i THEN issuer ELSE issuers[j]
    BY <1>2, <2>0 DEF StorageTypes
  <2>8. StoredIds'
    BY <1>2, <2>6, <2>7 DEF StorageTypes, StoredIds, Issuer
  <2>9. issuers' \in [Issuer -> IssuerRecord \cup {None}] /\ usedIds' \subseteq Id
    BY <1>2, <2>0, <2>4, <2>6 DEF StorageTypes
  <2> QED BY <1>2, <1>3, <1>5, <2>8, <2>9 DEF StorageTypes
<1> QED BY <1>4, <1>5

LEMMA StorageNext ==
  ASSUME LockInv, SyncPending, [Next]_vars
  PROVE  StorageTypes'
<1>1. Types
  BY DEF LockInv
<1>2. StorageTypes
  BY <1>1 DEF StorageTypes, Types, TypeOK
<1>3. CASE UNCHANGED storage
  BY <1>2, <1>3 DEF StorageTypes, storage, StoredIds
<1>4. ASSUME NEW e \in Exchange, WriteUser(e) PROVE StorageTypes'
  <2>1. /\ e \in Request /\ read[e] \in Read /\ pc[e] = "write"
    BY <1>4, Known DEF Request, WriteUser
  <2>2. RuleKey(e) \in Issuer \X Id /\ read[e].rule \in RuleRecord
    BY <2>1, Known DEF Stages, Over, RuleKey, Read
  <2>3. PICK b \in BOOLEAN : b = (read[e].found = None \/ read[e].found.enabled)
    BY Zenon
  <2>4. \/ users' = [users EXCEPT ![RuleKey(e)] = [admin |-> read[e].rule.admin, enabled |-> b]]
        \/ users' = users
    BY <1>4, <2>3 DEF WriteUser
  <2>5. [admin |-> read[e].rule.admin, enabled |-> b] \in UserRecord
    BY <2>2 DEF RuleRecord, UserRecord
  <2>6. users' \in [Issuer \X Id -> UserRecord \cup {None}]
    BY <1>2, <2>2, <2>4, <2>5 DEF StorageTypes
  <2>7. UNCHANGED <<issuers, usedIds, unsynced>>
    BY <1>4 DEF WriteUser
  <2> QED BY <1>2, <2>6, <2>7 DEF StorageTypes, StoredIds
<1>5. ASSUME NEW c \in Change, Sync(c) PROVE StorageTypes'
  <2>1. c \in Request /\ pc[c] = "sync" /\ read[c].issuer \in Issuer /\ issuers[read[c].issuer] # None
    BY <1>5, Known DEF Request, Sync, Stages, Over, SyncPending
  <2>2. users' \in [Issuer \X Id -> UserRecord \cup {None}]
    BY <1>1, <1>2, <1>5, <2>1, SyncTypes DEF Sync, StorageTypes
  <2>3. UNCHANGED <<issuers, usedIds>> /\ unsynced' \subseteq unsynced
    BY <1>5 DEF Sync
  <2> QED BY <1>2, <2>2, <2>3 DEF StorageTypes, StoredIds
<1>6. ASSUME NEW c \in Change, DeleteIssuer(c) PROVE StorageTypes'
  <2> DEFINE i == read[c].issuer
  <2>1. UNCHANGED <<usedIds, unsynced>>
    BY <1>6 DEF DeleteIssuer
  <2>2. \/ /\ issuers' = [issuers EXCEPT ![i] = None]
           /\ users' = [u \in DOMAIN users |-> IF u[1] = i THEN None ELSE users[u]]
        \/ UNCHANGED <<issuers, users>>
    BY <1>6 DEF DeleteIssuer
  <2> HIDE DEF i
  <2>3. /\ issuers' \in [Issuer -> IssuerRecord \cup {None}]
        /\ users' \in [Issuer \X Id -> UserRecord \cup {None}]
        /\ \A j \in Issuer : issuers'[j] \in {issuers[j], None}
    BY <1>2, <2>2 DEF StorageTypes
  <2>4. StoredIds'
    BY <1>2, <2>3 DEF StorageTypes, StoredIds, Issuer
  <2> QED BY <1>2, <2>1, <2>3, <2>4 DEF StorageTypes
<1>7. ASSUME NEW i \in Issuer, SyncAllWorkloadUsers(i) PROVE StorageTypes'
  <2>1. UNCHANGED <<issuers, usedIds>> /\ unsynced' \subseteq unsynced
    BY <1>7 DEF SyncAllWorkloadUsers
  <2>2. issuers[i] # None
    BY <1>7 DEF SyncAllWorkloadUsers, LockInv, Locking, Startup
  <2>3. users' \in [Issuer \X Id -> UserRecord \cup {None}]
    BY <1>1, <1>7, <2>2, SyncTypes DEF SyncAllWorkloadUsers
  <2> QED BY <1>2, <2>1, <2>3 DEF StorageTypes, StoredIds
<1>8. CASE Restart
  <2>1. PICK conf \in [Static -> Configured] :
          issuers' = [i \in Issuer |-> IF i \in Static THEN conf[i] ELSE issuers[i]]
    BY <1>8 DEF Restart
  <2>2. UNCHANGED <<users, usedIds, unsynced>>
    BY <1>8 DEF Restart
  <2>3. issuers' \in [Issuer -> IssuerRecord \cup {None}] /\ StoredIds'
    BY <1>2, <2>1, ConstantsAssumption DEF StorageTypes, StoredIds, Issuer
  <2> QED BY <1>2, <2>2, <2>3 DEF StorageTypes
<1>9. ASSUME NEW e \in Exchange, VerifyWorkload(e) \/ ExchangeStep(e) PROVE StorageTypes'
  BY <1>3, <1>4, <1>9
  DEF ExchangeStep, VerifyWorkload, HoldIssuer, AcquireIssuer, AcquireRule, ReadAgain, FindUser, DropRule,
      DropIssuer, IssueToken
<1>10. ASSUME NEW c \in Change, CreateIssuer(c) \/ BeginChange(c) \/ ChangeStep(c) PROVE StorageTypes'
  BY <1>3, <1>5, <1>6, <1>10, StoreNext DEF ChangeStep, BeginChange, AcquireForChange, DropIssuer
<1>11. ASSUME NEW r \in Request, CancelWaiting(r) \/ CancelHolding(r) PROVE StorageTypes'
  BY <1>3, <1>11 DEF CancelWaiting, CancelHolding
<1>12. CASE UNCHANGED vars
  BY <1>3, <1>12 DEF vars
<1> QED BY <1>7, <1>8, <1>9, <1>10, <1>11, <1>12 DEF Next

LEMMA ReadNext ==
  ASSUME LockInv, [Next]_vars
  PROVE  read' \in [Request -> Read]
<1>1. Types /\ read \in [Request -> Read]
  BY DEF LockInv, Types
<1>2. NoRead \in Read
  BY DEF NoRead, Read
<1>3. CASE UNCHANGED read
  BY <1>1, <1>3
<1>4. ASSUME NEW r \in Request, NEW new \in Read, read' = [read EXCEPT ![r] = new]
      PROVE  read' \in [Request -> Read]
  BY <1>1, <1>4
<1>5. ASSUME NEW e \in Exchange, VerifyWorkload(e) PROVE read' \in [Request -> Read]
  <2>1. PICK i \in Issuer :
          /\ issuers[i] # None /\ MatchRule(issuers[i].rules, e) # None
          /\ read' = [read EXCEPT ![e] = [NoRead EXCEPT !.issuer = i, !.body = issuers[i],
                                                       !.rule = MatchRule(issuers[i].rules, e)]]
    BY <1>5 DEF VerifyWorkload
  <2>2. issuers[i] \in IssuerRecord /\ issuers[i].rules \in Seq(RuleRecord)
    BY <1>1, <2>1 DEF Types, TypeOK, IssuerRecord
  <2>3. MatchRule(issuers[i].rules, e) \in RuleRecord
    BY <2>1, <2>2, MatchMeans
  <2>4. [NoRead EXCEPT !.issuer = i, !.body = issuers[i], !.rule = MatchRule(issuers[i].rules, e)] \in Read
    BY <1>2, <2>2, <2>3 DEF Read
  <2> QED BY <1>4, <2>1, <2>4 DEF Request
<1>6. ASSUME NEW e \in Exchange, HoldIssuer(e) \/ AcquireIssuer(e) PROVE read' \in [Request -> Read]
  <2>1. e \in Request /\ read[e] \in Read
    BY Known DEF Request
  <2>2. CASE HoldIssuer(e)
    <3> DEFINE l == LockOf(e, read[e].issuer, "issuer")
    <3>1. read[e].issuer \in Issuer
      BY <2>1, <2>2, Known DEF HoldIssuer, Stages, Over
    <3>2. l \in Lock
      BY <2>1, <3>1, LockOfKey DEF Key
    <3>3. read' = [read EXCEPT ![e].issuerLock = l]
      BY <2>2 DEF HoldIssuer
    <3> QED BY <1>1, <2>1, <3>2, <3>3 DEF Read
  <2>3. CASE AcquireIssuer(e)
    <3> DEFINE l == LockOf(e, RuleKey(e), "rule")
    <3>1. RuleKey(e) \in Issuer \X Id
      BY <2>1, <2>3, Known DEF AcquireIssuer, Stages, Over, RuleKey
    <3>2. l \in Lock
      BY <2>1, <3>1, LockOfKey, ConstantsAssumption DEF Key
    <3>3. read' = [read EXCEPT ![e].ruleLock = l]
      BY <2>3 DEF AcquireIssuer
    <3> QED BY <1>1, <2>1, <3>2, <3>3 DEF Read
  <2> QED BY <1>6, <2>2, <2>3
<1>7. ASSUME NEW e \in Exchange, ReadAgain(e) PROVE read' \in [Request -> Read]
  <2>1. e \in Request /\ read[e] \in Read /\ read[e].issuer \in Issuer
    BY <1>7, Known DEF Request, ReadAgain, Stages, Over
  <2>2. CASE CurrentRule(e) = None
    BY <1>3, <1>7, <2>2 DEF ReadAgain
  <2>3. CASE CurrentRule(e) # None
    <3>1. CurrentRule(e) \in RuleRecord
      BY <1>1, <2>1, <2>3, CurrentMeans
    <3> QED BY <1>1, <1>7, <2>1, <2>3, <3>1 DEF ReadAgain, Read
  <2> QED BY <2>2, <2>3
<1>8. ASSUME NEW e \in Exchange, FindUser(e) PROVE read' \in [Request -> Read]
  <2>1. e \in Request /\ read[e] \in Read /\ RuleKey(e) \in Issuer \X Id
    BY <1>8, Known DEF Request, FindUser, Stages, Over, RuleKey
  <2>2. users[RuleKey(e)] \in UserRecord \cup {None}
    BY <1>1, <2>1 DEF Types, TypeOK
  <2> QED BY <1>1, <1>8, <2>1, <2>2 DEF FindUser, Read
<1>9. ASSUME NEW c \in Change, BeginChange(c) PROVE read' \in [Request -> Read]
  <2>1. PICK i \in Issuer, body \in Body \cup {None} :
          read' = [read EXCEPT ![c] = [NoRead EXCEPT !.issuer = i, !.body = body,
                                                     !.issuerLock = LockOf(c, i, "issuer")]]
    BY <1>9 DEF BeginChange
  <2>2. LockOf(c, i, "issuer") \in Lock /\ body \in IssuerRecord \cup {None}
    BY LockOfKey, ConstantsAssumption DEF Key, Request
  <2>3. [NoRead EXCEPT !.issuer = i, !.body = body, !.issuerLock = LockOf(c, i, "issuer")] \in Read
    BY <1>2, <2>2 DEF Read
  <2> QED BY <1>4, <2>1, <2>3 DEF Request
<1>10. ASSUME NEW r \in Request, DropIssuer(r) \/ CancelWaiting(r) \/ (r \in Exchange /\ IssueToken(r))
       PROVE  read' \in [Request -> Read]
  <2>1. read' = [read EXCEPT ![r] = NoRead] \/ read' = [read EXCEPT ![r] = read[r]]
    BY <1>10 DEF DropIssuer, CancelWaiting, IssueToken
  <2> QED BY <1>1, <1>2, <1>4, <2>1
<1>11. CASE Restart
  BY <1>2, <1>11 DEF Restart
<1>12. ASSUME NEW e \in Exchange, VerifyWorkload(e) \/ ExchangeStep(e) PROVE read' \in [Request -> Read]
  BY <1>3, <1>5, <1>6, <1>7, <1>8, <1>10, <1>12 DEF ExchangeStep, AcquireRule, WriteUser, DropRule, Request
<1>13. ASSUME NEW c \in Change, CreateIssuer(c) \/ BeginChange(c) \/ ChangeStep(c)
       PROVE  read' \in [Request -> Read]
  BY <1>3, <1>9, <1>10, <1>13
  DEF ChangeStep, CreateIssuer, AcquireForChange, UpdateIssuer, Sync, DeleteIssuer, Request
<1>14. CASE UNCHANGED vars
  BY <1>3, <1>14 DEF vars
<1> QED BY <1>3, <1>10, <1>11, <1>12, <1>13, <1>14 DEF Next, CancelHolding, SyncAllWorkloadUsers

\* Locks, queues and where requests are.
ProcessTypes ==
  /\ starting \subseteq Issuer /\ restarts \in 0..MaxRestarts
  /\ locks \in [Key -> Lock \cup {None}]
  /\ holders \in [Lock -> SUBSET Request]
  /\ queue \in [Lock -> Seq(Request)]
  /\ pc \in [Request -> PC]

LEMMA ProcessNext ==
  ASSUME LockInv, [Next]_vars
  PROVE  ProcessTypes'
<1>1. ProcessTypes /\ Types
  BY DEF LockInv, Types, TypeOK, ProcessTypes
<1>2. ASSUME NEW r \in Request, NEW label \in PC, Goto(r, label) PROVE pc' \in [Request -> PC]
  BY <1>1, <1>2 DEF Goto, ProcessTypes
<1>3. CASE UNCHANGED <<process, lockVars>> /\ pc' \in [Request -> PC]
  BY <1>1, <1>3 DEF ProcessTypes, process, lockVars
<1>4. ASSUME NEW r \in Request, NEW k \in Key, NEW l \in Lock,
             locks' = [locks EXCEPT ![k] = l], queue' = [queue EXCEPT ![l] = Append(@, r)],
             UNCHANGED <<process, holders>>, pc' \in [Request -> PC]
      PROVE  ProcessTypes'
  <2>1. queue[l] \in Seq(Request)
    BY <1>1 DEF ProcessTypes
  <2>2. Append(queue[l], r) \in Seq(Request)
    BY <2>1
  <2> QED BY <1>1, <1>4, <2>2 DEF ProcessTypes, process
<1>5. ASSUME NEW e \in Exchange, HoldIssuer(e) PROVE ProcessTypes'
  <2>1. e \in Request /\ read[e].issuer \in Key
    BY <1>5, Known DEF Request, HoldIssuer, Over
  <2>2. read[e].issuer \in Issuer
    BY <1>5, <2>1, Known DEF HoldIssuer, Stages, Over
  <2>3. LockOf(e, read[e].issuer, "issuer") \in Lock
    BY <2>1, <2>2, LockOfKey
  <2>4. pc' \in [Request -> PC]
    BY <1>2, <1>5, <2>1 DEF HoldIssuer, PC
  <2> QED BY <1>4, <1>5, <2>1, <2>3, <2>4 DEF HoldIssuer
<1>6. ASSUME NEW c \in Change, BeginChange(c) PROVE ProcessTypes'
  <2>1. PICK i \in Issuer :
          /\ locks' = [locks EXCEPT ![i] = LockOf(c, i, "issuer")]
          /\ queue' = [queue EXCEPT ![LockOf(c, i, "issuer")] = Append(@, c)]
    BY <1>6 DEF BeginChange
  <2>2. c \in Request /\ i \in Key
    BY DEF Request, Key
  <2>3. LockOf(c, i, "issuer") \in Lock
    BY <2>2, LockOfKey
  <2>4. pc' \in [Request -> PC]
    BY <1>2, <1>6, <2>2 DEF BeginChange, PC
  <2> QED BY <1>4, <1>6, <2>1, <2>2, <2>3, <2>4 DEF BeginChange
<1>7. ASSUME NEW e \in Exchange, AcquireIssuer(e) PROVE ProcessTypes'
  <2> DEFINE l == read[e].issuerLock
             k == LockOf(e, RuleKey(e), "rule")
  <2>1. e \in Request /\ RuleKey(e) \in Issuer \X Id /\ l \in Lock
    BY <1>7, Known DEF Request, AcquireIssuer, Stages, Over, RuleKey
  <2>2. k \in Lock /\ RuleKey(e) \in Key
    BY <2>1, LockOfKey, ConstantsAssumption DEF Key
  <2>3. pc' \in [Request -> PC]
    BY <1>2, <1>7, <2>1 DEF AcquireIssuer, PC
  <2>4. /\ Granted(e, l) /\ UNCHANGED process
        /\ locks' = [locks EXCEPT ![RuleKey(e)] = k]
        /\ queue' = [queue EXCEPT ![l] = Tail(@), ![k] = Append(@, e)]
        /\ holders' = [holders EXCEPT ![l] = @ \cup {e}]
    BY <1>7 DEF AcquireIssuer
  <2>5. Tail(queue[l]) \in Seq(Request)
    BY <2>1, <2>4, Grant
  <2>6. l # k
    <3>1. l[2] = "issuer"
      BY <1>7, <2>1, Known DEF Request, AcquireIssuer, IssuerLocked, LockInv, Locking, Kinds, Key, Stages, Over
    <3>2. k[2] = "rule"
      BY <2>1, <2>2, LockOfKey, ConstantsAssumption
    <3> QED BY <3>1, <3>2
  <2> HIDE DEF l, k
  <2>7. Append(queue[k], e) \in Seq(Request)
    BY <1>1, <2>1, <2>2 DEF ProcessTypes
  <2>8. queue' \in [Lock -> Seq(Request)]
    BY <1>1, <2>1, <2>2, <2>4, <2>5, <2>6, <2>7 DEF ProcessTypes
  <2> QED BY <1>1, <2>1, <2>2, <2>3, <2>4, <2>8 DEF ProcessTypes, process
<1>8. ASSUME NEW r \in Request, NEW l \in Lock, Granted(r, l), queue' = [queue EXCEPT ![l] = Tail(@)],
             holders' \in {[holders EXCEPT ![l] = @ \cup {r}], [holders EXCEPT ![l] = {r}]},
             UNCHANGED <<process, locks>>, pc' \in [Request -> PC]
      PROVE  ProcessTypes'
  <2>1. queue[l] \in Seq(Request) /\ queue[l] # <<>>
    BY <1>1, <1>8 DEF ProcessTypes, Granted
  <2>2. Tail(queue[l]) \in Seq(Request)
    BY <2>1, Leaving
  <2> QED BY <1>1, <1>8, <2>2 DEF ProcessTypes, process
<1>9. ASSUME NEW e \in Exchange, AcquireRule(e) PROVE ProcessTypes'
  <2>1. e \in Request /\ read[e].ruleLock \in Lock
    BY <1>9, Known DEF Request, AcquireRule
  <2>2. pc' \in [Request -> PC]
    BY <1>2, <1>9, <2>1 DEF AcquireRule, PC
  <2> QED BY <1>8, <1>9, <2>1, <2>2 DEF AcquireRule
<1>10. ASSUME NEW c \in Change, AcquireForChange(c) PROVE ProcessTypes'
  <2>1. c \in Request /\ read[c].issuerLock \in Lock
    BY <1>10, Known DEF Request, AcquireForChange
  <2>2. pc' \in [Request -> PC]
    BY <1>2, <1>10, <2>1 DEF AcquireForChange, PC
  <2> QED BY <1>8, <1>10, <2>1, <2>2 DEF AcquireForChange
<1>11. ASSUME NEW r \in Request, (r \in Exchange /\ DropRule(r)) \/ DropIssuer(r) PROVE ProcessTypes'
  <2>1. pc' \in [Request -> PC]
    BY <1>2, <1>11 DEF DropRule, DropIssuer, PC
  <2>2. PICK key, l : DropHeld(r, key, l)
    BY <1>11 DEF DropRule, DropIssuer
  <2>3. UNCHANGED process
    BY <1>11 DEF DropRule, DropIssuer
  <2>4. /\ holders' = [holders EXCEPT ![l] = @ \ {r}] /\ queue' = queue
        /\ locks' = locks \/ locks' = [locks EXCEPT ![key] = None]
    BY <2>2 DEF DropHeld
  <2> QED BY <1>1, <2>1, <2>3, <2>4 DEF ProcessTypes, process
<1>12. ASSUME NEW r \in Request, CancelWaiting(r) PROVE ProcessTypes'
  <2> DEFINE l == IF pc[r] = "waitIssuer" THEN read[r].issuerLock ELSE read[r].ruleLock
  <2>1. pc' \in [Request -> PC] /\ UNCHANGED <<process, locks, holders>>
    BY <1>2, <1>12 DEF CancelWaiting, PC
  <2>2. l \in Lock
    BY <1>12, Known DEF CancelWaiting
  <2>3. PICK k \in DOMAIN queue[l] : queue' = [queue EXCEPT ![l] = RemoveAt(@, k)]
    BY <1>12 DEF CancelWaiting
  <2> HIDE DEF l
  <2>4. RemoveAt(queue[l], k) \in Seq(Request)
    BY <1>1, <2>2, GivingUp DEF ProcessTypes
  <2> QED BY <1>1, <2>1, <2>2, <2>3, <2>4 DEF ProcessTypes, process
<1>13. CASE Restart
  <2>1. pc' \in [Request -> PC]
    BY <1>13 DEF Restart, PC
  <2>2. restarts' \in 0..MaxRestarts
    BY <1>1, <1>13, ConstantsAssumption DEF Restart, ProcessTypes
  <2> QED BY <1>13, <2>1, <2>2 DEF Restart, ProcessTypes
<1>14. ASSUME NEW i \in Issuer, SyncAllWorkloadUsers(i) PROVE ProcessTypes'
  BY <1>1, <1>14 DEF SyncAllWorkloadUsers, ProcessTypes, lockVars
<1>15. ASSUME NEW e \in Exchange,
              VerifyWorkload(e) \/ ReadAgain(e) \/ FindUser(e) \/ WriteUser(e) \/ IssueToken(e)
       PROVE  ProcessTypes'
  <2>1. pc' \in [Request -> PC]
    BY <1>2, <1>15 DEF VerifyWorkload, ReadAgain, FindUser, WriteUser, IssueToken, PC, Request
  <2> QED BY <1>3, <1>15, <2>1 DEF VerifyWorkload, ReadAgain, FindUser, WriteUser, IssueToken
<1>16. ASSUME NEW c \in Change, CreateIssuer(c) \/ UpdateIssuer(c) \/ Sync(c) \/ DeleteIssuer(c)
       PROVE  ProcessTypes'
  <2>1. pc' \in [Request -> PC]
    BY <1>2, <1>16 DEF CreateIssuer, UpdateIssuer, Sync, DeleteIssuer, PC, Request
  <2> QED BY <1>3, <1>16, <2>1 DEF CreateIssuer, UpdateIssuer, Sync, DeleteIssuer
<1>17. ASSUME NEW r \in Request, CancelHolding(r) PROVE ProcessTypes'
  <2>1. pc' \in [Request -> PC]
    BY <1>2, <1>17 DEF CancelHolding, PC
  <2> QED BY <1>3, <1>17, <2>1 DEF CancelHolding
<1>18. CASE UNCHANGED vars
  BY <1>1, <1>18 DEF vars, ProcessTypes, process, lockVars
<1>19. ASSUME NEW e \in Exchange, VerifyWorkload(e) \/ ExchangeStep(e) PROVE ProcessTypes'
  BY <1>5, <1>7, <1>9, <1>11, <1>15, <1>19 DEF ExchangeStep, Request
<1>20. ASSUME NEW c \in Change, CreateIssuer(c) \/ BeginChange(c) \/ ChangeStep(c) PROVE ProcessTypes'
  BY <1>6, <1>10, <1>11, <1>16, <1>20 DEF ChangeStep, Request
<1> QED BY <1>12, <1>13, <1>14, <1>17, <1>18, <1>19, <1>20 DEF Next

LEMMA TypesNext ==
  ASSUME LockInv, SyncPending, [Next]_vars
  PROVE  Types'
<1>1. StorageTypes' /\ ProcessTypes' /\ read' \in [Request -> Read]
  BY StorageNext, ProcessNext, ReadNext
<1>2. \A r \in Request :
       /\ read'[r].issuer \in Issuer \cup {None}
       /\ read'[r].body \in IssuerRecord \cup {None}
       /\ read'[r].rule \in RuleRecord \cup {None}
       /\ read'[r].found \in UserRecord \cup {None}
       /\ {read'[r].issuerLock, read'[r].ruleLock} \subseteq Lock \cup {None}
  BY <1>1 DEF Read
<1> QED BY <1>1, <1>2 DEF Types, TypeOK, StorageTypes, ProcessTypes

----------------------------------------------------------------------------
(* What the steps of requests leave alone *)

Step(r) ==
  \/ r \in Exchange /\ (VerifyWorkload(r) \/ ExchangeStep(r))
  \/ r \in Change /\ (CreateIssuer(r) \/ BeginChange(r) \/ ChangeStep(r))
  \/ CancelWaiting(r) \/ CancelHolding(r)

LEMMA Cases == Next <=> \/ \E r \in Request : Step(r)
                        \/ \E i \in Issuer : SyncAllWorkloadUsers(i)
                        \/ Restart
BY DEF Next, Step, Request

LEMMA StepFrame ==
  ASSUME LockInv, NEW r \in Request, Step(r)
  PROVE  /\ starting = {} /\ UNCHANGED process
         /\ \A q \in Request : q # r => pc'[q] = pc[q] /\ read'[q] = read[q]
<1>1. pc \in [Request -> PC] /\ read \in [Request -> Read]
  BY DEF LockInv, Types, TypeOK
<1>2. pc[r] \notin Over => starting = {}
  BY Known
<1>3. ASSUME NEW label, Goto(r, label) PROVE \A q \in Request : q # r => pc'[q] = pc[q]
  BY <1>1, <1>3 DEF Goto
<1>4. CASE r \in Exchange /\ (VerifyWorkload(r) \/ HoldIssuer(r) \/ AcquireIssuer(r) \/ AcquireRule(r))
  BY <1>1, <1>2, <1>3, <1>4 DEF VerifyWorkload, HoldIssuer, AcquireIssuer, AcquireRule, Over, Serving
<1>5. CASE r \in Exchange /\ (ReadAgain(r) \/ FindUser(r) \/ WriteUser(r) \/ DropRule(r) \/ IssueToken(r))
  BY <1>1, <1>2, <1>3, <1>5 DEF ReadAgain, FindUser, WriteUser, DropRule, IssueToken, Over
<1>6. CASE DropIssuer(r)
  BY <1>1, <1>2, <1>3, <1>6 DEF DropIssuer, Over
<1>7. CASE r \in Change /\ (CreateIssuer(r) \/ BeginChange(r) \/ AcquireForChange(r))
  BY <1>1, <1>2, <1>3, <1>7 DEF CreateIssuer, BeginChange, AcquireForChange, Over, Serving
<1>8. CASE r \in Change /\ (UpdateIssuer(r) \/ Sync(r) \/ DeleteIssuer(r))
  BY <1>1, <1>2, <1>3, <1>8 DEF UpdateIssuer, Sync, DeleteIssuer, Over
<1>9. CASE CancelWaiting(r) \/ CancelHolding(r)
  BY <1>1, <1>2, <1>3, <1>9 DEF CancelWaiting, CancelHolding, Over
<1> QED BY <1>4, <1>5, <1>6, <1>7, <1>8, <1>9 DEF Step, ExchangeStep, ChangeStep

LEMMA LockingNext ==
  ASSUME LockInv, [Next]_vars
  PROVE  Locking'
<1>1. ASSUME NEW r \in Request, Step(r) PROVE Locking'
  <2>1. CASE r \in Exchange /\ (VerifyWorkload(r) \/ ExchangeStep(r))
    BY <2>1, LockStepRead, LockStepHold, LockStepAcquireIssuer, LockStepAcquire, LockStepDropRule,
       LockStepDropIssuer DEF ExchangeStep
  <2>2. CASE r \in Change /\ (CreateIssuer(r) \/ BeginChange(r) \/ ChangeStep(r))
    BY <2>2, LockStepChange, LockStepHold, LockStepAcquire, LockStepDropIssuer DEF ChangeStep
  <2>3. CASE CancelWaiting(r) \/ CancelHolding(r)
    BY <2>3, LockStepGiveUp, LockStepCancel
  <2> QED BY <1>1, <2>1, <2>2, <2>3 DEF Step
<1>2. CASE UNCHANGED vars
  BY <1>2 DEF LockInv, Locking, Kinds, Exclusion, Exclusive, Startup, RequestOK, Stages, IssuerLocked,
              RuleLocked, RuleKey, vars, storage, process, lockVars
<1> QED BY <1>1, <1>2, Cases, LockStepSyncAll, LockStepRestart

----------------------------------------------------------------------------
(* What was read under the locks *)

LEMMA DataFrame ==
  ASSUME IInv, NEW r \in Request,
         \A q \in Request : q # r => pc'[q] = pc[q] /\ read'[q] = read[q],
         \A e \in Exchange : e # r /\ pc[e] \in {"find", "write"} =>
           issuers'[read[e].issuer] = issuers[read[e].issuer],
         \A e \in Exchange : e # r /\ pc[e] = "write" => users'[RuleKey(e)] = users[RuleKey(e)],
         \A c \in Change : c # r /\ pc[c] = "sync" =>
           read[c].issuer \in unsynced' /\ issuers'[read[c].issuer] # None,
         r \in Exchange /\ pc'[r] \in {"find", "write"} => RuleIsCurrent(r)',
         r \in Exchange /\ pc'[r] = "write" => read'[r].found = users'[RuleKey(r)'],
         r \in Change /\ pc'[r] = "sync" =>
           read'[r].issuer \in unsynced' /\ issuers'[read'[r].issuer] # None,
         \A i \in Issuer, id \in Id : Follows(i, id)'
  PROVE  DataInv'
<1>1. \A e \in Exchange : pc[e] \in {"find", "write"} => RuleIsCurrent(e)
  BY DEF IInv, DataInv
<1>2. \A e \in Exchange : pc[e] = "write" => read[e].found = users[RuleKey(e)]
  BY DEF IInv, DataInv, FoundIsCurrent
<1>3. ASSUME NEW e \in Exchange, pc'[e] \in {"find", "write"} PROVE RuleIsCurrent(e)'
  BY <1>1, <1>3 DEF RuleIsCurrent, Request
<1>4. FoundIsCurrent'
  <2> SUFFICES ASSUME NEW e \in Exchange, pc'[e] = "write"
               PROVE  read'[e].found = users'[RuleKey(e)']
    BY DEF FoundIsCurrent
  <2> QED BY <1>2 DEF RuleKey, Request
<1>5. SyncPending'
  BY DEF SyncPending, Request
<1> QED BY <1>3, <1>4, <1>5 DEF DataInv

\* Steps that store nothing.
LEMMA QuietData ==
  ASSUME IInv, NEW r \in Request, Step(r), UNCHANGED storage,
         r \in Exchange /\ pc'[r] \in {"find", "write"} => RuleIsCurrent(r)',
         r \in Exchange /\ pc'[r] = "write" => read'[r].found = users'[RuleKey(r)'],
         r \in Change => pc'[r] # "sync"
  PROVE  DataInv'
<1>1. /\ starting' = starting /\ \A q \in Request : q # r => pc'[q] = pc[q] /\ read'[q] = read[q]
  BY StepFrame DEF IInv, process
<1>2. \A i \in Issuer, id \in Id : Follows(i, id)'
  BY <1>1 DEF IInv, DataInv, Follows, storage
<1>3. \A c \in Change : pc[c] = "sync" => read[c].issuer \in unsynced /\ issuers[read[c].issuer] # None
  BY DEF IInv, DataInv, SyncPending
<1> QED BY <1>1, <1>2, <1>3, DataFrame DEF storage

LEMMA DataStepQuiet ==
  ASSUME IInv, NEW r \in Request, Step(r),
         \/ r \in Exchange /\ (\/ VerifyWorkload(r) \/ HoldIssuer(r) \/ AcquireIssuer(r) \/ AcquireRule(r)
                               \/ DropRule(r) \/ IssueToken(r))
         \/ r \in Change /\ (BeginChange(r) \/ AcquireForChange(r))
         \/ DropIssuer(r) \/ CancelWaiting(r) \/ CancelHolding(r)
  PROVE  DataInv'
<1>1. pc \in [Request -> PC]
  BY DEF IInv, LockInv, Types, TypeOK
<1>2. UNCHANGED storage
  BY DEF VerifyWorkload, HoldIssuer, AcquireIssuer, AcquireRule, DropRule, IssueToken, BeginChange,
         AcquireForChange, DropIssuer, CancelWaiting, CancelHolding
<1>3. \E label \in PC \ {"find", "write", "sync"} : Goto(r, label)
  BY DEF VerifyWorkload, HoldIssuer, AcquireIssuer, AcquireRule, DropRule, IssueToken, BeginChange,
         AcquireForChange, DropIssuer, CancelWaiting, CancelHolding, PC
<1>4. pc'[r] \notin {"find", "write", "sync"}
  BY <1>1, <1>3 DEF Goto
<1> QED BY <1>2, <1>4, QuietData

LEMMA DataStepRead ==
  ASSUME IInv, NEW e \in Exchange, e \in Request, Step(e), ReadAgain(e) \/ FindUser(e)
  PROVE  DataInv'
<1>1. Types /\ LockInv /\ read[e] \in Read /\ UNCHANGED storage
  BY Known DEF IInv, LockInv, ReadAgain, FindUser
<1>2. CASE ReadAgain(e)
  <2>1. read[e].issuer \in Issuer
    BY <1>1, <1>2, Known DEF ReadAgain, Stages, Over
  <2>2. CASE CurrentRule(e) = None
    <3>1. pc'[e] = "dropRule"
      BY <1>1, <1>2, <2>2 DEF ReadAgain, Goto, Types, TypeOK
    <3> QED BY <1>1, <3>1, QuietData, ConstantsAssumption
  <2>3. CASE CurrentRule(e) # None
    <3>1. pc'[e] = "find" /\ read'[e].issuer = read[e].issuer /\ read'[e].rule = CurrentRule(e)
      BY <1>1, <1>2, <2>3 DEF ReadAgain, Goto, Types, TypeOK, Read
    <3>2. RuleIsCurrent(e)'
      BY <1>1, <2>1, <2>3, <3>1, CurrentMeans DEF RuleIsCurrent, storage
    <3> QED BY <1>1, <3>1, <3>2, QuietData, ConstantsAssumption
  <2> QED BY <2>2, <2>3
<1>3. CASE FindUser(e)
  <2>1. /\ pc[e] = "find" /\ pc'[e] = "write" /\ read'[e].issuer = read[e].issuer
        /\ read'[e].rule = read[e].rule /\ read'[e].found = users[RuleKey(e)]
    BY <1>1, <1>3 DEF FindUser, Goto, Types, TypeOK, Read
  <2>2. RuleIsCurrent(e)'
    BY <1>1, <2>1 DEF IInv, DataInv, RuleIsCurrent, storage
  <2>3. read'[e].found = users'[RuleKey(e)']
    BY <1>1, <2>1 DEF RuleKey, storage
  <2> QED BY <1>1, <2>1, <2>2, <2>3, QuietData, ConstantsAssumption
<1> QED BY <1>2, <1>3

\* The user an exchange writes follows the rule, whose user nobody else
\* writes meanwhile.
LEMMA DataStepWrite ==
  ASSUME IInv, NEW e \in Exchange, e \in Request, Step(e), WriteUser(e)
  PROVE  DataInv'
<1> DEFINE key == RuleKey(e)
<1>1. Types /\ LockInv /\ read[e] \in Read /\ pc[e] = "write" /\ RuleIsCurrent(e)
  BY Known DEF IInv, LockInv, WriteUser, DataInv
<1>2. /\ starting' = starting /\ UNCHANGED <<issuers, usedIds, unsynced>> /\ pc'[e] \notin {"find", "write"}
      /\ \A q \in Request : q # e => pc'[q] = pc[q] /\ read'[q] = read[q]
  BY <1>1, StepFrame DEF WriteUser, Goto, Types, TypeOK, process
<1>3. key \in Issuer \X Id /\ read[e].rule \in RuleRecord /\ read[e].issuer \in Issuer
  BY <1>1, Known DEF Stages, Over, RuleKey, Read
<1>4. PICK b \in BOOLEAN : b = (read[e].found = None \/ read[e].found.enabled)
  BY Zenon
<1>5. \/ users' = [users EXCEPT ![key] = [admin |-> read[e].rule.admin, enabled |-> b]]
      \/ users' = users
  BY <1>4 DEF WriteUser
<1>6. \A u \in Issuer \X Id : u # key => users'[u] = users[u]
  BY <1>1, <1>5 DEF Types, TypeOK
<1>7. ASSUME NEW d \in Exchange, d # e, pc[d] = "write" PROVE users'[RuleKey(d)] = users[RuleKey(d)]
  <2>1. RuleKey(d) \in Issuer \X Id
    BY <1>1, <1>7, Known DEF Stages, Over, RuleKey, Request
  <2>2. RuleKey(d) # key
    BY <1>1, <1>7, Alone DEF HoldsRule, Request
  <2> QED BY <1>6, <2>1, <2>2
<1>8. ASSUME NEW i \in Issuer, NEW id \in Id PROVE Follows(i, id)'
  <2>1. Follows(i, id)
    BY DEF IInv, DataInv
  <2>2. CASE users'[<<i, id>>] = users[<<i, id>>]
    BY <1>2, <2>1, <2>2 DEF Follows
  <2>3. CASE users'[<<i, id>>] # users[<<i, id>>]
    <3>1. /\ <<i, id>> = key /\ i = read[e].issuer /\ id = read[e].rule.id
      BY <1>6, <2>3 DEF RuleKey
    <3>2. users'[<<i, id>>].admin = read[e].rule.admin
      BY <1>1, <1>3, <1>5, <2>3, <3>1 DEF Types, TypeOK
    <3>3. /\ issuers[i] \in IssuerRecord /\ issuers[i] # None /\ issuers[i].enabled /\ read[e].rule.enabled
          /\ read[e].rule \in RulesWith(issuers[i], id) /\ ~Shared(issuers[i], id)
      BY <1>1, <3>1 DEF RuleIsCurrent, Types, TypeOK
    <3>4. \A rule \in RulesWith(issuers[i], id) : rule = read[e].rule
      BY <3>3, OnlyRule
    <3>5. id \in IdsOf(issuers[i])
      BY <3>3 DEF RulesWith, IdsOf
    <3> QED BY <1>2, <3>2, <3>3, <3>4, <3>5 DEF Follows
  <2> QED BY <2>2, <2>3
<1>9. \A c \in Change : pc[c] = "sync" => read[c].issuer \in unsynced /\ issuers[read[c].issuer] # None
  BY DEF IInv, DataInv, SyncPending
<1> QED BY <1>2, <1>7, <1>8, <1>9, DataFrame, ConstantsAssumption

\* Syncing brings the users of the issuer in line and touches no other.
LEMMA SyncMeans ==
  ASSUME Types, NEW i \in Issuer, issuers[i] # None, SyncWorkloadUsers(i, OfIssuer(issuers[i])),
         NEW j \in Issuer, NEW id \in Id
  PROVE  /\ j # i => users'[<<j, id>>] = users[<<j, id>>]
         /\ j = i => LET user == users'[<<i, id>>]
                     IN  user # None =>
                           /\ id \in IdsOf(issuers[i])
                           /\ user.admin => \A rule \in RulesWith(issuers[i], id) : rule.admin
                           /\ user.enabled => /\ issuers[i].enabled /\ ~Shared(issuers[i], id)
                                              /\ \A rule \in RulesWith(issuers[i], id) : rule.enabled
<1> DEFINE access == OfIssuer(issuers[i])
<1>1. users \in [Issuer \X Id -> UserRecord \cup {None}] /\ issuers[i] \in IssuerRecord
  BY DEF Types, TypeOK
<1>2. /\ DOMAIN access = IdsOf(issuers[i]) \ {BadId}
      /\ \A u \in IdsOf(issuers[i]) \ {BadId} :
           /\ access[u].admin => \A rule \in RulesWith(issuers[i], u) : rule.admin
           /\ access[u].enabled => /\ issuers[i].enabled /\ ~Shared(issuers[i], u)
                                   /\ \A rule \in RulesWith(issuers[i], u) : rule.enabled
  BY <1>1, AccessMeans
<1> HIDE DEF access
<1>3. users'[<<j, id>>] = IF j # i \/ users[<<j, id>>] = None THEN users[<<j, id>>]
                          ELSE IF id \in DOMAIN access THEN access[id] ELSE None
  BY <1>1 DEF SyncWorkloadUsers, access
<1> QED BY <1>2, <1>3

\* An issuer that is created has no users, one that is updated is unsynced,
\* and nobody who needs the issuer as it was is left.
LEMMA DataStepStore ==
  ASSUME IInv, NEW c \in Change, c \in Request, Step(c), CreateIssuer(c) \/ UpdateIssuer(c)
  PROVE  DataInv'
<1>1. Types /\ LockInv /\ read[c] \in Read /\ c \notin Exchange
  BY Known, ConstantsAssumption DEF IInv, LockInv
<1>2. /\ starting' = starting /\ users' = users
      /\ \A q \in Request : q # c => pc'[q] = pc[q] /\ read'[q] = read[q]
  BY <1>1, StepFrame DEF CreateIssuer, UpdateIssuer, process
<1>3. /\ \A e \in Exchange : pc[e] \in {"find", "write"} => RuleIsCurrent(e)
      /\ \A d \in Change : pc[d] = "sync" => read[d].issuer \in unsynced /\ issuers[read[d].issuer] # None
      /\ \A i \in Issuer, id \in Id : Follows(i, id)
  BY DEF IInv, DataInv, SyncPending
<1>4. CASE CreateIssuer(c)
  <2>1. PICK i \in Stored, body \in Body :
          /\ issuers[i] = None /\ \A u \in Id : users[<<i, u>>] = None
          /\ \E issuer \in ValidateIssuer(body, None) : issuers' = [issuers EXCEPT ![i] = issuer]
    BY <1>4 DEF CreateIssuer
  <2>2. PICK issuer \in ValidateIssuer(body, None) : issuers' = [issuers EXCEPT ![i] = issuer]
    BY <2>1
  <2>3. issuer \in IssuerRecord
    BY ValidMeans, ConstantsAssumption
  <2>4. \A j \in Issuer : issuers'[j] = IF j = i THEN issuer ELSE issuers[j]
    BY <1>1, <2>2 DEF Types, TypeOK
  <2>5. \A j \in Issuer : issuers[j] # None => issuers'[j] = issuers[j]
    BY <2>1, <2>4
  <2>6. ASSUME NEW e \in Exchange, pc[e] \in {"find", "write"}
        PROVE  issuers'[read[e].issuer] = issuers[read[e].issuer]
    <3>1. read[e].issuer \in Issuer
      BY <1>1, <2>6, Known DEF Stages, Over, Request
    <3> QED BY <1>3, <2>5, <2>6, <3>1 DEF RuleIsCurrent
  <2>7. unsynced' = unsynced /\ pc'[c] = "done"
    BY <1>1, <1>4 DEF CreateIssuer, Goto, Types, TypeOK
  <2>8. ASSUME NEW d \in Change, pc[d] = "sync"
        PROVE  read[d].issuer \in unsynced' /\ issuers'[read[d].issuer] # None
    <3>1. read[d].issuer \in Issuer
      BY <1>1, <2>8, Known DEF Stages, Over, Request
    <3> QED BY <1>3, <2>5, <2>7, <2>8, <3>1
  <2>9. ASSUME NEW j \in Issuer, NEW id \in Id PROVE Follows(j, id)'
    <3>1. CASE j = i
      BY <1>2, <2>1, <3>1 DEF Follows
    <3>2. CASE j # i
      BY <1>2, <1>3, <2>4, <2>7, <3>2 DEF Follows
    <3> QED BY <3>1, <3>2
  <2> QED BY <1>1, <1>2, <2>6, <2>7, <2>8, <2>9, DataFrame
<1>5. CASE UpdateIssuer(c)
  <2> DEFINE i == read[c].issuer
  <2>1. pc[c] = "update" /\ i \in Issuer
    BY <1>1, <1>5, Known DEF UpdateIssuer, Stages, Over
  <2>2. CASE UNCHANGED storage
    <3>1. pc'[c] = "dropIssuer" \/ (pc'[c] = "sync" /\ i \in unsynced /\ issuers[i] # None /\ read' = read)
      BY <1>1, <1>5, <2>2 DEF UpdateIssuer, Goto, Types, TypeOK, storage, Managed
    <3>2. \A j \in Issuer, id \in Id : Follows(j, id)'
      BY <1>2, <1>3, <2>2 DEF Follows, storage
    <3> QED BY <1>1, <1>2, <1>3, <2>2, <3>1, <3>2, DataFrame DEF storage
  <2>3. CASE ~UNCHANGED storage
    <3>1. /\ \E issuer \in ValidateIssuer(read[c].body, issuers[i]) :
                issuers' = [issuers EXCEPT ![i] = issuer]
          /\ unsynced' = unsynced \cup {i} /\ read' = read /\ read[c].body # None
      BY <1>5, <2>3 DEF UpdateIssuer, storage
    <3>2. PICK issuer \in ValidateIssuer(read[c].body, issuers[i]) :
            issuers' = [issuers EXCEPT ![i] = issuer]
      BY <3>1
    <3>3. read[c].body \in IssuerRecord /\ issuers[i] \in IssuerRecord \cup {None}
      BY <1>1, <2>1, <3>1 DEF Types, TypeOK, Read
    <3>4. issuer \in IssuerRecord /\ issuer # None
      BY <3>3, ValidMeans, ConstantsAssumption
    <3> HIDE DEF i
    <3>5. \A j \in Issuer : issuers'[j] = IF j = i THEN issuer ELSE issuers[j]
      BY <1>1, <3>2 DEF Types, TypeOK
    <3>6. ASSUME NEW e \in Exchange, pc[e] \in {"find", "write"}
          PROVE  issuers'[read[e].issuer] = issuers[read[e].issuer]
      <4>1. read[e].issuer \in Issuer
        BY <1>1, <3>6, Known DEF Stages, Over, Request
      <4>2. read[e].issuer # i
        BY <1>1, <2>1, <3>6, Alone DEF HoldsIssuer, HoldsRule, Request, i
      <4> QED BY <3>5, <4>1, <4>2
    <3>7. ASSUME NEW d \in Change, pc[d] = "sync"
          PROVE  read[d].issuer \in unsynced' /\ issuers'[read[d].issuer] # None
      <4>1. read[d].issuer \in Issuer
        BY <1>1, <3>7, Known DEF Stages, Over, Request
      <4> QED BY <1>3, <3>1, <3>4, <3>5, <3>7, <4>1
    <3>8. read'[c].issuer \in unsynced' /\ issuers'[read'[c].issuer] # None
      BY <2>1, <3>1, <3>4, <3>5 DEF i
    <3>9. ASSUME NEW j \in Issuer, NEW id \in Id PROVE Follows(j, id)'
      BY <1>2, <1>3, <3>1, <3>5 DEF Follows
    <3> QED BY <1>1, <1>2, <3>6, <3>7, <3>8, <3>9, DataFrame
  <2> QED BY <2>2, <2>3
<1> QED BY <1>4, <1>5

\* Users are synced or removed while nobody else works with the issuer.
LEMMA DataStepUsers ==
  ASSUME IInv, NEW c \in Change, c \in Request, Step(c), Sync(c) \/ DeleteIssuer(c)
  PROVE  DataInv'
<1> DEFINE i == read[c].issuer
<1>1. Types /\ LockInv /\ read[c] \in Read /\ c \notin Exchange
  BY Known, ConstantsAssumption DEF IInv, LockInv
<1>2. /\ starting' = starting
      /\ \A q \in Request : q # c => pc'[q] = pc[q] /\ read'[q] = read[q]
  BY <1>1, StepFrame DEF process
<1>3. /\ \A e \in Exchange : pc[e] \in {"find", "write"} => RuleIsCurrent(e)
      /\ \A d \in Change : pc[d] = "sync" => read[d].issuer \in unsynced /\ issuers[read[d].issuer] # None
      /\ \A j \in Issuer, id \in Id : Follows(j, id)
  BY DEF IInv, DataInv, SyncPending
<1>4. pc[c] \in {"sync", "update"} /\ i \in Issuer /\ pc'[c] = "dropIssuer"
  BY <1>1, Known DEF Sync, DeleteIssuer, Stages, Over, Goto, Types, TypeOK
<1>5. ASSUME NEW q \in Request, q # c, pc[q] \in {"find", "write", "sync"}
      PROVE  read[q].issuer \in Issuer /\ read[q].issuer # i
  <2>1. read[q].issuer # i
    BY <1>1, <1>4, <1>5, Alone DEF HoldsIssuer, HoldsRule
  <2> QED BY <1>1, <1>5, <2>1, Known DEF Stages, Over
<1>6. ASSUME NEW e \in Exchange, pc[e] = "write" PROVE \E id \in Id : RuleKey(e) = <<read[e].issuer, id>>
  BY <1>1, <1>6, Known DEF Stages, Over, RuleKey, Request
<1>7. CASE Sync(c)
  <2>1. issuers[i] # None /\ i \in unsynced
    BY <1>3, <1>7 DEF Sync
  <2>2. \/ /\ SyncWorkloadUsers(i, OfIssuer(issuers[i])) /\ unsynced' = unsynced \ {i}
        \/ UNCHANGED <<users, unsynced>>
    BY <1>7 DEF Sync
  <2>3. issuers' = issuers
    BY <1>7 DEF Sync
  <2> HIDE DEF i
  <2>4. ASSUME NEW j \in Issuer, NEW id \in Id PROVE j # i => users'[<<j, id>>] = users[<<j, id>>]
    BY <1>1, <1>4, <2>1, <2>2, SyncMeans
  <2>5. ASSUME NEW e \in Exchange, e # c, pc[e] = "write" PROVE users'[RuleKey(e)] = users[RuleKey(e)]
    BY <1>5, <1>6, <2>4, <2>5 DEF Request
  <2>6. ASSUME NEW d \in Change, d # c, pc[d] = "sync"
        PROVE  read[d].issuer \in unsynced' /\ issuers'[read[d].issuer] # None
    BY <1>3, <1>5, <2>2, <2>3, <2>6 DEF Request
  <2>7. ASSUME NEW j \in Issuer, NEW id \in Id PROVE Follows(j, id)'
    <3>1. CASE j # i
      BY <1>2, <1>3, <2>2, <2>3, <2>4, <3>1 DEF Follows
    <3>2. CASE j = i /\ unsynced' = unsynced
      BY <2>1, <3>2 DEF Follows
    <3>3. CASE j = i /\ unsynced' # unsynced
      <4>1. SyncWorkloadUsers(i, OfIssuer(issuers[i]))
        BY <2>2, <3>3
      <4> QED BY <1>1, <1>4, <2>1, <2>3, <3>3, <4>1, SyncMeans DEF Follows
    <3> QED BY <3>1, <3>2, <3>3
  <2> QED BY <1>1, <1>2, <1>4, <2>3, <2>5, <2>6, <2>7, DataFrame
<1>8. CASE DeleteIssuer(c)
  <2>1. \/ /\ issuers' = [issuers EXCEPT ![i] = None]
           /\ users' = [u \in DOMAIN users |-> IF u[1] = i THEN None ELSE users[u]]
        \/ UNCHANGED <<issuers, users>>
    BY <1>8 DEF DeleteIssuer
  <2>2. unsynced' = unsynced
    BY <1>8 DEF DeleteIssuer
  <2> HIDE DEF i
  <2>3. /\ \A j \in Issuer : j # i => issuers'[j] = issuers[j]
        /\ \A j \in Issuer, id \in Id : j # i => users'[<<j, id>>] = users[<<j, id>>]
        /\ \/ UNCHANGED <<issuers, users>>
           \/ \A id \in Id : users'[<<i, id>>] = None
    BY <1>1, <1>4, <2>1 DEF Types, TypeOK
  <2>4. ASSUME NEW e \in Exchange, e # c, pc[e] \in {"find", "write"}
        PROVE  issuers'[read[e].issuer] = issuers[read[e].issuer]
    BY <1>5, <2>3, <2>4 DEF Request
  <2>5. ASSUME NEW e \in Exchange, e # c, pc[e] = "write" PROVE users'[RuleKey(e)] = users[RuleKey(e)]
    BY <1>5, <1>6, <2>3, <2>5 DEF Request
  <2>6. ASSUME NEW d \in Change, d # c, pc[d] = "sync"
        PROVE  read[d].issuer \in unsynced' /\ issuers'[read[d].issuer] # None
    BY <1>3, <1>5, <2>2, <2>3, <2>6 DEF Request
  <2>7. ASSUME NEW j \in Issuer, NEW id \in Id PROVE Follows(j, id)'
    <3>1. CASE j # i \/ UNCHANGED <<issuers, users>>
      BY <1>2, <1>3, <2>2, <2>3, <3>1 DEF Follows
    <3>2. CASE j = i /\ ~UNCHANGED <<issuers, users>>
      BY <2>3, <3>2 DEF Follows
    <3> QED BY <3>1, <3>2
  <2> QED BY <1>1, <1>2, <1>4, <2>4, <2>5, <2>6, <2>7, DataFrame
<1> QED BY <1>7, <1>8

\* While the app starts nobody has read anything.
LEMMA DataStepStart ==
  ASSUME IInv, Restart \/ \E i \in Issuer : SyncAllWorkloadUsers(i)
  PROVE  DataInv'
<1>1. Types /\ Startup
  BY DEF IInv, LockInv, Locking
<1>2. \A r \in Request : pc'[r] \in Over
  BY <1>1 DEF Restart, SyncAllWorkloadUsers, Startup, Over
<1>3. /\ \A e \in Exchange : pc'[e] \notin {"find", "write"}
      /\ \A c \in Change : pc'[c] # "sync"
  BY <1>2 DEF Over, Request
<1>4. ASSUME NEW j \in Issuer, NEW id \in Id PROVE Follows(j, id)'
  <2>1. Follows(j, id)
    BY DEF IInv, DataInv
  <2>2. ASSUME NEW i \in Issuer, SyncAllWorkloadUsers(i) PROVE Follows(j, id)'
    <3>1. /\ issuers[i] # None /\ SyncWorkloadUsers(i, OfIssuer(issuers[i])) /\ issuers' = issuers
          /\ unsynced' = unsynced \ {i} /\ starting' = starting \ {i}
      BY <1>1, <2>2 DEF SyncAllWorkloadUsers, Startup
    <3>2. CASE j # i
      BY <1>1, <2>1, <3>1, <3>2, SyncMeans DEF Follows
    <3>3. CASE j = i
      BY <1>1, <3>1, <3>3, SyncMeans DEF Follows
    <3> QED BY <3>2, <3>3
  <2>3. CASE Restart
    <3>1. PICK conf \in [Static -> Configured] :
            issuers' = [i \in Issuer |-> IF i \in Static THEN conf[i] ELSE issuers[i]]
      BY <2>3 DEF Restart
    <3>2. /\ starting = {} /\ starting' = {i \in Issuer : issuers'[i] # None}
          /\ UNCHANGED <<users, unsynced>>
      BY <2>3 DEF Restart, Serving
    <3>3. issuers'[j] = None => issuers[j] = None
      BY <3>1, ConstantsAssumption
    <3> QED BY <2>1, <3>2, <3>3 DEF Follows
  <2> QED BY <2>2, <2>3
<1> QED BY <1>3, <1>4 DEF DataInv, SyncPending, FoundIsCurrent

----------------------------------------------------------------------------
(* The theorems *)

LEMMA IInvNext == IInv /\ [Next]_vars => IInv'
<1> SUFFICES ASSUME IInv, [Next]_vars PROVE IInv'
  OBVIOUS
<1>1. LockInv /\ SyncPending
  BY DEF IInv, DataInv
<1>2. Types' /\ Locking'
  BY <1>1, TypesNext, LockingNext
<1>3. ASSUME NEW r \in Request, Step(r) PROVE DataInv'
  <2>1. CASE r \in Exchange /\ (VerifyWorkload(r) \/ ExchangeStep(r))
    BY <1>3, <2>1, DataStepQuiet, DataStepRead, DataStepWrite DEF ExchangeStep
  <2>2. CASE r \in Change /\ (CreateIssuer(r) \/ BeginChange(r) \/ ChangeStep(r))
    BY <1>3, <2>2, DataStepQuiet, DataStepStore, DataStepUsers DEF ChangeStep
  <2>3. CASE CancelWaiting(r) \/ CancelHolding(r)
    BY <1>3, <2>3, DataStepQuiet
  <2> QED BY <1>3, <2>1, <2>2, <2>3 DEF Step
<1>4. ASSUME UNCHANGED vars PROVE DataInv'
  BY <1>4 DEF IInv, DataInv, SyncPending, FoundIsCurrent, Follows, RuleIsCurrent, RuleKey, vars, storage, process
<1>5. DataInv'
  BY <1>3, <1>4, Cases, DataStepStart
<1> QED BY <1>2, <1>5 DEF IInv, LockInv

LEMMA IInvInit == Init => IInv
<1> SUFFICES ASSUME Init PROVE IInv
  OBVIOUS
<1>1. PICK conf \in [Static -> Configured] :
        issuers = [i \in Issuer |-> IF i \in Static THEN conf[i] ELSE None]
  BY DEF Init
<1>2. /\ users = [u \in Issuer \X Id |-> None] /\ unsynced = {} /\ starting = {} /\ restarts = 0
      /\ locks = [k \in Key |-> None] /\ holders = [l \in Lock |-> {}] /\ queue = [l \in Lock |-> <<>>]
      /\ pc = [r \in Request |-> "idle"] /\ read = [r \in Request |-> NoRead]
      /\ usedIds = (UNION {IdsOf(issuers[i]) : i \in Static}) \ {BadId}
  BY DEF Init
<1>3. issuers \in [Issuer -> IssuerRecord \cup {None}] /\ StoredIds
  BY <1>1, ConstantsAssumption DEF StoredIds, Issuer
<1>4. usedIds \subseteq Id
  <2>1. SUFFICES ASSUME NEW id \in usedIds PROVE id \in Id
    OBVIOUS
  <2>2. PICK i \in Static : id \in IdsOf(issuers[i]) /\ id # BadId
    BY <1>2
  <2>3. issuers[i] \in IssuerRecord
    BY <1>1, ConstantsAssumption DEF Issuer
  <2>4. PICK k \in DOMAIN issuers[i].rules : id = issuers[i].rules[k].id
    BY <2>2 DEF IdsOf
  <2>5. issuers[i].rules[k] \in RuleRecord
    BY <2>3 DEF IssuerRecord
  <2> QED BY <2>2, <2>4, <2>5 DEF RuleRecord
<1>5. StorageTypes
  BY <1>2, <1>3, <1>4 DEF StorageTypes
<1>6. pc \in [Request -> PC] /\ read \in [Request -> Read]
  BY <1>2 DEF PC, NoRead, Read
<1>7. queue \in [Lock -> Seq(Request)]
  BY <1>2
<1>8. ProcessTypes
  BY <1>2, <1>6, <1>7, ConstantsAssumption DEF ProcessTypes
<1>9. Types
  <2>1. \A r \in Request :
       /\ read[r].issuer \in Issuer \cup {None}
       /\ read[r].body \in IssuerRecord \cup {None}
       /\ read[r].rule \in RuleRecord \cup {None}
       /\ read[r].found \in UserRecord \cup {None}
       /\ {read[r].issuerLock, read[r].ruleLock} \subseteq Lock \cup {None}
    BY <1>6 DEF Read
  <2> QED BY <1>5, <1>6, <1>8, <2>1 DEF Types, TypeOK, StorageTypes, ProcessTypes
<1>10. Kinds /\ Exclusion /\ Startup
  BY <1>2 DEF Kinds, Exclusion, Startup
<1>11. \A r \in Request : RequestOK(r)
  BY <1>2 DEF RequestOK, Stages, IssuerLocked, RuleLocked, HoldsIssuer, HoldsRule, Over
<1>12. DataInv
  BY <1>2 DEF DataInv, SyncPending, FoundIsCurrent, Follows, Request
<1> QED BY <1>9, <1>10, <1>11, <1>12 DEF IInv, LockInv, Locking

\* The locks of hold and Held::drop exclude whom they should, and what was read
\* under them is still so: the inductive invariant the theorems below rest on.
THEOREM Invariance == Spec => []IInv
BY IInvInit, IInvNext, PTL DEF Spec

\* What an exchange found under the locks of its rule and issuer is still so
\* when it writes, however many exchanges and changes there are, whoever is
\* dropped while it waits or holds a lock, and however often locks leave the
\* maps and come back (complete_workload, hold, Held::drop).
THEOREM FoundStaysCurrent == Spec => []FoundIsCurrent
<1>1. IInv => FoundIsCurrent
  BY DEF IInv, DataInv
<1> QED BY <1>1, Invariance, PTL

\* Nobody keeps access an update took away: outside of changes and of issuers
\* whose last sync failed, every user has at most the access its rule gives.
THEOREM AccessIsTheRules == Spec => []AccessFollowsRule
<1>1. IInv => AccessFollowsRule
  BY DEF IInv, DataInv, AccessFollowsRule, Follows
<1> QED BY <1>1, Invariance, PTL

\* No step brings back the id of a rule that was removed from an issuer the
\* app stores.
THEOREM RemovedIdsAreGone == Spec => RemovedIdsStayRemoved
<1> DEFINE A == \A i \in Issuer : i \in Stored /\ issuers'[i] # None =>
                  \A id \in IdsOf(issuers'[i]) :
                    id \in usedIds => issuers[i] # None /\ id \in IdsOf(issuers[i])
<1>1. IInv /\ [Next]_vars => A
  <2> SUFFICES ASSUME IInv, [Next]_vars, NEW i \in Stored, i \in Issuer, issuers'[i] # None,
                      NEW id \in IdsOf(issuers'[i]), id \in usedIds
               PROVE  issuers[i] # None /\ id \in IdsOf(issuers[i])
    OBVIOUS
  <2>1. Types /\ LockInv
    BY DEF IInv, LockInv
  <2>2. CASE issuers'[i] = issuers[i]
    BY <2>2
  <2>3. ASSUME NEW c \in Change, CreateIssuer(c) PROVE issuers[i] # None /\ id \in IdsOf(issuers[i])
    <3>1. PICK j \in Stored, body \in Body : \E issuer \in ValidateIssuer(body, None) :
            issuers' = [issuers EXCEPT ![j] = issuer]
      BY <2>3 DEF CreateIssuer
    <3>2. PICK issuer \in ValidateIssuer(body, None) : issuers' = [issuers EXCEPT ![j] = issuer]
      BY <3>1
    <3>3. \A k \in IdsOf(issuer) : k \notin usedIds
      BY ValidMeans, ConstantsAssumption
    <3> QED BY <2>1, <2>2, <3>2, <3>3 DEF Types, TypeOK
  <2>4. ASSUME NEW c \in Change, UpdateIssuer(c) PROVE issuers[i] # None /\ id \in IdsOf(issuers[i])
    <3>0. c \in Request /\ read[c] \in Read /\ pc[c] = "update" /\ read[c].issuer \in Issuer
      BY <2>1, <2>4, Known DEF Request, UpdateIssuer, Stages, Over
    <3>1. CASE issuers' = issuers
      BY <3>1
    <3>2. CASE issuers' # issuers
      <4>1. PICK issuer \in ValidateIssuer(read[c].body, issuers[read[c].issuer]) :
              issuers' = [issuers EXCEPT ![read[c].issuer] = issuer]
        BY <2>4, <3>2 DEF UpdateIssuer
      <4>2. read[c].body \in IssuerRecord /\ issuers[read[c].issuer] \in IssuerRecord \cup {None}
        BY <2>1, <2>4, <3>0 DEF UpdateIssuer, Read, Types, TypeOK
      <4>3. \A k \in IdsOf(issuer) : k \notin usedIds \/
              (issuers[read[c].issuer] # None /\ k \in IdsOf(issuers[read[c].issuer]))
        BY <4>2, ValidMeans
      <4> QED BY <2>1, <2>2, <4>1, <4>3 DEF Types, TypeOK
    <3> QED BY <3>1, <3>2
  <2>5. ASSUME NEW c \in Change, DeleteIssuer(c) PROVE issuers[i] # None /\ id \in IdsOf(issuers[i])
    BY <2>1, <2>2, <2>5 DEF DeleteIssuer, Types, TypeOK
  <2>6. CASE Restart
    BY <2>2, <2>6, ConstantsAssumption DEF Restart
  <2>7. CASE UNCHANGED issuers
    BY <2>2, <2>7
  <2>8. ASSUME NEW e \in Exchange, VerifyWorkload(e) \/ ExchangeStep(e) PROVE UNCHANGED issuers
    BY <2>8 DEF ExchangeStep, VerifyWorkload, HoldIssuer, AcquireIssuer, AcquireRule, ReadAgain, FindUser,
       WriteUser, DropRule, DropIssuer, IssueToken, storage
  <2>9. ASSUME NEW c \in Change, BeginChange(c) \/ AcquireForChange(c) \/ Sync(c) \/ DropIssuer(c)
        PROVE  UNCHANGED issuers
    BY <2>9 DEF BeginChange, AcquireForChange, Sync, DropIssuer, storage
  <2>10. ASSUME NEW r \in Request, CancelWaiting(r) \/ CancelHolding(r) PROVE UNCHANGED issuers
    BY <2>10 DEF CancelWaiting, CancelHolding, storage
  <2>11. ASSUME NEW j \in Issuer, SyncAllWorkloadUsers(j) PROVE UNCHANGED issuers
    BY <2>11 DEF SyncAllWorkloadUsers
  <2>12. CASE UNCHANGED vars
    BY <2>7, <2>12 DEF vars, storage
  <2>13. ASSUME NEW c \in Change, CreateIssuer(c) \/ BeginChange(c) \/ ChangeStep(c)
         PROVE  issuers[i] # None /\ id \in IdsOf(issuers[i])
    BY <2>3, <2>4, <2>5, <2>7, <2>9, <2>13 DEF ChangeStep
  <2> QED BY <2>6, <2>7, <2>8, <2>10, <2>11, <2>12, <2>13 DEF Next
<1>2. Spec => [][A]_vars
  BY <1>1, Invariance, PTL DEF Spec
<1> QED BY <1>2 DEF RemovedIdsStayRemoved
=============================================================================
