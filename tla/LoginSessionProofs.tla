------------------------- MODULE LoginSessionProofs -------------------------
(***************************************************************************)
(* The guarantees of login sessions for any number of browsers, users and  *)
(* requests at the same time. The invariant says of each place a login     *)
(* step can be (a stored record, a request's copy of one, the step a       *)
(* request took, the JWT it answers with) whose step it is:                *)
(*   - a session id made by a request other than "begin" is known to that  *)
(*     request's browser only, so it can hold that browser's steps;        *)
(*   - one made by "begin" can be planted, and holds no step at all.       *)
(* What a record may hold is said by sets of requests that only grow.      *)
(* For browsers that send one request at a time a second invariant,        *)
(* OnceInv, says that a login is on one record only, and that its answer   *)
(* takes it off.                                                           *)
(***************************************************************************)
EXTENDS LoginSession, FiniteSetTheorems, TLAPS

\* A request has put its step on a session once it answers.
Answered == {"respond", "respondError", "done"}

Needs(l) == Second[user[l]] # "none" /\ (op[l] = "local" \/ user[l] \notin Skipping)

\* What browser c began and passed: links, and the logins by what is next.
Begun(c) == {l \in Request : pc[l] \in Answered /\ client[l] = c}
Completed(c) == {l \in Begun(c) : user[l] \in User /\ ~Needs(l)}
Awaits(c, factor) == {l \in Begun(c) : user[l] \in User /\ Second[user[l]] = factor}

\* External logins that are worth nothing to another browser.
Plain == {l \in Request : pc[l] \in Answered /\ op[l] # "beginLink"}

\* A record that holds steps of browser c only.
Sound(record, c) ==
  /\ record.auth \in Completed(c) \cup {None}
  /\ record.passkey \in Awaits(c, "passkey") \cup {None}
  /\ record.totp \in Awaits(c, "totp") \cup {None}
  /\ record.link \in Begun(c) \cup {None}
  /\ record.ext \in Begun(c) \cup Plain \cup {None}

\* A record that holds no step.
Bare(record) ==
  /\ record.auth = None /\ record.passkey = None /\ record.totp = None
  /\ record.link = None
  /\ record.ext \in Plain \cup {None}

\* Stored records are of whoever made their id.
StoreOK ==
  \A i \in Request : store[i] # None =>
    /\ pc[i] = "done"
    /\ \A c \in Client : client[i] = c => Sound(store[i], c)
    /\ op[i] = "begin" => Bare(store[i])

\* Only the ids of "begin" get into other browsers.
IdsOK ==
  /\ \A c \in Client : \A i \in known[c] :
       pc[i] = "done" /\ (op[i] # "begin" => client[i] = c)
  /\ \A c \in Client : jar[c] # None => jar[c] \in known[c]

\* The id the request's copy would be saved under.
IdOf(r) == IF sid[r] = None THEN r ELSE sid[r]

CopyOK(r) ==
  /\ pc[r] # "idle" => client[r] \in Client /\ (op[r] \in FirstFactor => user[r] \in User)
  /\ pc[r] \in {"idle", "done"} => sid[r] = None
  /\ pc[r] \in {"idle", "sent", "done"} => taken[r] = None /\ rec[r] = Empty
  /\ sid[r] # None => sid[r] \in known[client[r]]
  /\ \A c \in Client : client[r] = c => Sound(rec[r], c)
  /\ op[IdOf(r)] = "begin" => Bare(rec[r])

AgeOf(o) == IF o = "exchange" THEN CompletedAge ELSE SecondFactorAge

\* What a request takes off is a step of its own browser, of the sort it
\* asks for and within its age when it goes on with it.
TakenOK(r) ==
  /\ pc[r] \in {"save", "verify"} => taken[r] # None
  /\ pc[r] = "save" => sid[r] # None /\ op[r] \in {"startLink", "callback"}
  /\ pc[r] = "verify" /\ op[r] = "passkey" => kind[r] # None
  /\ pc[r] = "elevate" => op[r] \in FirstFactor \cup {"beginLink"}
  /\ taken[r] # None =>
       /\ pc[taken[r]] \in Answered
       /\ op[r] \in {"exchange", "passkey", "totp", "startLink"} \/ op[taken[r]] = "beginLink"
            => client[taken[r]] = client[r]
       /\ op[r] = "startLink" => sid[r] # None /\ op[sid[r]] # "begin"
       /\ op[r] = "exchange" => ~Needs(taken[r])
       /\ op[r] \in {"passkey", "totp"} => Second[user[taken[r]]] = op[r]
       /\ pc[r] = "verify" /\ op[r] \in {"exchange", "passkey", "totp"} =>
            at[r] - at[taken[r]] <= AgeOf(op[r])

\* Who may be answered with a JWT of login l.
MayGet(r, l) ==
  /\ client[l] = client[r]
  /\ Needs(l) => op[r] = Second[user[l]]
  /\ l # r => at[r] - at[l] <= AgeOf(op[r])

JwtOK(r) ==
  jwt[r] # None => pc[r] \in Answered /\ pc[jwt[r]] \in Answered /\ MayGet(r, jwt[r])

Past == \A r \in Request : at[r] <= now

IssuedOK ==
  \A l, r \in Request : <<l, r>> \in issued =>
    pc[l] \in Answered /\ pc[r] \in Answered /\ MayGet(r, l)

LinkedOK ==
  \A l, r \in Request : <<l, r>> \in linked =>
    pc[l] \in Answered /\ pc[r] \in Answered /\ client[l] = client[r]

IInv == /\ TypeOK
        /\ Past
        /\ StoreOK
        /\ IdsOK
        /\ \A r \in Request : CopyOK(r) /\ TakenOK(r) /\ JwtOK(r)
        /\ IssuedOK
        /\ LinkedOK

----------------------------------------------------------------------------
(* What a step leaves of a request *)

\* A request that was sent is the same request afterwards, and one that
\* answers has done what it does.
Steady(l) ==
  /\ pc[l] # "idle" => /\ pc'[l] # "idle"
                       /\ op'[l] = op[l]
                       /\ client'[l] = client[l]
                       /\ user'[l] = user[l]
  /\ pc[l] \in Answered => pc'[l] \in Answered /\ at'[l] = at[l]
  /\ pc[l] = "done" => pc'[l] = "done"

\* Nothing of the request changes.
Same(l) ==
  /\ pc'[l] = pc[l] /\ op'[l] = op[l] /\ client'[l] = client[l]
  /\ user'[l] = user[l] /\ at'[l] = at[l] /\ sid'[l] = sid[l] /\ rec'[l] = rec[l]
  /\ taken'[l] = taken[l] /\ kind'[l] = kind[l] /\ jwt'[l] = jwt[l]

\* Every step is of one request, or of none.
LEMMA Steadiness ==
  ASSUME TypeOK, [Next]_vars
  PROVE  /\ \A l \in Request : Steady(l)
         /\ \A c \in Client : known[c] \subseteq known'[c]
<1>1. CASE UNCHANGED vars
  BY <1>1 DEF vars, session, history, Steady, TypeOK
<1>2. ASSUME NEW r \in Request, NEW c \in Client, NEW o \in Ops, NEW u \in User \cup {None},
             Send(r, c, o, u)
      PROVE  /\ \A l \in Request : Steady(l) /\ (l # r => Same(l))
             /\ \A d \in Client : known[d] \subseteq known'[d]
  BY <1>2 DEF Send, Goto, Steady, Same, TypeOK, Answered, history
<1>3. ASSUME NEW r \in Request, Handle(r) PROVE
         /\ \A l \in Request : Steady(l)
         /\ \A d \in Client : known[d] \subseteq known'[d]
  <2>1. CASE LoginLocal(r) \/ ExchangeExternal(r)
    BY <2>1 DEF LoginLocal, ExchangeExternal, FirstFactorPassed, LoadAs, Refuse, Goto, Steady,
       TypeOK, Answered, session
  <2>2. CASE BeginLink(r) \/ Elevate(r) \/ BeginExternal(r)
    BY <2>2 DEF BeginLink, Elevate, BeginExternal, CycleId, LoadAs, Refuse, Goto, Steady,
       TypeOK, Answered, session, history
  <2>3. CASE TakeLink(r) \/ TakeLogin(r)
    BY <2>3 DEF TakeLink, TakeLogin, TakeStep, LoadAs, Goto, Steady, TypeOK, Answered, history
  <2>4. CASE SaveTaken(r) \/ StartLink(r) \/ CallbackRefused(r)
    BY <2>4 DEF SaveTaken, StartLink, CallbackRefused, Refuse, Goto, Steady, TypeOK, Answered,
       session, history
  <2>5. CASE LinkCallback(r) \/ LoginCallback(r)
    BY <2>5 DEF LinkCallback, LoginCallback, Goto, Steady, TypeOK, Answered, session, history
  <2>6. CASE TakeCompleted(r) \/ TakePasskey(r) \/ BeginTotpAttempt(r)
    BY <2>6 DEF TakeCompleted, TakePasskey, BeginTotpAttempt, Goto, Steady, TypeOK, Answered,
       history
  <2>7. CASE ExchangeForJwt(r) \/ CompletePasskey(r) \/ CompleteTotp(r)
    BY <2>7 DEF ExchangeForJwt, CompletePasskey, CompleteTotp, Answer, Refuse, Goto, Steady,
       TypeOK, Answered, session, history
  <2>8. CASE Respond(r)
    BY <2>8 DEF Respond, Goto, Steady, TypeOK, Answered
  <2> QED BY <1>3, <2>1, <2>2, <2>3, <2>4, <2>5, <2>6, <2>7, <2>8 DEF Handle
<1>4. ASSUME NEW r \in Request, Drop(r) \/ Forget(r) PROVE
         /\ \A l \in Request : Steady(l)
         /\ \A d \in Client : known[d] \subseteq known'[d]
  BY <1>4 DEF Drop, Forget, Goto, Steady, TypeOK, Answered, session, history
<1>5. ASSUME NEW c \in Client, NEW d \in Client, Plant(c, d) PROVE
         /\ \A l \in Request : Steady(l)
         /\ \A e \in Client : known[e] \subseteq known'[e]
  BY <1>5 DEF Plant, Steady, TypeOK
<1>6. CASE Tick
  BY <1>6 DEF Tick, Steady, TypeOK
<1> QED BY <1>1, <1>2, <1>3, <1>4, <1>5, <1>6 DEF Next

----------------------------------------------------------------------------
(* The parts of the invariant that a step leaves alone *)

\* What a browser began stays begun, of the same sort.
LEMMA Growth ==
  ASSUME TypeOK, \A l \in Request : Steady(l)
  PROVE  /\ \A c : /\ Begun(c) \subseteq Begun(c)'
                   /\ Completed(c) \subseteq Completed(c)'
                   /\ \A f : Awaits(c, f) \subseteq Awaits(c, f)'
         /\ Plain \subseteq Plain'
<1>1. \A l \in Request : pc[l] \in Answered =>
        /\ pc'[l] \in Answered /\ op'[l] = op[l] /\ client'[l] = client[l]
        /\ user'[l] = user[l]
  BY DEF Steady, Answered
<1>2. \A c : Begun(c) \subseteq Begun(c)'
  BY <1>1 DEF Begun
<1>3. \A c : Completed(c) \subseteq Completed(c)'
  BY <1>1 DEF Begun, Completed, Needs
<1>4. \A c, f : Awaits(c, f) \subseteq Awaits(c, f)'
  BY <1>1 DEF Begun, Awaits
<1>5. Plain \subseteq Plain'
  BY <1>1 DEF Plain
<1> QED BY <1>2, <1>3, <1>4, <1>5

\* A request that a step does not touch keeps its part.
LEMMA Untouched ==
  ASSUME IInv, TypeOK', \A l \in Request : Steady(l),
         \A c \in Client : known[c] \subseteq known'[c],
         NEW q \in Request, Same(q)
  PROVE  (CopyOK(q) /\ TakenOK(q) /\ JwtOK(q))'
<1>1. CopyOK(q) /\ TakenOK(q) /\ JwtOK(q)
  BY DEF IInv
<1>2. sid[q] # None => sid[q] \in Request /\ pc[sid[q]] = "done"
  BY <1>1 DEF CopyOK, IInv, IdsOK, TypeOK, PC
<1>3. op'[IdOf(q)'] = op[IdOf(q)]
  BY <1>2 DEF Same, Steady, IdOf
<1>4. CopyOK(q)'
  <2>1. \A c \in Client : Sound(rec[q], c) => Sound(rec[q], c)'
    BY Growth DEF Sound, Same, IInv
  <2>2. Bare(rec[q]) => Bare(rec[q])'
    BY Growth DEF Bare, Same, IInv
  <2>3. (\A c \in Client : client[q] = c => Sound(rec[q], c))'
    BY <1>1, <2>1 DEF CopyOK, Same
  <2>4. (op[IdOf(q)] = "begin" => Bare(rec[q]))'
    BY <1>1, <1>3, <2>2 DEF CopyOK
  <2>5. (sid[q] # None => sid[q] \in known[client[q]])'
    BY <1>1, <1>2 DEF CopyOK, Same, IInv, TypeOK
  <2>6. (/\ pc[q] # "idle" => /\ client[q] \in Client
                              /\ op[q] \in FirstFactor => user[q] \in User
         /\ pc[q] \in {"idle", "done"} => sid[q] = None
         /\ pc[q] \in {"idle", "sent", "done"} => taken[q] = None /\ rec[q] = Empty)'
    BY <1>1 DEF CopyOK, Same, Empty
  <2> QED BY <2>3, <2>4, <2>5, <2>6 DEF CopyOK
<1>5. TakenOK(q)'
  <2>1. CASE taken[q] = None
    BY <1>1, <2>1 DEF TakenOK, Same
  <2>2. CASE taken[q] # None
    <3>1. taken[q] \in Request /\ pc[taken[q]] \in Answered
      BY <1>1, <2>2 DEF TakenOK, IInv, TypeOK
    <3>2. /\ pc'[taken[q]] \in Answered /\ op'[taken[q]] = op[taken[q]]
          /\ client'[taken[q]] = client[taken[q]] /\ at'[taken[q]] = at[taken[q]]
          /\ user'[taken[q]] = user[taken[q]]
      BY <3>1 DEF Steady, Answered
    <3>3. sid[q] # None => op'[sid[q]] = op[sid[q]]
      BY <1>2 DEF Steady
    <3> QED BY <1>1, <3>2, <3>3 DEF TakenOK, Same, Needs, AgeOf
  <2> QED BY <2>1, <2>2
<1>6. JwtOK(q)'
  <2>1. CASE jwt[q] = None
    BY <2>1 DEF JwtOK, Same
  <2>2. CASE jwt[q] # None
    <3>1. jwt[q] \in Request /\ pc[jwt[q]] \in Answered
      BY <1>1, <2>2 DEF JwtOK, IInv, TypeOK
    <3>2. /\ pc'[jwt[q]] \in Answered /\ op'[jwt[q]] = op[jwt[q]]
          /\ client'[jwt[q]] = client[jwt[q]] /\ at'[jwt[q]] = at[jwt[q]]
          /\ user'[jwt[q]] = user[jwt[q]]
      BY <3>1 DEF Steady, Answered
    <3> QED BY <1>1, <3>2 DEF JwtOK, Same, MayGet, Needs, AgeOf
  <2> QED BY <2>1, <2>2
<1> QED BY <1>4, <1>5, <1>6

\* Records that a step leaves in the store stay sound.
LEMMA StoreKept ==
  ASSUME IInv, \A l \in Request : Steady(l), NEW i \in Request, store[i] # None
  PROVE  /\ pc'[i] = "done"
         /\ \A c \in Client :
              client'[i] = c /\ store'[i] = store[i] => Sound(store[i], c)'
         /\ op'[i] = "begin" /\ store'[i] = store[i] => Bare(store[i])'
<1>1. /\ pc[i] = "done"
      /\ \A c \in Client : client[i] = c => Sound(store[i], c)
      /\ op[i] = "begin" => Bare(store[i])
  BY DEF IInv, StoreOK
<1>2. pc'[i] = "done" /\ client'[i] = client[i] /\ op'[i] = op[i]
  BY <1>1 DEF Steady
<1>3. \A c \in Client : Sound(store[i], c) /\ store'[i] = store[i] => Sound(store[i], c)'
  BY Growth DEF Sound, IInv
<1>4. Bare(store[i]) /\ store'[i] = store[i] => Bare(store[i])'
  BY Growth DEF Bare, IInv
<1> QED BY <1>1, <1>2, <1>3, <1>4

\* What was answered stays as it was.
LEMMA HistoryKept ==
  ASSUME IInv, \A l \in Request : Steady(l)
  PROVE  /\ \A l, r \in Request : <<l, r>> \in issued =>
              /\ pc'[l] \in Answered /\ pc'[r] \in Answered
              /\ MayGet(r, l)'
         /\ \A l, r \in Request : <<l, r>> \in linked =>
              pc'[l] \in Answered /\ pc'[r] \in Answered /\ client'[l] = client'[r]
<1>1. \A l \in Request : pc[l] \in Answered =>
        /\ pc'[l] \in Answered /\ op'[l] = op[l] /\ client'[l] = client[l]
        /\ user'[l] = user[l] /\ at'[l] = at[l]
  BY DEF Steady, Answered
<1>2. \A l, r \in Request : <<l, r>> \in linked =>
        pc'[l] \in Answered /\ pc'[r] \in Answered /\ client'[l] = client'[r]
  BY <1>1 DEF IInv, LinkedOK
<1>3. ASSUME NEW l \in Request, NEW r \in Request, <<l, r>> \in issued
      PROVE  pc'[l] \in Answered /\ pc'[r] \in Answered /\ MayGet(r, l)'
  <2>1. pc[l] \in Answered /\ pc[r] \in Answered /\ MayGet(r, l)
    BY <1>3 DEF IInv, IssuedOK
  <2> QED BY <1>1, <2>1 DEF MayGet, Needs, AgeOf
<1> QED BY <1>2, <1>3

----------------------------------------------------------------------------
(* Loading a record *)

\* A record as it is now is sound after the step, for the browser of request
\* r; and Bare after the step.
SoundNext(record, r) ==
  \A c \in Client : client[r] = c =>
    /\ record.auth \in Completed(c)' \cup {None}
    /\ record.passkey \in Awaits(c, "passkey")' \cup {None}
    /\ record.totp \in Awaits(c, "totp")' \cup {None}
    /\ record.link \in Begun(c)' \cup {None}
    /\ record.ext \in Begun(c)' \cup Plain' \cup {None}

BareNext(record) ==
  /\ record.auth = None /\ record.passkey = None /\ record.totp = None
  /\ record.link = None
  /\ record.ext \in Plain' \cup {None}

\* The id of the session once it was loaded.
Home(r) == IF sid[r] = None THEN None
           ELSE IF store[sid[r]] = None THEN None ELSE sid[r]

\* Whatever a request loads holds its own browser's steps, and none at all
\* when others may know its id.
LEMMA LoadedSound ==
  ASSUME IInv, NEW r \in Request, pc[r] = "sent"
  PROVE  /\ client[r] \in Client
         /\ Loaded(r) \in Record
         /\ Home(r) \in Request \cup {None}
         /\ Home(r) # None => Home(r) \in known[client[r]]
         /\ Home(r) = None => Loaded(r) = Empty
         /\ \A c \in Client : client[r] = c => Sound(Loaded(r), c)
         /\ op[IF Home(r) = None THEN r ELSE Home(r)] = "begin" => Bare(Loaded(r))
<1>1. TypeOK /\ CopyOK(r) /\ client[r] \in Client
  BY DEF IInv, CopyOK
<1>2. CASE Home(r) = None
  <2>1. Loaded(r) = Empty /\ Empty \in Record
    BY <1>1, <1>2, ConstantsAssumption DEF TypeOK, Home, Loaded, Empty, Record
  <2>2. Bare(Empty) /\ \A c \in Client : Sound(Empty, c)
    BY DEF Bare, Sound, Empty
  <2> QED BY <1>1, <1>2, <2>1, <2>2
<1>3. CASE Home(r) # None
  <2> DEFINE i == sid[r]
  <2>1. i \in Request /\ store[i] # None /\ Home(r) = i /\ Loaded(r) = store[i]
    BY <1>1, <1>3 DEF Home, Loaded, TypeOK
  <2>2. store[i] \in Record /\ i \in known[client[r]]
    BY <1>1, <2>1, ConstantsAssumption DEF TypeOK, CopyOK
  <2>3. op[i] = "begin" => Bare(store[i])
    BY <2>1 DEF IInv, StoreOK
  <2>4. \A c \in Client : client[r] = c => Sound(store[i], c)
    <3>1. CASE op[i] = "begin"
      BY <2>3, <3>1 DEF Bare, Sound
    <3>2. CASE op[i] # "begin"
      BY <1>1, <2>1, <2>2, <3>2 DEF IInv, IdsOK, StoreOK
    <3> QED BY <3>1, <3>2
  <2> QED BY <1>1, <1>3, <2>1, <2>2, <2>3, <2>4
<1> QED BY <1>2, <1>3

\* ... and still does after the step.
LEMMA LoadedNext ==
  ASSUME IInv, NEW r \in Request, pc[r] = "sent", \A l \in Request : Steady(l)
  PROVE  /\ SoundNext(Loaded(r), r)
         /\ op[IF Home(r) = None THEN r ELSE Home(r)] = "begin" => BareNext(Loaded(r))
         /\ op'[IF Home(r) = None THEN r ELSE Home(r)] =
              op[IF Home(r) = None THEN r ELSE Home(r)]
<1>3. SoundNext(Loaded(r), r)
  BY LoadedSound, Growth DEF IInv, Sound, SoundNext
<1>4. Bare(Loaded(r)) => BareNext(Loaded(r))
  BY Growth DEF IInv, Bare, BareNext
<1>5. Home(r) # None => pc[Home(r)] = "done" /\ Home(r) \in Request
  BY LoadedSound DEF IInv, IdsOK
<1>6. op'[IF Home(r) = None THEN r ELSE Home(r)] = op[IF Home(r) = None THEN r ELSE Home(r)]
  BY <1>5 DEF Steady
<1> QED BY <1>3, <1>4, <1>6, LoadedSound

\* The copy of a request that loads its session and changes it.
LEMMA CopyAfterLoad ==
  ASSUME IInv, NEW r \in Request, pc[r] = "sent", \A l \in Request : Steady(l),
         \A c \in Client : known[c] \subseteq known'[c], TypeOK',
         NEW copy, LoadAs(r, copy), SoundNext(copy, r),
         op[IF Home(r) = None THEN r ELSE Home(r)] = "begin" => BareNext(copy),
         pc'[r] \notin {"idle", "sent", "done"}
  PROVE  CopyOK(r)'
<1>1. rec'[r] = copy /\ sid'[r] = Home(r)
  BY DEF LoadAs, Home, IInv, TypeOK
<1>2. /\ client'[r] = client[r] /\ client[r] \in Client
      /\ op'[r] \in FirstFactor => user'[r] \in User
  BY LoadedSound DEF Steady, IInv, CopyOK
<1>3. \A c \in Client : client[r] = c => Sound(rec[r], c)'
  BY <1>1, <1>2 DEF SoundNext, Sound
<1>4. IdOf(r)' = IF Home(r) = None THEN r ELSE Home(r)
  BY <1>1 DEF IdOf
<1>5. (op[IdOf(r)] = "begin" => Bare(rec[r]))'
  BY <1>1, <1>4, LoadedNext DEF BareNext, Bare
<1>6. Home(r) # None => Home(r) \in known'[client[r]]
  BY LoadedSound
<1> QED BY <1>1, <1>2, <1>3, <1>5, <1>6 DEF CopyOK

----------------------------------------------------------------------------
(* The request that takes the step *)

\* A step of request r leaves every other request alone.
Alone(r) == \A q \in Request : q # r => Same(q)

\* The copy of a request, as it is after the step.
LEMMA CopyNext ==
  ASSUME IInv, NEW r \in Request, pc[r] # "idle", \A l \in Request : Steady(l)
  PROVE  /\ client[r] \in Client
         /\ SoundNext(rec[r], r)
         /\ op'[IdOf(r)] = op[IdOf(r)]
         /\ op[IdOf(r)] = "begin" => BareNext(rec[r])
<1>1. CopyOK(r) /\ client[r] \in Client
  BY DEF IInv, CopyOK
<1>3. SoundNext(rec[r], r)
  BY <1>1, Growth DEF CopyOK, IInv, Sound, SoundNext
<1>4. op[IdOf(r)] = "begin" => BareNext(rec[r])
  BY <1>1, Growth DEF CopyOK, IInv, Bare, BareNext
<1>5. sid[r] # None => sid[r] \in Request /\ pc[sid[r]] = "done"
  BY <1>1 DEF CopyOK, IInv, IdsOK, TypeOK
<1>6. op'[IdOf(r)] = op[IdOf(r)]
  BY <1>5 DEF Steady, IdOf
<1> QED BY <1>1, <1>3, <1>4, <1>6

\* The copy of a request that changes it and keeps its session.
LEMMA CopyAfterChange ==
  ASSUME IInv, NEW r \in Request, pc[r] # "idle",
         \A l \in Request : Steady(l), \A c \in Client : known[c] \subseteq known'[c],
         sid'[r] = sid[r], SoundNext(rec'[r], r),
         op[IdOf(r)] = "begin" => BareNext(rec'[r]),
         pc'[r] \notin {"idle", "sent", "done"}
  PROVE  CopyOK(r)'
<1>1. /\ CopyOK(r) /\ client[r] \in Client /\ client'[r] = client[r]
      /\ op'[r] \in FirstFactor => user'[r] \in User
  BY DEF IInv, CopyOK, Steady
<1>2. \A c \in Client : client[r] = c => Sound(rec[r], c)'
  BY <1>1 DEF SoundNext, Sound
<1>3. IdOf(r)' = IdOf(r) /\ op'[IdOf(r)] = op[IdOf(r)]
  BY CopyNext DEF IdOf
<1>4. (op[IdOf(r)] = "begin" => Bare(rec[r]))'
  BY <1>3 DEF BareNext, Bare
<1>5. (sid[r] # None => sid[r] \in known[client[r]])'
  BY <1>1 DEF CopyOK
<1> QED BY <1>1, <1>2, <1>4, <1>5 DEF CopyOK

\* The copy of a request that is over.
LEMMA CopyAfterEnd ==
  ASSUME IInv, NEW r \in Request, pc[r] # "idle", \A l \in Request : Steady(l),
         sid'[r] = None, taken'[r] = None, rec'[r] = Empty
  PROVE  CopyOK(r)'
<1>1. client'[r] \in Client /\ (op'[r] \in FirstFactor => user'[r] \in User)
  BY DEF IInv, CopyOK, Steady
<1>2. Bare(rec[r])' /\ \A c \in Client : Sound(rec[r], c)'
  BY DEF Bare, Sound, Empty
<1> QED BY <1>1, <1>2 DEF CopyOK

\* Sending: the cookie of the browser is one of its own.
LEMMA SendKeeps ==
  ASSUME IInv, TypeOK', NEW r \in Request, NEW c \in Client, NEW o \in Ops,
         NEW u \in User \cup {None}, Send(r, c, o, u),
         \A l \in Request : Steady(l)
  PROVE  Alone(r) /\ (CopyOK(r) /\ TakenOK(r) /\ JwtOK(r))'
<1>1. Alone(r)
  BY DEF Send, Goto, Alone, Same, IInv, TypeOK
<1>2. /\ pc[r] = "idle" /\ pc'[r] = "sent" /\ client'[r] = c /\ sid'[r] = jar[c]
      /\ rec'[r] = Empty /\ taken'[r] = None /\ jwt'[r] = None /\ known' = known
  BY DEF Send, Goto, IInv, TypeOK, CopyOK, JwtOK, Answered
<1>3. /\ sid'[r] # None => sid'[r] \in known'[client'[r]]
      /\ op'[r] \in FirstFactor => user'[r] \in User
  BY <1>2 DEF IInv, IdsOK, Send, TypeOK
<1>4. Bare(rec[r])' /\ \A d \in Client : Sound(rec[r], d)'
  BY <1>2 DEF Bare, Sound, Empty
<1>5. CopyOK(r)'
  BY <1>2, <1>3, <1>4 DEF CopyOK
<1>6. TakenOK(r)' /\ JwtOK(r)'
  BY <1>2 DEF TakenOK, JwtOK
<1> QED BY <1>1, <1>5, <1>6

\* Passing a first factor without a session.
LEMMA FirstFactorKeeps ==
  ASSUME IInv, TypeOK', NEW r \in Request, LoginLocal(r) \/ ExchangeExternal(r),
         \A l \in Request : Steady(l), \A c \in Client : known[c] \subseteq known'[c]
  PROVE  Alone(r) /\ (CopyOK(r) /\ TakenOK(r) /\ JwtOK(r))'
<1>1. /\ pc[r] = "sent" /\ op[r] \in {"local", "token"} /\ taken[r] = None /\ jwt[r] = None
      /\ FirstFactorPassed(r)
  BY DEF LoginLocal, ExchangeExternal, IInv, CopyOK, JwtOK, Answered
<1>2. Alone(r)
  BY <1>1 DEF FirstFactorPassed, LoadAs, Refuse, Goto, Alone, Same, session, IInv, TypeOK
<1>3. taken'[r] = None /\ op'[r] = op[r] /\ client'[r] = client[r] /\ user'[r] = user[r]
  BY <1>1 DEF FirstFactorPassed
<1>4. CASE /\ NeedsSecondFactor(r)
           /\ LoadAs(r, Loaded(r))
           /\ Goto(r, "elevate")
           /\ UNCHANGED <<jwt, recorded>>
  <2>1. pc'[r] = "elevate" /\ jwt'[r] = None
    BY <1>1, <1>4 DEF Goto, IInv, TypeOK
  <2>2. CopyOK(r)'
    BY <1>1, <1>4, <2>1, CopyAfterLoad, LoadedNext
  <2>3. TakenOK(r)' /\ JwtOK(r)'
    BY <1>1, <1>3, <2>1 DEF TakenOK, JwtOK, FirstFactor
  <2> QED BY <1>2, <2>2, <2>3
<1>5. CASE /\ UNCHANGED session
           /\ \/ /\ ~NeedsSecondFactor(r)
                 /\ jwt' = [jwt EXCEPT ![r] = r]
                 /\ Goto(r, "respond")
              \/ Refuse(r) /\ UNCHANGED jwt
  <2>1. /\ pc'[r] \in {"respond", "respondError"} /\ sid'[r] = sid[r] /\ rec'[r] = rec[r]
        /\ jwt'[r] # None => jwt'[r] = r /\ ~NeedsSecondFactor(r)
    BY <1>1, <1>5 DEF Goto, Refuse, session, IInv, TypeOK
  <2>2. CopyOK(r)'
    BY <1>1, <2>1, CopyNext, CopyAfterChange
  <2>3. TakenOK(r)'
    BY <1>3, <2>1 DEF TakenOK
  <2>4. JwtOK(r)'
    BY <1>1, <1>3, <2>1 DEF JwtOK, Answered, MayGet, NeedsSecondFactor, KindOf, Needs
  <2> QED BY <1>2, <2>2, <2>3, <2>4
<1> QED BY <1>1, <1>4, <1>5 DEF FirstFactorPassed

\* Requests that load the session and take nothing off.
LEMMA LoadKeeps ==
  ASSUME IInv, TypeOK', NEW r \in Request, BeginLink(r) \/ BeginExternal(r),
         \A l \in Request : Steady(l), \A c \in Client : known[c] \subseteq known'[c]
  PROVE  Alone(r) /\ (CopyOK(r) /\ TakenOK(r) /\ JwtOK(r))'
<1>1. /\ pc[r] = "sent" /\ op[r] \in {"beginLink", "begin"} /\ taken[r] = None /\ jwt[r] = None
  BY DEF BeginLink, BeginExternal, IInv, CopyOK, JwtOK, Answered
<1>2. Alone(r)
  BY DEF BeginLink, BeginExternal, LoadAs, Refuse, Goto, Alone, Same, session, IInv, TypeOK
<1>3. taken'[r] = None /\ jwt'[r] = None /\ op'[r] = op[r] /\ client'[r] = client[r]
  BY <1>1 DEF BeginLink, BeginExternal
<1>4. /\ pc'[r] \in {"elevate", "respond", "respondError"}
      /\ pc'[r] = "elevate" => op[r] = "beginLink"
  BY DEF BeginLink, BeginExternal, Refuse, Goto, IInv, TypeOK
<1>5. TakenOK(r)' /\ JwtOK(r)'
  BY <1>3, <1>4 DEF TakenOK, JwtOK
<1>6. CASE op[r] = "beginLink" /\ LoadAs(r, Loaded(r))
  BY <1>1, <1>2, <1>4, <1>5, <1>6, CopyAfterLoad, LoadedNext
<1>7. CASE op[r] = "beginLink" /\ UNCHANGED session
  <2>1. sid'[r] = sid[r] /\ rec'[r] = rec[r]
    BY <1>7 DEF session
  <2>2. CopyOK(r)'
    BY <1>1, <1>4, <2>1, CopyNext, CopyAfterChange
  <2> QED BY <1>2, <1>5, <2>2
<1>8. CASE BeginExternal(r)
  <2> DEFINE copy == [Loaded(r) EXCEPT !.ext = r]
  <2>1. LoadAs(r, copy) /\ pc'[r] = "respond" /\ op'[r] = "begin"
    BY <1>8 DEF BeginExternal, Goto, IInv, TypeOK
  <2>2. r \in Plain'
    BY <2>1 DEF Plain, Answered
  <2>3. Loaded(r) \in Record
    BY <1>1, LoadedSound
  <2>4. /\ copy.auth = Loaded(r).auth /\ copy.passkey = Loaded(r).passkey
        /\ copy.totp = Loaded(r).totp /\ copy.link = Loaded(r).link /\ copy.ext = r
    BY <2>3 DEF Record
  <2> HIDE DEF copy
  <2>5. SoundNext(copy, r)
    BY <1>1, <2>2, <2>4, LoadedNext DEF SoundNext
  <2>6. op[IF Home(r) = None THEN r ELSE Home(r)] = "begin" => BareNext(copy)
    BY <1>1, <2>2, <2>4, LoadedNext DEF BareNext
  <2>7. CopyOK(r)'
    BY <1>1, <1>4, <2>1, <2>5, <2>6, CopyAfterLoad
  <2> QED BY <1>2, <1>5, <2>7
<1> QED BY <1>6, <1>7, <1>8 DEF BeginLink

\* Taking a link or an external login off.
LEMMA TakeKeeps ==
  ASSUME IInv, TypeOK', NEW r \in Request, TakeLink(r) \/ TakeLogin(r),
         \A l \in Request : Steady(l), \A c \in Client : known[c] \subseteq known'[c]
  PROVE  Alone(r) /\ (CopyOK(r) /\ TakenOK(r) /\ JwtOK(r))'
<1> DEFINE d == Loaded(r)
           isLink == op[r] = "startLink"
           l == IF isLink THEN d.link ELSE d.ext
           copy == IF isLink THEN [d EXCEPT !.link = None] ELSE [d EXCEPT !.ext = None]
<1>1. /\ pc[r] = "sent" /\ op[r] \in {"startLink", "callback"} /\ taken[r] = None
      /\ jwt[r] = None /\ TakeStep(r, l, copy)
  BY DEF TakeLink, TakeLogin, IInv, CopyOK, JwtOK, Answered
<1>2. Alone(r)
  BY <1>1 DEF TakeStep, LoadAs, Goto, Alone, Same, IInv, TypeOK
<1>3. /\ jwt'[r] = None /\ op'[r] = op[r] /\ client'[r] = client[r] /\ op' = op
      /\ client' = client
  BY <1>1 DEF TakeStep, history
<1>4. JwtOK(r)'
  BY <1>3 DEF JwtOK
<1>5. d \in Record /\ client[r] \in Client
  BY <1>1, LoadedSound
<1>6. CASE l = None
  <2>1. LoadAs(r, d) /\ pc'[r] = "respond" /\ taken'[r] = None
    BY <1>1, <1>6 DEF TakeStep, Goto, IInv, TypeOK
  <2>2. CopyOK(r)'
    BY <1>1, <2>1, CopyAfterLoad, LoadedNext
  <2>3. TakenOK(r)'
    BY <2>1 DEF TakenOK
  <2> QED BY <1>2, <1>4, <2>2, <2>3
<1>7. CASE l # None
  <2>1. LoadAs(r, copy) /\ pc'[r] = "save" /\ taken'[r] = l /\ sid'[r] = Home(r)
    BY <1>1, <1>7 DEF TakeStep, Goto, LoadAs, Home, IInv, TypeOK
  <2>2. /\ copy.auth = d.auth /\ copy.passkey = d.passkey /\ copy.totp = d.totp
        /\ copy.link \in {d.link, None} /\ copy.ext \in {d.ext, None}
    BY <1>5 DEF Record
  <2>3. SoundNext(copy, r)
    BY <1>1, <2>2, LoadedNext DEF SoundNext
  <2>4. op[IF Home(r) = None THEN r ELSE Home(r)] = "begin" => BareNext(copy)
    BY <1>1, <2>2, LoadedNext DEF BareNext
  <2>5. CopyOK(r)'
    BY <1>1, <2>1, <2>3, <2>4, CopyAfterLoad
  <2>6. Home(r) # None
    BY <1>1, <1>7, LoadedSound DEF Empty
  <2>7. isLink => op[Home(r)] # "begin"
    BY <1>1, <1>7, <2>6, LoadedSound DEF Bare
  <2>8. PICK c \in Client : c = client[r]
    BY <1>5
  <2>9. Sound(d, c)
    BY <1>1, <2>8, LoadedSound
  <2>10. /\ l \in Request /\ pc[l] \in Answered
         /\ isLink \/ op[l] = "beginLink" => client[l] = client[r]
    BY <1>7, <2>8, <2>9 DEF Sound, Begun, Plain
  <2>11. pc'[l] \in Answered
    BY <2>10 DEF Steady
  <2>12. TakenOK(r)'
    BY <1>1, <1>3, <2>1, <2>6, <2>7, <2>10, <2>11, <1>7 DEF TakenOK
  <2> QED BY <1>2, <1>4, <2>5, <2>12
<1> QED BY <1>6, <1>7

\* Taking a completed login, a passkey login, or an attempt at a code.
LEMMA TakeLoginKeeps ==
  ASSUME IInv, TypeOK', NEW r \in Request,
         TakeCompleted(r) \/ TakePasskey(r) \/ BeginTotpAttempt(r),
         \A l \in Request : Steady(l), \A c \in Client : known[c] \subseteq known'[c]
  PROVE  Alone(r) /\ (CopyOK(r) /\ TakenOK(r) /\ JwtOK(r))'
<1> DEFINE d == Loaded(r)
<1>1. /\ pc[r] = "sent" /\ op[r] \in {"exchange", "passkey", "totp"} /\ taken[r] = None
      /\ jwt[r] = None
  BY DEF TakeCompleted, TakePasskey, BeginTotpAttempt, IInv, CopyOK, JwtOK, Answered
<1>2. Alone(r)
  BY DEF TakeCompleted, TakePasskey, BeginTotpAttempt, LoadAs, Goto, Alone, Same, IInv, TypeOK
<1>3. /\ jwt'[r] = None /\ op' = op /\ client' = client /\ user' = user /\ at' = at
  BY <1>1 DEF TakeCompleted, TakePasskey, BeginTotpAttempt, history
<1>4. JwtOK(r)'
  BY <1>3 DEF JwtOK
<1>5. d \in Record /\ client[r] \in Client
  BY <1>1, LoadedSound
<1>6. PICK c \in Client : c = client[r]
  BY <1>5
<1>7. Sound(d, c)
  BY <1>1, <1>6, LoadedSound
<1> DEFINE Less(copy) == /\ copy.auth \in {d.auth, None}
                         /\ copy.passkey \in {d.passkey, None}
                         /\ copy.totp \in {d.totp, None}
                         /\ copy.link = d.link /\ copy.ext = d.ext
<1>8. PICK copy : LoadAs(r, copy) /\ Less(copy)
  <2>1. \/ LoadAs(r, d)
        \/ LoadAs(r, WithoutCompleted(d))
        \/ LoadAs(r, [d EXCEPT !.passkey = None, !.kind = None])
        \/ LoadAs(r, WithoutTotp(d))
        \/ LoadAs(r, Counted(d))
    BY DEF TakeCompleted, TakePasskey, BeginTotpAttempt
  <2>2. /\ Less(d)
        /\ Less(WithoutCompleted(d))
        /\ Less([d EXCEPT !.passkey = None, !.kind = None])
        /\ Less(WithoutTotp(d))
        /\ Less(Counted(d))
    BY <1>5 DEF WithoutCompleted, WithoutTotp, Counted, Record
  <2> HIDE DEF Less, d
  <2> QED BY <2>1, <2>2
<1>9. pc'[r] \in {"respond", "verify"}
  BY DEF TakeCompleted, TakePasskey, BeginTotpAttempt, Goto, IInv, TypeOK
<1>10. SoundNext(copy, r)
  BY <1>1, <1>8, LoadedNext DEF SoundNext
<1>11. op[IF Home(r) = None THEN r ELSE Home(r)] = "begin" => BareNext(copy)
  BY <1>1, <1>8, LoadedNext DEF BareNext
<1>12. CopyOK(r)'
  BY <1>1, <1>8, <1>9, <1>10, <1>11, CopyAfterLoad
<1>13. CASE taken'[r] = None
  <2>1. pc'[r] = "respond"
    BY <1>13, ConstantsAssumption
    DEF TakeCompleted, TakePasskey, BeginTotpAttempt, Goto, IInv, TypeOK
  <2> QED BY <1>2, <1>4, <1>12, <1>13, <2>1 DEF TakenOK
<1>14. CASE taken'[r] # None
  <2> DEFINE l == taken'[r]
  <2>1. /\ op[r] = "exchange" => l = d.auth
        /\ op[r] = "passkey" => l = d.passkey
        /\ op[r] = "totp" => l = d.totp
    BY <1>1, <1>14 DEF TakeCompleted, TakePasskey, BeginTotpAttempt, IInv, TypeOK
  <2>2. pc'[r] = "verify" => IsWithin(at[l], AgeOf(op[r]))
    BY <1>1, <1>14 DEF TakeCompleted, TakePasskey, BeginTotpAttempt, Goto, AgeOf, IInv, TypeOK
  <2>3. pc'[r] = "verify" /\ op[r] = "passkey" => kind'[r] # None
    <3>1. ASSUME op[r] = "passkey" PROVE kind'[r] = TakenKind(d)
      BY <1>1, <1>14, <3>1 DEF TakeCompleted, TakePasskey, BeginTotpAttempt, IInv, TypeOK
    <3> QED BY <3>1, <1>5, ConstantsAssumption DEF TakenKind, Record, Kind
  <2>4. l \in Request /\ pc[l] \in Answered /\ client[l] = client[r]
    BY <1>1, <1>6, <1>7, <1>14, <2>1 DEF Sound, Completed, Awaits, Begun
  <2>5. /\ op[r] = "exchange" => ~Needs(l)
        /\ op[r] \in {"passkey", "totp"} => Second[user[l]] = op[r]
    BY <1>1, <1>6, <1>7, <1>14, <2>1 DEF Sound, Completed, Awaits
  <2>6. pc'[l] \in Answered
    BY <2>4 DEF Steady
  <2>7. pc'[r] = "verify" => at[r] - at[l] <= AgeOf(op[r])
    <3>1. at[r] \in Int /\ at[l] \in Int /\ now \in Int /\ AgeOf(op[r]) \in Int /\ at[r] <= now
      BY <2>4, ConstantsAssumption DEF IInv, TypeOK, Past, AgeOf
    <3> QED BY <2>2, <3>1 DEF IsWithin
  <2> HIDE DEF l
  <2>9. taken'[r] = l
    BY DEF l
  <2>10. TakenOK(r)'
    BY <1>1, <1>3, <1>9, <1>14, <2>3, <2>4, <2>5, <2>6, <2>7, <2>9 DEF TakenOK, Needs, AgeOf
  <2> QED BY <1>2, <1>4, <1>12, <2>10
<1> QED BY <1>13, <1>14

\* A new session id with the step on it.
LEMMA ElevateKeeps ==
  ASSUME IInv, TypeOK', NEW r \in Request, Elevate(r),
         \A l \in Request : Steady(l), \A c \in Client : known[c] \subseteq known'[c]
  PROVE  Alone(r) /\ (CopyOK(r) /\ TakenOK(r) /\ JwtOK(r))'
<1>1. /\ pc[r] = "elevate" /\ pc'[r] = "respond" /\ sid'[r] = None /\ jwt'[r] = None
      /\ rec'[r] = WithStep(r, rec[r])
  BY DEF Elevate, CycleId, Goto, IInv, TypeOK, JwtOK, Answered
<1>2. Alone(r)
  BY DEF Elevate, CycleId, Goto, Alone, Same, IInv, TypeOK
<1>3. /\ op[r] \in FirstFactor \cup {"beginLink"} /\ client[r] \in Client
      /\ op[r] \in FirstFactor => user[r] \in User
      /\ op'[r] = op[r] /\ client'[r] = client[r] /\ user'[r] = user[r]
      /\ taken' = taken /\ op' = op /\ client' = client
  BY <1>1 DEF IInv, TakenOK, CopyOK, Elevate
<1>4. JwtOK(r)'
  BY <1>1 DEF JwtOK
<1>5. TakenOK(r)'
  <2>1. CASE taken[r] = None
    BY <1>1, <1>3, <2>1 DEF TakenOK
  <2>2. CASE taken[r] # None
    <3>1. TakenOK(r) /\ taken[r] \in Request
      BY <2>2 DEF IInv, TypeOK
    <3>2. pc'[taken[r]] \in Answered
      BY <2>2, <3>1 DEF TakenOK, Steady
    <3> QED BY <1>1, <1>3, <2>2, <3>1, <3>2 DEF TakenOK, FirstFactor
  <2> QED BY <2>1, <2>2
<1>6. CopyOK(r)'
  <2> DEFINE d == rec[r]
             e == rec'[r]
  <2>1. d \in Record
    BY DEF IInv, TypeOK
  <2>2. SoundNext(d, r)
    BY <1>1, CopyNext
  <2>3. \A c \in Client : client[r] = c => r \in Begun(c)'
    BY <1>1, <1>3 DEF Begun, Answered
  <2>4. CASE op[r] = "beginLink"
    <3>1. e = [d EXCEPT !.link = r]
      BY <1>1, <2>4 DEF WithStep, WithLink
    <3>2. /\ e.auth = d.auth /\ e.passkey = d.passkey /\ e.totp = d.totp /\ e.ext = d.ext
          /\ e.link = r
      BY <2>1, <3>1 DEF Record
    <3> QED BY <1>1, <1>3, <2>2, <2>3, <2>4, <3>2 DEF CopyOK, Sound, SoundNext, IdOf, FirstFactor
  <2>5. CASE op[r] # "beginLink" /\ ~NeedsSecondFactor(r)
    <3>1. e = [d EXCEPT !.auth = r]
      BY <1>1, <2>5 DEF WithStep, WithCompleted
    <3>2. /\ e.link = d.link /\ e.passkey = d.passkey /\ e.totp = d.totp /\ e.ext = d.ext
          /\ e.auth = r
      BY <2>1, <3>1 DEF Record
    <3>3. \A c \in Client : client[r] = c => r \in Completed(c)'
      BY <1>3, <2>3, <2>5 DEF Completed, NeedsSecondFactor, KindOf, Needs
    <3> QED BY <1>1, <1>3, <2>2, <2>5, <3>2, <3>3 DEF CopyOK, Sound, SoundNext, IdOf, FirstFactor
  <2>6. CASE op[r] # "beginLink" /\ NeedsSecondFactor(r)
    <3>1. user[r] \in User /\ Second[user[r]] \in {"passkey", "totp"}
      BY <1>3, <2>6, ConstantsAssumption DEF NeedsSecondFactor
    <3>3. e = IF Second[user[r]] = "passkey" THEN WithPasskeyLogin(r, d) ELSE WithTotpLogin(r, d)
      BY <1>1, <2>6 DEF WithStep
    <3>4. /\ e.link = d.link /\ e.auth = d.auth /\ e.ext = d.ext
          /\ e.passkey = IF Second[user[r]] = "passkey" THEN r ELSE d.passkey
          /\ e.totp = IF Second[user[r]] = "passkey" THEN d.totp ELSE r
      BY <2>1, <3>3 DEF WithPasskeyLogin, WithTotpLogin, Record
    <3>5. /\ Second[user[r]] = "passkey" =>
               \A c \in Client : client[r] = c => r \in Awaits(c, "passkey")'
          /\ Second[user[r]] # "passkey" =>
               \A c \in Client : client[r] = c => r \in Awaits(c, "totp")'
      BY <1>3, <2>3, <3>1 DEF Awaits
    <3>6. SoundNext(e, r)
      BY <2>2, <3>4, <3>5 DEF SoundNext
    <3> QED BY <1>1, <1>3, <2>6, <3>6 DEF CopyOK, Sound, SoundNext, IdOf, FirstFactor
  <2> QED BY <2>4, <2>5, <2>6
<1> QED BY <1>2, <1>4, <1>5, <1>6

\* Requests that go on with what they took, or are refused.
LEMMA VerifyKeeps ==
  ASSUME IInv, TypeOK', NEW r \in Request,
         \/ SaveTaken(r) \/ StartLink(r) \/ CallbackRefused(r) \/ LinkCallback(r)
         \/ LoginCallback(r) \/ ExchangeForJwt(r) \/ CompletePasskey(r) \/ CompleteTotp(r),
         \A l \in Request : Steady(l), \A c \in Client : known[c] \subseteq known'[c]
  PROVE  Alone(r) /\ (CopyOK(r) /\ TakenOK(r) /\ JwtOK(r))'
<1> USE DEF Goto
<1>1. /\ pc[r] \in {"save", "verify"} /\ jwt[r] = None /\ taken[r] # None
      /\ taken[r] \in Request /\ pc[taken[r]] \in Answered
  BY DEF SaveTaken, StartLink, CallbackRefused, LinkCallback, LoginCallback, ExchangeForJwt,
     CompletePasskey, CompleteTotp, IInv, TypeOK, TakenOK, JwtOK, Answered
<1>2. Alone(r)
  BY DEF SaveTaken, StartLink, CallbackRefused, LinkCallback, LoginCallback, ExchangeForJwt,
     CompletePasskey, CompleteTotp, Answer, Refuse, Alone, Same, session, IInv, TypeOK
<1>3. /\ op' = op /\ client' = client /\ user' = user /\ at' = at /\ taken' = taken
      /\ kind' = kind /\ sid' = sid
  BY DEF SaveTaken, StartLink, CallbackRefused, LinkCallback, LoginCallback, ExchangeForJwt,
     CompletePasskey, CompleteTotp, session
<1>4. /\ pc'[r] \in {"verify", "elevate", "respond", "respondError"}
      /\ pc'[r] = "verify" => SaveTaken(r)
      /\ pc'[r] = "elevate" => op[r] = "callback"
  BY DEF SaveTaken, StartLink, CallbackRefused, LinkCallback, LoginCallback, ExchangeForJwt,
     CompletePasskey, CompleteTotp, Answer, Refuse, IInv, TypeOK
<1>5. pc'[taken[r]] \in Answered
  BY <1>1 DEF Steady
<1>6. pc[r] = "save" => op[r] \in {"startLink", "callback"}
  BY DEF IInv, TakenOK
<1>7. TakenOK(r)'
  <2>1. TakenOK(r)
    BY DEF IInv
  <2>2. pc'[r] = "verify" => pc[r] = "save" /\ op[r] \in {"startLink", "callback"}
    BY <1>4, <1>6 DEF SaveTaken
  <2> QED BY <1>1, <1>3, <1>4, <1>5, <2>1, <2>2 DEF TakenOK, FirstFactor, Needs
<1>8. JwtOK(r)'
  <2>1. CASE jwt'[r] = None
    BY <2>1 DEF JwtOK
  <2>2. CASE jwt'[r] # None
    <3>1. /\ op[r] \in {"exchange", "passkey", "totp"} /\ pc[r] = "verify"
          /\ jwt'[r] = taken[r] /\ pc'[r] \in Answered
      BY <1>1, <2>2 DEF SaveTaken, StartLink, CallbackRefused, LinkCallback, LoginCallback,
         ExchangeForJwt, CompletePasskey, CompleteTotp, Answer, IInv, TypeOK, Answered, history
    <3>2. TakenOK(r)
      BY DEF IInv
    <3>3. /\ client[taken[r]] = client[r]
          /\ Needs(taken[r]) => op[r] = Second[user[taken[r]]]
          /\ at[r] - at[taken[r]] <= AgeOf(op[r])
      BY <1>1, <3>1, <3>2 DEF TakenOK
    <3> QED BY <1>3, <1>5, <3>1, <3>3 DEF JwtOK, MayGet, Needs, AgeOf
  <2> QED BY <2>1, <2>2
<1>9. CopyOK(r)'
  <2> DEFINE d == rec[r]
             e == rec'[r]
  <2>1. d \in Record /\ SoundNext(d, r) /\ (op[IdOf(r)] = "begin" => BareNext(d))
    BY <1>1, CopyNext DEF IInv, TypeOK
  <2>2. CASE e = d
    BY <1>1, <1>3, <1>4, <2>1, <2>2, CopyAfterChange
  <2>3. CASE op[r] = "startLink" /\ e = [d EXCEPT !.ext = taken[r]]
    <3>1. /\ e.auth = d.auth /\ e.passkey = d.passkey /\ e.totp = d.totp
          /\ e.link = d.link /\ e.ext = taken[r]
      BY <2>1, <2>3 DEF Record
    <3>2. client[taken[r]] = client[r] /\ op[IdOf(r)] # "begin"
      BY <1>1, <2>3 DEF IInv, TakenOK, IdOf
    <3>3. \A c \in Client : client[r] = c => taken[r] \in Begun(c)'
      BY <1>1, <1>3, <1>5, <3>2 DEF Begun
    <3>4. SoundNext(e, r)
      BY <2>1, <3>1, <3>3 DEF SoundNext
    <3> QED BY <1>1, <1>3, <1>4, <3>2, <3>4, CopyAfterChange
  <2>4. CASE e = WithoutTotp(d)
    <3>1. /\ e.auth = d.auth /\ e.passkey = d.passkey /\ e.totp = None
          /\ e.link = d.link /\ e.ext = d.ext
      BY <2>1, <2>4 DEF WithoutTotp, Record
    <3>2. SoundNext(e, r)
      BY <2>1, <3>1 DEF SoundNext
    <3>3. op[IdOf(r)] = "begin" => BareNext(e)
      BY <2>1, <3>1 DEF BareNext
    <3> QED BY <1>1, <1>3, <1>4, <3>2, <3>3, CopyAfterChange
  <2>5. \/ e = d
        \/ op[r] = "startLink" /\ e = [d EXCEPT !.ext = taken[r]]
        \/ e = WithoutTotp(d)
    BY DEF SaveTaken, StartLink, CallbackRefused, LinkCallback, LoginCallback, ExchangeForJwt,
       CompletePasskey, CompleteTotp, session, IInv, TypeOK
  <2> QED BY <2>2, <2>3, <2>4, <2>5
<1> QED BY <1>2, <1>7, <1>8, <1>9

\* Requests that are over hold nothing.
LEMMA EndKeeps ==
  ASSUME IInv, TypeOK', NEW r \in Request, Respond(r) \/ Drop(r), \A l \in Request : Steady(l)
  PROVE  Alone(r) /\ (CopyOK(r) /\ TakenOK(r) /\ JwtOK(r))'
<1>1. /\ pc[r] # "idle" /\ pc'[r] = "done" /\ sid'[r] = None /\ taken'[r] = None
      /\ rec'[r] = Empty /\ jwt'[r] = None
  BY DEF Respond, Drop, Goto, IInv, TypeOK
<1>2. Alone(r)
  BY DEF Respond, Drop, Goto, Alone, Same, IInv, TypeOK
<1>3. CopyOK(r)'
  BY <1>1, CopyAfterEnd
<1> QED BY <1>1, <1>2, <1>3 DEF TakenOK, JwtOK

----------------------------------------------------------------------------
(* Types *)

\* The fields of a record are of their types whatever is put there.
LEMMA RecordTypes ==
  ASSUME TypeOK, NEW d \in Record, NEW r \in Request
  PROVE  /\ Empty \in Record
         /\ WithoutCompleted(d) \in Record
         /\ WithoutTotp(d) \in Record
         /\ [d EXCEPT !.passkey = None, !.kind = None] \in Record
         /\ [d EXCEPT !.link = None] \in Record
         /\ [d EXCEPT !.ext = None] \in Record
         /\ \A l \in Request : [d EXCEPT !.ext = l] \in Record
         /\ ~Exhausted(d) => Counted(d) \in Record
         /\ WithStep(r, d) \in Record
         /\ TakenKind(d) \in Kind
<1>1. Empty \in Record
  BY ConstantsAssumption DEF Empty, Record
<1>2. WithoutCompleted(d) \in Record
  BY DEF WithoutCompleted, Record
<1> DEFINE Count == 0..MaxTotpAttempts
<1>c. /\ 0 \in Count
      /\ Record = [auth : Request \cup {None}, passkey : Request \cup {None},
                   totp : Request \cup {None}, attempts : Count, kind : Kind \cup {None},
                   ext : Request \cup {None}, link : Request \cup {None}]
  BY ConstantsAssumption DEF Record
<1> HIDE DEF Count
<1>3. WithoutTotp(d) \in Record
  BY <1>c DEF WithoutTotp
<1>4. /\ [d EXCEPT !.passkey = None, !.kind = None] \in Record
      /\ [d EXCEPT !.link = None] \in Record
      /\ [d EXCEPT !.ext = None] \in Record
      /\ \A l \in Request : [d EXCEPT !.ext = l] \in Record
  BY DEF Record
<1>5. ~Exhausted(d) => Counted(d) \in Record
  BY ConstantsAssumption DEF Counted, Exhausted, Record
<1>6. WithStep(r, d) \in Record
  <2>1. WithLink(r, d) \in Record /\ WithCompleted(r, d) \in Record
    BY DEF WithLink, WithCompleted, Record
  <2>2. WithPasskeyLogin(r, d) \in Record
    BY DEF WithPasskeyLogin, KindOf, Kind, Record
  <2>3. WithTotpLogin(r, d) \in Record
    BY <1>c DEF WithTotpLogin, KindOf, Kind
  <2> QED BY <2>1, <2>2, <2>3 DEF WithStep
<1>7. TakenKind(d) \in Kind
  <2>1. d.kind \in Kind \cup {None}
    BY DEF Record
  <2> QED BY <2>1 DEF TakenKind, Kind
<1> QED BY <1>1, <1>2, <1>3, <1>4, <1>5, <1>6, <1>7

LEMMA LoadTypes ==
  ASSUME TypeOK, NEW r \in Request, NEW copy \in Record, LoadAs(r, copy)
  PROVE  /\ sid' \in [Request -> Request \cup {None}]
         /\ rec' \in [Request -> Record]
         /\ modified' \in [Request -> BOOLEAN]
<1>1. sid' \in [Request -> Request \cup {None}] /\ rec' \in [Request -> Record]
  BY DEF LoadAs, TypeOK
<1>2. modified' \in [Request -> BOOLEAN]
  <2>1. modified' = [modified EXCEPT ![r] = copy # Loaded(r)] /\ modified \in [Request -> BOOLEAN]
    BY DEF LoadAs, TypeOK
  <2>2. PICK b \in BOOLEAN : modified' = [modified EXCEPT ![r] = b]
    BY <2>1, Zenon
  <2> QED BY <2>1, <2>2
<1> QED BY <1>1, <1>2

\* Steps that load the session.
LEMMA TypeStepLoad ==
  ASSUME IInv, NEW r \in Request,
         \/ LoginLocal(r) \/ ExchangeExternal(r) \/ BeginLink(r) \/ BeginExternal(r)
         \/ TakeLink(r) \/ TakeLogin(r) \/ TakeCompleted(r) \/ TakePasskey(r)
         \/ BeginTotpAttempt(r)
  PROVE  TypeOK'
<1> DEFINE d == Loaded(r)
<1> USE DEF Goto
<1>1. TypeOK /\ pc[r] = "sent" /\ d \in Record
  BY LoadedSound DEF IInv, LoginLocal, ExchangeExternal, BeginLink, BeginExternal, TakeLink,
     TakeLogin, TakeCompleted, TakePasskey, BeginTotpAttempt
<1>2. CASE LoginLocal(r) \/ ExchangeExternal(r)
  <2>1. FirstFactorPassed(r)
    BY <1>2 DEF LoginLocal, ExchangeExternal
  <2>2. /\ sid' \in [Request -> Request \cup {None}] /\ rec' \in [Request -> Record]
        /\ modified' \in [Request -> BOOLEAN]
    BY <1>1, <2>1, LoadTypes DEF FirstFactorPassed, session, TypeOK
  <2>3. /\ pc' \in [Request -> PC] /\ jwt' \in [Request -> Request \cup {None}]
        /\ recorded' \subseteq Request \X Kind
    BY <1>1, <2>1 DEF FirstFactorPassed, Refuse, PC, KindOf, Kind, TypeOK
  <2> QED BY <1>1, <2>1, <2>2, <2>3 DEF FirstFactorPassed, TypeOK
<1>3. CASE BeginLink(r)
  <2>1. /\ sid' \in [Request -> Request \cup {None}] /\ rec' \in [Request -> Record]
        /\ modified' \in [Request -> BOOLEAN]
    BY <1>1, <1>3, LoadTypes DEF BeginLink, session, TypeOK
  <2> QED BY <1>1, <1>3, <2>1 DEF BeginLink, Refuse, PC, TypeOK, history
<1>4. CASE BeginExternal(r)
  <2>1. /\ sid' \in [Request -> Request \cup {None}] /\ rec' \in [Request -> Record]
        /\ modified' \in [Request -> BOOLEAN]
    BY <1>1, <1>4, LoadTypes, RecordTypes DEF BeginExternal
  <2> QED BY <1>1, <1>4, <2>1 DEF BeginExternal, PC, TypeOK, history
<1>5. CASE TakeLink(r) \/ TakeLogin(r)
  <2>1. PICK l \in Request \cup {None}, copy \in Record : TakeStep(r, l, copy)
    <3>1. /\ d.link \in Request \cup {None} /\ d.ext \in Request \cup {None}
          /\ [d EXCEPT !.link = None] \in Record /\ [d EXCEPT !.ext = None] \in Record
      BY <1>1 DEF Record
    <3> HIDE DEF d
    <3> QED BY <1>5, <3>1 DEF TakeLink, TakeLogin, d
  <2>2. /\ sid' \in [Request -> Request \cup {None}] /\ rec' \in [Request -> Record]
        /\ modified' \in [Request -> BOOLEAN]
    BY <1>1, <2>1, LoadTypes DEF TakeStep
  <2> QED BY <1>1, <2>1, <2>2 DEF TakeStep, PC, TypeOK, history
<1>6. CASE TakeCompleted(r)
  <2>1. /\ sid' \in [Request -> Request \cup {None}] /\ rec' \in [Request -> Record]
        /\ modified' \in [Request -> BOOLEAN]
    BY <1>1, <1>6, LoadTypes, RecordTypes DEF TakeCompleted
  <2>2. d.auth \in Request \cup {None}
    BY <1>1 DEF Record
  <2>3. pc' \in [Request -> PC] /\ taken' \in [Request -> Request \cup {None}]
    BY <1>1, <1>6, <2>2 DEF TakeCompleted, PC, TypeOK
  <2> QED BY <1>1, <1>6, <2>1, <2>3 DEF TakeCompleted, TypeOK, history
<1>7. CASE TakePasskey(r)
  <2>1. /\ sid' \in [Request -> Request \cup {None}] /\ rec' \in [Request -> Record]
        /\ modified' \in [Request -> BOOLEAN]
    BY <1>1, <1>7, LoadTypes, RecordTypes DEF TakePasskey
  <2>2. d.passkey \in Request \cup {None} /\ TakenKind(d) \in Kind
    BY <1>1, RecordTypes DEF Record
  <2>3. /\ pc' \in [Request -> PC] /\ taken' \in [Request -> Request \cup {None}]
        /\ kind' \in [Request -> Kind \cup {None}]
    BY <1>1, <1>7, <2>2 DEF TakePasskey, PC, TypeOK
  <2> QED BY <1>1, <1>7, <2>1, <2>3 DEF TakePasskey, TypeOK, history
<1>8. CASE BeginTotpAttempt(r)
  <2>1. /\ sid' \in [Request -> Request \cup {None}] /\ rec' \in [Request -> Record]
        /\ modified' \in [Request -> BOOLEAN]
    BY <1>1, <1>8, LoadTypes, RecordTypes DEF BeginTotpAttempt
  <2>2. d.totp \in Request \cup {None}
    BY <1>1 DEF Record
  <2>3. pc' \in [Request -> PC] /\ taken' \in [Request -> Request \cup {None}]
    BY <1>1, <1>8, <2>2 DEF BeginTotpAttempt, PC, TypeOK
  <2> QED BY <1>1, <1>8, <2>1, <2>3 DEF BeginTotpAttempt, TypeOK, history
<1> QED BY <1>2, <1>3, <1>4, <1>5, <1>6, <1>7, <1>8

\* Every other step of a request.
LEMMA TypeStepRequest ==
  ASSUME IInv, NEW r \in Request,
         \/ Elevate(r) \/ SaveTaken(r) \/ StartLink(r) \/ CallbackRefused(r)
         \/ LinkCallback(r) \/ LoginCallback(r) \/ ExchangeForJwt(r)
         \/ CompletePasskey(r) \/ CompleteTotp(r) \/ Respond(r) \/ Drop(r) \/ Forget(r)
  PROVE  TypeOK'
<1> USE DEF Goto
<1>1. TypeOK /\ TakenOK(r) /\ rec[r] \in Record
  BY DEF IInv, TypeOK
<1>2. CASE Elevate(r)
  <2>1. rec' \in [Request -> Record] /\ modified' \in [Request -> BOOLEAN]
    BY <1>1, <1>2, RecordTypes DEF Elevate, TypeOK
  <2>2. store' \in [Request -> Record \cup {None}] /\ sid' \in [Request -> Request \cup {None}]
    BY <1>1, <1>2 DEF Elevate, CycleId, TypeOK
  <2>3. /\ recorded' \subseteq Request \X Kind /\ pc' \in [Request -> PC]
        /\ at' \in [Request -> 0..MaxTime]
    BY <1>1, <1>2 DEF Elevate, KindOf, Kind, PC, TypeOK
  <2> QED BY <1>1, <1>2, <2>1, <2>2, <2>3 DEF Elevate, TypeOK
<1>3. CASE SaveTaken(r)
  <2>1. store' \in [Request -> Record \cup {None}]
    BY <1>1, <1>3 DEF SaveTaken, TypeOK
  <2> QED BY <1>1, <1>3, <2>1 DEF SaveTaken, PC, TypeOK, session, history
<1>4. CASE StartLink(r)
  <2>1. taken[r] \in Request
    BY <1>1, <1>4 DEF StartLink, TakenOK, TypeOK
  <2>2. rec' \in [Request -> Record]
    <3>1. [rec[r] EXCEPT !.ext = taken[r]] \in Record
      BY <1>1, <2>1 DEF Record
    <3>2. rec' = rec \/ rec' = [rec EXCEPT ![r] = [rec[r] EXCEPT !.ext = taken[r]]]
      BY <1>4 DEF StartLink
    <3> QED BY <1>1, <3>1, <3>2 DEF TypeOK
  <2> QED BY <1>1, <1>4, <2>2 DEF StartLink, Refuse, PC, TypeOK, history
<1>5. CASE CallbackRefused(r) \/ LoginCallback(r)
  BY <1>1, <1>5 DEF CallbackRefused, LoginCallback, Refuse, PC, TypeOK, session, history
<1>6. CASE LinkCallback(r)
  <2>1. taken[r] \in Request
    BY <1>1, <1>6 DEF LinkCallback, TakenOK, TypeOK
  <2> QED BY <1>1, <1>6, <2>1 DEF LinkCallback, PC, TypeOK, session
<1>7. CASE ExchangeForJwt(r)
  BY <1>1, <1>7 DEF ExchangeForJwt, Answer, Refuse, PC, TypeOK, session, history
<1>8. CASE CompletePasskey(r)
  <2>1. taken[r] \in Request /\ kind[r] \in Kind
    BY <1>1, <1>8 DEF CompletePasskey, TakenOK, TypeOK
  <2> QED BY <1>1, <1>8, <2>1 DEF CompletePasskey, Answer, Refuse, PC, TypeOK, session
<1>9. CASE CompleteTotp(r)
  <2>1. taken[r] \in Request /\ TakenKind(rec[r]) \in Kind /\ WithoutTotp(rec[r]) \in Record
    BY <1>1, <1>9, RecordTypes DEF CompleteTotp, TakenOK, TypeOK
  <2>2. rec' \in [Request -> Record]
    BY <1>1, <1>9, <2>1 DEF CompleteTotp, TypeOK
  <2>3. /\ recorded' \subseteq Request \X Kind /\ pc' \in [Request -> PC]
        /\ jwt' \in [Request -> Request \cup {None}]
    BY <1>1, <1>9, <2>1 DEF CompleteTotp, Answer, Refuse, PC, TypeOK
  <2> QED BY <1>1, <1>9, <2>2, <2>3 DEF CompleteTotp, TypeOK
<1>10. CASE Respond(r)
  <2>1. client[r] \in Client /\ IdOf(r) \in Request
    BY <1>10 DEF Respond, IInv, CopyOK, IdOf, TypeOK
  <2>2. /\ store' \in [Request -> Record \cup {None}]
        /\ jar' \in [Client -> Request \cup {None}] /\ known' \in [Client -> SUBSET Request]
    BY <1>1, <1>10, <2>1 DEF Respond, IdOf, TypeOK
  <2>3. issued' \subseteq Request \X Request /\ refusals' \subseteq Request \X Request
    BY <1>1, <1>10 DEF Respond, TypeOK
  <2>4. /\ rec' \in [Request -> Record] /\ sid' \in [Request -> Request \cup {None}]
        /\ taken' \in [Request -> Request \cup {None}] /\ kind' \in [Request -> Kind \cup {None}]
        /\ jwt' \in [Request -> Request \cup {None}] /\ pc' \in [Request -> PC]
    BY <1>1, <1>10, RecordTypes DEF Respond, PC, TypeOK
  <2>5. modified' \in [Request -> BOOLEAN]
    BY <1>1, <1>10 DEF Respond, TypeOK
  <2> QED BY <1>1, <1>10, <2>2, <2>3, <2>4, <2>5 DEF Respond, TypeOK
<1>11. CASE Drop(r)
  <2>1. /\ rec' \in [Request -> Record] /\ sid' \in [Request -> Request \cup {None}]
        /\ taken' \in [Request -> Request \cup {None}] /\ kind' \in [Request -> Kind \cup {None}]
        /\ jwt' \in [Request -> Request \cup {None}] /\ pc' \in [Request -> PC]
    BY <1>1, <1>11, RecordTypes DEF Drop, PC, TypeOK
  <2>2. modified' \in [Request -> BOOLEAN]
    BY <1>1, <1>11 DEF Drop, TypeOK
  <2> QED BY <1>1, <1>11, <2>1, <2>2 DEF Drop, TypeOK, history
<1>12. CASE Forget(r)
  BY <1>1, <1>12 DEF Forget, TypeOK, session, history
<1> QED BY <1>2, <1>3, <1>4, <1>5, <1>6, <1>7, <1>8, <1>9, <1>10, <1>11, <1>12

LEMMA TypeStep ==
  ASSUME IInv, [Next]_vars
  PROVE  TypeOK'
<1>1. TypeOK
  BY DEF IInv
<1>2. CASE UNCHANGED vars
  BY <1>1, <1>2 DEF TypeOK, vars, session, history
<1>3. ASSUME NEW r \in Request, NEW c \in Client, NEW o \in Ops, NEW u \in User \cup {None},
             Send(r, c, o, u)
      PROVE  TypeOK'
  <2>1. o \in AllOps /\ now \in 0..MaxTime /\ jar[c] \in Request \cup {None}
    BY <1>1, ConstantsAssumption DEF TypeOK
  <2>2. /\ pc' \in [Request -> PC] /\ op' \in [Request -> AllOps \cup {None}]
        /\ client' \in [Request -> Client \cup {None}]
        /\ user' \in [Request -> User \cup {None}] /\ at' \in [Request -> 0..MaxTime]
        /\ sid' \in [Request -> Request \cup {None}]
    BY <1>1, <1>3, <2>1 DEF Send, Goto, PC, TypeOK
  <2> QED BY <1>1, <1>3, <2>2 DEF Send, TypeOK, history
<1>4. ASSUME NEW r \in Request, Handle(r) \/ Drop(r) \/ Forget(r) PROVE TypeOK'
  BY <1>4, TypeStepLoad, TypeStepRequest DEF Handle
<1>5. ASSUME NEW c \in Client, NEW d \in Client, Plant(c, d) PROVE TypeOK'
  BY <1>1, <1>5 DEF Plant, TypeOK, session, history
<1>6. CASE Tick
  <2>1. now' \in 0..MaxTime
    BY <1>1, <1>6, ConstantsAssumption DEF Tick, TypeOK
  <2> QED BY <1>1, <1>6, <2>1 DEF Tick, TypeOK, session, history
<1> QED BY <1>2, <1>3, <1>4, <1>5, <1>6 DEF Next

----------------------------------------------------------------------------
(* The store, the ids and the history *)

\* The id a copy is saved under is known to its browser only, or the copy
\* holds no step.
LEMMA SaveKeeps ==
  ASSUME IInv, NEW r \in Request, pc[r] # "idle", \A l \in Request : Steady(l),
         sid[r] = None => pc'[r] = "done"
  PROVE  /\ IdOf(r) \in Request
         /\ pc'[IdOf(r)] = "done"
         /\ op'[IdOf(r)] # "begin" => client'[IdOf(r)] = client[r]
         /\ \A c \in Client : client'[IdOf(r)] = c =>
              /\ rec[r].auth \in Completed(c)' \cup {None}
              /\ rec[r].passkey \in Awaits(c, "passkey")' \cup {None}
              /\ rec[r].totp \in Awaits(c, "totp")' \cup {None}
              /\ rec[r].link \in Begun(c)' \cup {None}
              /\ rec[r].ext \in Begun(c)' \cup Plain' \cup {None}
         /\ op'[IdOf(r)] = "begin" => BareNext(rec[r])
<1>1. CopyOK(r) /\ client[r] \in Client
  BY DEF IInv, CopyOK
<1>2. /\ SoundNext(rec[r], r) /\ (op'[IdOf(r)] = "begin" => BareNext(rec[r]))
  BY CopyNext
<1>3. CASE sid[r] = None
  <2>1. IdOf(r) = r /\ client'[r] = client[r]
    BY <1>3 DEF IdOf, Steady
  <2> QED BY <1>1, <1>2, <1>3, <2>1 DEF SoundNext
<1>4. CASE sid[r] # None
  <2>1. IdOf(r) = sid[r] /\ sid[r] \in Request /\ sid[r] \in known[client[r]]
    BY <1>1, <1>4 DEF IdOf, IInv, TypeOK, CopyOK
  <2>2. pc[sid[r]] = "done" /\ (op[sid[r]] # "begin" => client[sid[r]] = client[r])
    BY <1>1, <2>1 DEF IInv, IdsOK
  <2>3. /\ pc'[sid[r]] = "done" /\ op'[sid[r]] = op[sid[r]]
        /\ client'[sid[r]] = client[sid[r]]
    BY <2>1, <2>2 DEF Steady
  <2>4. CASE op[sid[r]] = "begin"
    BY <1>2, <2>1, <2>2, <2>3, <2>4 DEF BareNext
  <2>5. CASE op[sid[r]] # "begin"
    BY <1>1, <1>2, <2>1, <2>2, <2>3, <2>5 DEF SoundNext
  <2> QED BY <2>4, <2>5
<1> QED BY <1>3, <1>4

LEMMA StoreStep ==
  ASSUME IInv, TypeOK', [Next]_vars, \A l \in Request : Steady(l)
  PROVE  StoreOK'
<1>1. ASSUME \A i \in Request : store'[i] \in {store[i], None} PROVE StoreOK'
  BY <1>1, StoreKept DEF StoreOK
<1>2. ASSUME NEW r \in Request, pc[r] # "idle", sid[r] = None => pc'[r] = "done",
             store' = [store EXCEPT ![IdOf(r)] = rec[r]]
      PROVE  StoreOK'
  <2>1. IdOf(r) \in Request
    BY <1>2, SaveKeeps
  <2>2. \A i \in Request : store'[i] = IF i = IdOf(r) THEN rec[r] ELSE store[i]
    BY <1>2, <2>1 DEF IInv, TypeOK
  <2>3. PICK n \in Request : n = IdOf(r)
    BY <2>1
  <2>4. store'[n] = rec[r]
    BY <2>2, <2>3
  <2>5. \A c \in Client : client'[n] = c => Sound(store[n], c)'
    BY <1>2, <2>3, <2>4, SaveKeeps DEF Sound
  <2>6. op'[n] = "begin" => Bare(store[n])'
    BY <1>2, <2>3, <2>4, SaveKeeps DEF BareNext, Bare
  <2>7. pc'[n] = "done"
    BY <1>2, <2>3, SaveKeeps
  <2>8. \A i \in Request : i # n => store'[i] = store[i]
    BY <2>2, <2>3
  <2>9. ASSUME NEW i \in Request, store'[i] # None
        PROVE (/\ pc[i] = "done"
               /\ \A c \in Client : client[i] = c => Sound(store[i], c)
               /\ op[i] = "begin" => Bare(store[i]))'
    <3>1. CASE i = n
      BY <2>5, <2>6, <2>7, <3>1
    <3>2. CASE i # n
      BY <2>8, <2>9, <3>2, StoreKept
    <3> QED BY <3>1, <3>2
  <2> QED BY <2>9 DEF StoreOK
<1>3. ASSUME NEW r \in Request, Handle(r)
      PROVE  \/ \A i \in Request : store'[i] \in {store[i], None}
             \/ /\ pc[r] # "idle" /\ (sid[r] = None => pc'[r] = "done")
                /\ store' = [store EXCEPT ![IdOf(r)] = rec[r]]
  <2>1. CASE SaveTaken(r)
    BY <2>1 DEF SaveTaken, IInv, TakenOK, IdOf
  <2>2. CASE Respond(r)
    BY <2>2 DEF Respond, IdOf, Goto, IInv, TypeOK
  <2>3. CASE Elevate(r)
    BY <2>3 DEF Elevate, CycleId, IInv, TypeOK
  <2>4. CASE \/ LoginLocal(r) \/ ExchangeExternal(r) \/ BeginLink(r) \/ BeginExternal(r)
             \/ TakeLink(r) \/ TakeLogin(r) \/ TakeCompleted(r) \/ TakePasskey(r)
             \/ BeginTotpAttempt(r) \/ StartLink(r) \/ CallbackRefused(r) \/ LinkCallback(r)
             \/ LoginCallback(r) \/ ExchangeForJwt(r) \/ CompletePasskey(r) \/ CompleteTotp(r)
    BY <2>4 DEF LoginLocal, ExchangeExternal, FirstFactorPassed, BeginLink, BeginExternal,
       TakeLink, TakeLogin, TakeStep, TakeCompleted, TakePasskey, BeginTotpAttempt, StartLink,
       CallbackRefused, LinkCallback, LoginCallback, ExchangeForJwt, CompletePasskey, CompleteTotp
  <2> QED BY <1>3, <2>1, <2>2, <2>3, <2>4 DEF Handle
<1>4. ASSUME NEW r \in Request, Forget(r) PROVE \A i \in Request : store'[i] \in {store[i], None}
  BY <1>4 DEF Forget, IInv, TypeOK
<1>5. CASE UNCHANGED store
  BY <1>1, <1>5
<1>6. \/ UNCHANGED store
      \/ \E r \in Request : Handle(r) \/ Forget(r)
  BY DEF Next, Send, Drop, Plant, Tick, vars
<1> QED BY <1>1, <1>2, <1>3, <1>4, <1>5, <1>6

\* Which handlers write the cookies, the history and the times.
LEMMA Writers ==
  ASSUME NEW r \in Request, Handle(r)
  PROVE  /\ Respond(r) \/ UNCHANGED <<jar, known, issued>>
         /\ LinkCallback(r) \/ UNCHANGED linked
         /\ Elevate(r) \/ UNCHANGED at
         /\ UNCHANGED now
<1>1. CASE LoginLocal(r) \/ ExchangeExternal(r) \/ BeginLink(r) \/ Elevate(r)
  BY <1>1 DEF LoginLocal, ExchangeExternal, FirstFactorPassed, BeginLink, Elevate, history
<1>2. CASE BeginExternal(r) \/ TakeLink(r) \/ TakeLogin(r) \/ SaveTaken(r) \/ StartLink(r)
  BY <1>2 DEF BeginExternal, TakeLink, TakeLogin, TakeStep, SaveTaken, StartLink, history
<1>3. CASE CallbackRefused(r) \/ LinkCallback(r) \/ LoginCallback(r) \/ Respond(r)
  BY <1>3 DEF CallbackRefused, LinkCallback, LoginCallback, Respond, history
<1>4. CASE TakeCompleted(r) \/ TakePasskey(r) \/ BeginTotpAttempt(r)
  BY <1>4 DEF TakeCompleted, TakePasskey, BeginTotpAttempt, history
<1>5. CASE ExchangeForJwt(r) \/ CompletePasskey(r) \/ CompleteTotp(r)
  BY <1>5 DEF ExchangeForJwt, CompletePasskey, CompleteTotp, history
<1> QED BY <1>1, <1>2, <1>3, <1>4, <1>5 DEF Handle

LEMMA IdsStep ==
  ASSUME IInv, TypeOK', [Next]_vars, \A l \in Request : Steady(l)
  PROVE  IdsOK'
<1>1. ASSUME NEW c \in Client, NEW i \in known[c]
      PROVE  i \in Request /\ pc'[i] = "done" /\ (op'[i] # "begin" => client'[i] = c)
  <2>1. i \in Request /\ pc[i] = "done" /\ (op[i] # "begin" => client[i] = c)
    BY DEF IInv, IdsOK, TypeOK
  <2> QED BY <2>1 DEF Steady
<1>2. CASE UNCHANGED <<jar, known>>
  BY <1>1, <1>2 DEF IdsOK, IInv
<1>3. ASSUME NEW r \in Request, Respond(r), ~UNCHANGED <<jar, known>> PROVE IdsOK'
  <2>1. /\ client[r] \in Client /\ pc[r] # "idle" /\ pc'[r] = "done"
        /\ jar' = [jar EXCEPT ![client[r]] = IdOf(r)]
        /\ known' = [known EXCEPT ![client[r]] = @ \cup {IdOf(r)}]
    BY <1>3 DEF Respond, IdOf, IInv, CopyOK, Goto, TypeOK
  <2>2. /\ pc'[IdOf(r)] = "done" /\ (op'[IdOf(r)] # "begin" => client'[IdOf(r)] = client[r])
    BY <2>1, SaveKeeps
  <2>3. \A c \in Client : /\ known'[c] = IF c = client[r] THEN known[c] \cup {IdOf(r)} ELSE known[c]
                          /\ jar'[c] = IF c = client[r] THEN IdOf(r) ELSE jar[c]
    BY <2>1 DEF IInv, TypeOK
  <2>4. \A c \in Client : \A i \in known'[c] :
          pc'[i] = "done" /\ (op'[i] # "begin" => client'[i] = c)
    <3> SUFFICES ASSUME NEW c \in Client, NEW i \in known'[c]
                 PROVE  pc'[i] = "done" /\ (op'[i] # "begin" => client'[i] = c)
      OBVIOUS
    <3>1. CASE i \in known[c]
      BY <1>1, <3>1
    <3>2. CASE i = IdOf(r) /\ c = client[r]
      BY <2>2, <3>2
    <3> QED BY <2>3, <3>1, <3>2
  <2>5. \A c \in Client : jar'[c] # None => jar'[c] \in known'[c]
    BY <2>3 DEF IdsOK, IInv
  <2> QED BY <2>4, <2>5 DEF IdsOK
<1>4. ASSUME NEW c \in Client, NEW d \in Client, Plant(c, d) PROVE IdsOK'
  <2>1. jar[c] \in known[c] /\ op[jar[c]] = "begin" /\ op' = op
    BY <1>4 DEF Plant, IInv, IdsOK
  <2>2. \A e \in Client : /\ known'[e] = IF e = d THEN known[e] \cup {jar[c]} ELSE known[e]
                          /\ jar'[e] = IF e = d THEN jar[c] ELSE jar[e]
    BY <1>4 DEF Plant, IInv, TypeOK
  <2>3. \A e \in Client : \A i \in known'[e] :
          pc'[i] = "done" /\ (op'[i] # "begin" => client'[i] = e)
    <3> SUFFICES ASSUME NEW e \in Client, NEW i \in known'[e]
                 PROVE  pc'[i] = "done" /\ (op'[i] # "begin" => client'[i] = e)
      OBVIOUS
    <3>1. CASE i \in known[e]
      BY <1>1, <3>1
    <3>2. CASE i = jar[c]
      BY <1>1, <2>1, <3>2
    <3> QED BY <2>2, <3>1, <3>2
  <2>4. \A e \in Client : jar'[e] # None => jar'[e] \in known'[e]
    BY <2>2 DEF IdsOK, IInv
  <2> QED BY <2>3, <2>4 DEF IdsOK
<1>5. \/ UNCHANGED <<jar, known>>
      \/ \E r \in Request : Respond(r)
      \/ \E c, d \in Client : Plant(c, d)
  BY Writers DEF Next, Send, Drop, Forget, Tick, vars
<1> QED BY <1>2, <1>3, <1>4, <1>5

LEMMA HistoryStep ==
  ASSUME IInv, TypeOK', [Next]_vars, \A l \in Request : Steady(l)
  PROVE  (IssuedOK /\ LinkedOK /\ Past)'
<1>1. /\ \A l, r \in Request : <<l, r>> \in issued =>
           pc'[l] \in Answered /\ pc'[r] \in Answered /\ MayGet(r, l)'
      /\ \A l, r \in Request : <<l, r>> \in linked =>
           pc'[l] \in Answered /\ pc'[r] \in Answered /\ client'[l] = client'[r]
  BY HistoryKept
<1>2. IssuedOK'
  <2>1. CASE issued' = issued
    BY <1>1, <2>1 DEF IssuedOK
  <2>2. ASSUME NEW q \in Request, Respond(q), jwt[q] # None,
               issued' = issued \cup {<<jwt[q], q>>}
        PROVE  IssuedOK'
    <3>1. jwt[q] \in Request /\ JwtOK(q)
      BY <2>2 DEF IInv, TypeOK
    <3>2. PICK l \in Request : l = jwt[q]
      BY <3>1
    <3>3. pc[q] \in Answered /\ pc[l] \in Answered /\ MayGet(q, l)
      BY <2>2, <3>1, <3>2 DEF JwtOK
    <3>4. \A k \in {q, l} : /\ pc'[k] \in Answered /\ op'[k] = op[k] /\ client'[k] = client[k]
                            /\ user'[k] = user[k] /\ at'[k] = at[k]
      BY <3>3 DEF Steady, Answered
    <3>5. pc'[q] \in Answered /\ pc'[l] \in Answered /\ MayGet(q, l)'
      BY <3>3, <3>4 DEF MayGet, Needs, AgeOf
    <3>6. \A k, r \in Request : <<k, r>> \in issued' => <<k, r>> \in issued \/ (k = l /\ r = q)
      BY <2>2, <3>2
    <3> QED BY <1>1, <3>5, <3>6 DEF IssuedOK
  <2>3. \/ issued' = issued
        \/ \E q \in Request : Respond(q) /\ jwt[q] # None /\ issued' = issued \cup {<<jwt[q], q>>}
    BY Writers DEF Next, Send, Drop, Forget, Tick, Plant, vars, history, Respond
  <2> QED BY <2>1, <2>2, <2>3
<1>3. LinkedOK'
  <2>1. CASE linked' = linked
    BY <1>1, <2>1 DEF LinkedOK
  <2>2. ASSUME NEW q \in Request, LinkCallback(q) PROVE LinkedOK'
    <3>1. taken[q] \in Request /\ pc[taken[q]] \in Answered /\ client[taken[q]] = client[q]
      BY <2>2 DEF LinkCallback, IInv, TakenOK, TypeOK
    <3>2. pc'[q] \in Answered /\ client' = client /\ linked' = linked \cup {<<taken[q], q>>}
      BY <2>2 DEF LinkCallback, Goto, Answered, IInv, TypeOK
    <3>3. pc'[taken[q]] \in Answered
      BY <3>1 DEF Steady
    <3>4. \A k, r \in Request :
            <<k, r>> \in linked' => <<k, r>> \in linked \/ (k = taken[q] /\ r = q)
      BY <3>2
    <3> QED BY <1>1, <3>1, <3>2, <3>3, <3>4 DEF LinkedOK
  <2>3. linked' = linked \/ \E q \in Request : LinkCallback(q)
    BY Writers DEF Next, Send, Drop, Forget, Tick, Plant, vars, history
  <2> QED BY <2>1, <2>2, <2>3
<1>4. Past'
  <2>1. now \in Int /\ \A r \in Request : at[r] \in Int /\ at[r] <= now
    BY DEF IInv, TypeOK, Past
  <2>2. \/ at' = at /\ now' \in {now, now + 1}
        \/ now' = now /\ \E r \in Request : at' = [at EXCEPT ![r] = now]
    BY Writers DEF Next, Send, Drop, Forget, Tick, Plant, vars, Elevate
  <2>3. at \in [Request -> 0..MaxTime]
    BY DEF IInv, TypeOK
  <2>4. CASE at' = at /\ now' \in {now, now + 1}
    BY <2>1, <2>4 DEF Past
  <2>5. CASE now' = now /\ \E r \in Request : at' = [at EXCEPT ![r] = now]
    <3>1. \A q \in Request : at'[q] \in {at[q], now}
      BY <2>3, <2>5
    <3> QED BY <2>1, <2>5, <3>1 DEF Past
  <2> QED BY <2>2, <2>4, <2>5
<1> QED BY <1>2, <1>3, <1>4

----------------------------------------------------------------------------
(* The theorems *)

LEMMA InvInit == Init => IInv
<1> SUFFICES ASSUME Init PROVE IInv
  OBVIOUS
<1>1. TypeOK
  <2>1. Empty \in Record
    BY ConstantsAssumption DEF Empty, Record
  <2>2. now \in 0..MaxTime /\ at \in [Request -> 0..MaxTime]
    BY ConstantsAssumption DEF Init
  <2>3. modified \in [Request -> BOOLEAN]
    BY DEF Init
  <2>4. pc \in [Request -> PC] /\ rec \in [Request -> Record]
    BY <2>1 DEF Init, PC
  <2> QED BY <2>2, <2>3, <2>4 DEF Init, TypeOK
<1>2. Past
  BY ConstantsAssumption DEF Init, Past
<1>3. StoreOK /\ IdsOK /\ IssuedOK /\ LinkedOK
  BY DEF Init, StoreOK, IdsOK, IssuedOK, LinkedOK
<1>4. ASSUME NEW r \in Request PROVE CopyOK(r) /\ TakenOK(r) /\ JwtOK(r)
  <2>1. /\ pc[r] = "idle" /\ sid[r] = None /\ rec[r] = Empty /\ taken[r] = None
        /\ jwt[r] = None
    BY DEF Init
  <2>2. Bare(Empty) /\ \A c \in Client : Sound(Empty, c)
    BY DEF Bare, Sound, Empty
  <2> QED BY <2>1, <2>2 DEF CopyOK, TakenOK, JwtOK
<1> QED BY <1>1, <1>2, <1>3, <1>4 DEF IInv

LEMMA InvStep == IInv /\ [Next]_vars => IInv'
<1> SUFFICES ASSUME IInv, [Next]_vars PROVE IInv'
  OBVIOUS
<1>1. TypeOK'
  BY TypeStep
<1>2. (\A l \in Request : Steady(l)) /\ \A c \in Client : known[c] \subseteq known'[c]
  BY Steadiness DEF IInv
<1>3. StoreOK' /\ IdsOK' /\ (IssuedOK /\ LinkedOK /\ Past)'
  BY <1>1, <1>2, StoreStep, IdsStep, HistoryStep
<1>4. \A q \in Request : Same(q) => (CopyOK(q) /\ TakenOK(q) /\ JwtOK(q))'
  BY <1>1, <1>2, Untouched
<1>5. ASSUME NEW r \in Request, Alone(r) /\ (CopyOK(r) /\ TakenOK(r) /\ JwtOK(r))'
      PROVE  \A q \in Request : (CopyOK(q) /\ TakenOK(q) /\ JwtOK(q))'
  BY <1>4, <1>5 DEF Alone
<1>6. CASE \A q \in Request : Same(q)
  BY <1>1, <1>3, <1>4, <1>6 DEF IInv
<1>7. ASSUME NEW r \in Request, NEW c \in Client, NEW o \in Ops, NEW u \in User \cup {None},
             Send(r, c, o, u)
      PROVE  IInv'
  BY <1>1, <1>2, <1>3, <1>5, <1>7, SendKeeps DEF IInv
<1>8. ASSUME NEW r \in Request, Handle(r) \/ Drop(r) PROVE IInv'
  <2>1. Alone(r) /\ (CopyOK(r) /\ TakenOK(r) /\ JwtOK(r))'
    BY <1>1, <1>2, <1>8, FirstFactorKeeps, LoadKeeps, TakeKeeps, TakeLoginKeeps, ElevateKeeps,
       VerifyKeeps, EndKeeps DEF Handle
  <2> QED BY <1>1, <1>3, <1>5, <2>1 DEF IInv
<1>9. ASSUME NEW r \in Request, Forget(r) PROVE \A q \in Request : Same(q)
  BY <1>9 DEF Forget, Same, session
<1>10. ASSUME NEW c \in Client, NEW d \in Client, Plant(c, d) PROVE \A q \in Request : Same(q)
  BY <1>10 DEF Plant, Same, session
<1>11. CASE Tick
  BY <1>6, <1>11 DEF Tick, Same, session
<1>12. CASE UNCHANGED vars
  BY <1>6, <1>12 DEF vars, Same, session
<1> QED BY <1>6, <1>7, <1>8, <1>9, <1>10, <1>11, <1>12 DEF Next

LEMMA Invariance == Spec => []IInv
BY InvInit, InvStep, PTL DEF Spec

\* Session fixation: a stored record with a passed first factor or a link on
\* it is known to the browser it belongs to only, because every handler that
\* puts one there gives the session a new id (cycle_id) first.
THEOREM PrivateSteps == Spec => []StepsArePrivate
<1>1. IInv => StepsArePrivate
  <2> SUFFICES ASSUME IInv, NEW i \in Request, store[i] # None, NEW l \in StepsOf(store[i]),
                      NEW c \in Client, i \in known[c]
               PROVE  client[l] = c
    BY DEF StepsArePrivate
  <2>1. ~Bare(store[i])
    BY DEF StepsOf, Bare, Plain
  <2>2. op[i] # "begin" /\ client[i] = c
    BY <2>1 DEF IInv, StoreOK, IdsOK
  <2>3. Sound(store[i], c)
    BY <2>2 DEF IInv, StoreOK
  <2> QED BY <2>3 DEF Sound, StepsOf, Completed, Awaits, Begun, Plain
<1> QED BY <1>1, Invariance, PTL

\* The JWT of a login, and the login a link ends in, go to the browser that
\* began it, whatever requests of other browsers run in between.
THEOREM OutcomesGoHome == Spec => []OutcomeToBeginner
<1>1. IInv => OutcomeToBeginner
  <2> SUFFICES ASSUME IInv PROVE JwtToLoginClient /\ LinkedByBeginner
    BY DEF OutcomeToBeginner
  <2>1. /\ \A p \in issued : p = <<p[1], p[2]>> /\ p[1] \in Request /\ p[2] \in Request
        /\ \A p \in linked : p = <<p[1], p[2]>> /\ p[1] \in Request /\ p[2] \in Request
    BY DEF IInv, TypeOK
  <2>2. JwtToLoginClient
    BY <2>1 DEF IInv, IssuedOK, MayGet, JwtToLoginClient
  <2>3. LinkedByBeginner
    BY <2>1 DEF IInv, LinkedOK, LinkedByBeginner
  <2> QED BY <2>2, <2>3
<1> QED BY <1>1, Invariance, PTL

\* A user with a second factor is answered with a JWT by completing that
\* factor only, however logins and copies of sessions interleave.
THEOREM SecondFactorNeeded == Spec => []SecondFactorRequired
<1>1. IInv => SecondFactorRequired
  <2> SUFFICES ASSUME IInv PROVE SecondFactorRequired
    OBVIOUS
  <2>1. \A p \in issued : p = <<p[1], p[2]>> /\ p[1] \in Request /\ p[2] \in Request
    BY DEF IInv, TypeOK
  <2> QED BY <2>1 DEF IInv, IssuedOK, MayGet, Needs, SecondFactorRequired
<1> QED BY <1>1, Invariance, PTL

\* A login is worth nothing to a request sent after its maximum age, even when
\* concurrent requests write old copies of the session back.
THEOREM OldLoginsDie == Spec => []StaleLoginsDie
<1>1. IInv => StaleLoginsDie
  <2> SUFFICES ASSUME IInv PROVE StaleLoginsDie
    OBVIOUS
  <2>1. \A p \in issued : p = <<p[1], p[2]>> /\ p[1] \in Request /\ p[2] \in Request
    BY DEF IInv, TypeOK
  <2> QED BY <2>1 DEF IInv, IssuedOK, MayGet, AgeOf, StaleLoginsDie
<1> QED BY <1>1, Invariance, PTL

----------------------------------------------------------------------------
(* One request of a browser at a time *)

\* A request that is being handled.
Running(r) == pc[r] \notin {"idle", "done"}

\* No browser sends a request before its last one was answered or given up.
OneAtATime ==
  \A q, r \in Request : Running(q) /\ Running(r) /\ client[q] = client[r] => q = r

\* The logins a record holds, by what they are for.
Holds(record) == {record.auth, record.passkey, record.totp} \ {None}
OnRecord(i) == IF store[i] = None THEN {} ELSE Holds(store[i])

\* The logins a request has a part in: on its copy, taken off, or answered with.
Completes == {"exchange", "passkey", "totp"}
Works(r) ==
  Holds(rec[r]) \cup (({jwt[r]} \cup (IF op[r] \in Completes THEN {taken[r]} ELSE {})) \ {None})

RefusedFor(l) == {p \in refusals : p[1] = l}
Spent(l) == Cardinality(RefusedFor(l))
Unissued(l) == \A p \in issued : p[1] # l

\* A record whose codes are counted, of logins that need a second factor.
Counts(record) == record.totp # None => Spent(record.totp) <= record.attempts
Sorted(record) == \A l \in {record.passkey, record.totp} \ {None} : Needs(l)

\* A login is on one record only, and was not answered with yet.
SolePlace ==
  /\ \A i \in Request : store[i] # None => Counts(store[i]) /\ Sorted(store[i])
  /\ \A i, j \in Request : \A l \in OnRecord(i) : l \in OnRecord(j) => i = j
  /\ \A i \in Request : \A l \in OnRecord(i) : pc[l] = "done" /\ Unissued(l)

\* What a request works on is on no record but its own, and leaves that one
\* with the answer.
WorkOK(r) ==
  /\ Counts(rec[r]) /\ Sorted(rec[r])
  /\ \A l \in Works(r) : /\ l = r \/ pc[l] = "done"
                         /\ Unissued(l)
                         /\ \A i \in Request : l \in OnRecord(i) => i = sid[r]
  /\ taken[r] # None =>
       /\ modified[r]
       /\ op[r] = "totp" =>
            /\ Spent(taken[r]) < MaxTotpAttempts
            /\ rec[r].totp = taken[r] => Spent(taken[r]) < rec[r].attempts
       /\ pc[r] = "verify" /\ op[r] \in {"exchange", "passkey"} => taken[r] \notin Holds(rec[r])
       /\ pc[r] = "verify" /\ op[r] = "totp" => taken[r] \notin {rec[r].auth, rec[r].passkey}
  /\ jwt[r] # None =>
       /\ pc[r] = "respond" /\ jwt[r] \notin Holds(rec[r])
       /\ jwt[r] = r \/ modified[r]

RefusalsOK ==
  IsFiniteSet(refusals) /\ \A p \in refusals : pc[p[1]] \in Answered

OnceInv ==
  /\ ExchangedOnce /\ TotpAttemptsBounded /\ RefusalsOK /\ SolePlace
  /\ \A r \in Request : WorkOK(r)

----------------------------------------------------------------------------
(* Whose logins a request works on *)

\* What is on a record was begun by a request that answers.
LEMMA RecordLogins ==
  ASSUME IInv, NEW i \in Request, NEW l \in OnRecord(i)
  PROVE  l \in Request /\ pc[l] \in Answered
<1>1. store[i] # None /\ l \in Holds(store[i])
  BY DEF OnRecord
<1>2. pc[i] = "done" /\ client[i] \in Client
  BY <1>1 DEF IInv, StoreOK, CopyOK
<1>3. PICK c \in Client : c = client[i]
  BY <1>2
<1>4. Sound(store[i], c)
  BY <1>1, <1>3 DEF IInv, StoreOK
<1> QED BY <1>1, <1>4 DEF Holds, Sound, Completed, Awaits, Begun

\* A request works on logins of its own browser, while it is handled.
LEMMA OwnWork ==
  ASSUME IInv, OnceInv, NEW r \in Request, NEW l \in Works(r)
  PROVE  l \in Request /\ pc[l] \in Answered /\ client[l] = client[r] /\ Running(r)
<1>1. CopyOK(r) /\ TakenOK(r) /\ JwtOK(r) /\ WorkOK(r) /\ TypeOK
  BY DEF IInv, OnceInv
<1>2. CASE l \in Holds(rec[r])
  <2>1. pc[r] \notin {"idle", "sent", "done"}
    BY <1>1, <1>2 DEF CopyOK, Holds, Empty
  <2>2. PICK c \in Client : c = client[r]
    BY <1>1, <2>1 DEF CopyOK
  <2>3. Sound(rec[r], c)
    BY <1>1, <2>2 DEF CopyOK
  <2> QED BY <1>2, <2>1, <2>2, <2>3 DEF Holds, Sound, Completed, Awaits, Begun, Running
<1>3. CASE l = jwt[r] /\ l # None
  BY <1>1, <1>3 DEF JwtOK, MayGet, WorkOK, Running, TypeOK
<1>4. CASE l = taken[r] /\ l # None /\ op[r] \in Completes
  BY <1>1, <1>4 DEF TakenOK, Completes, CopyOK, Running, TypeOK
<1> QED BY <1>2, <1>3, <1>4 DEF Works

\* Two requests of browsers that send one at a time work on different logins.
LEMMA WorkApart ==
  ASSUME IInv, OnceInv, OneAtATime, NEW q \in Request, NEW r \in Request, q # r,
         NEW l \in Works(q)
  PROVE  l \notin Works(r)
BY OwnWork DEF OneAtATime

\* What a login needs is settled once its request answers.
LEMMA NeedsKept ==
  ASSUME \A l \in Request : Steady(l), NEW l \in Request, pc[l] \in Answered
  PROVE  Needs(l)' = Needs(l) /\ pc'[l] \in Answered /\ (pc[l] = "done" => pc'[l] = "done")
BY DEF Steady, Answered, Needs

\* Nothing was answered for the login.
Unaffected(l) == (Unissued(l) => Unissued(l)') /\ RefusedFor(l)' = RefusedFor(l)

\* No record gets the login.
NowhereNew(l) == \A i \in Request : l \in OnRecord(i)' => l \in OnRecord(i)

\* A request that a step does not touch, nor the logins it works on.
LEMMA WorkUntouched ==
  ASSUME IInv, OnceInv, \A l \in Request : Steady(l), NEW q \in Request,
         Same(q), modified'[q] = modified[q],
         \A l \in Works(q) : Unaffected(l) /\ NowhereNew(l)
  PROVE  WorkOK(q)'
<1>1. WorkOK(q) /\ TypeOK
  BY DEF IInv, OnceInv
<1>2. PICK d, t, j : d = rec[q] /\ t = taken[q] /\ j = jwt[q]
  OBVIOUS
<1>3. /\ rec'[q] = d /\ taken'[q] = t /\ jwt'[q] = j /\ pc'[q] = pc[q] /\ op'[q] = op[q]
      /\ sid'[q] = sid[q] /\ modified'[q] = modified[q]
  BY <1>2 DEF Same
<1>4. Works(q)' = Works(q)
  BY <1>2, <1>3 DEF Works, Holds
<1>5. \A l \in Works(q) : /\ l \in Request /\ pc[l] \in Answered
                          /\ Spent(l)' = Spent(l) /\ Needs(l)' = Needs(l)
                          /\ Unissued(l) => Unissued(l)'
                          /\ pc[l] = "done" => pc'[l] = "done"
                          /\ \A i \in Request : l \in OnRecord(i)' => l \in OnRecord(i)
  BY OwnWork, NeedsKept DEF Unaffected, NowhereNew, Spent
<1>6. /\ d.totp # None => d.totp \in Works(q)
      /\ d.passkey # None => d.passkey \in Works(q)
      /\ t # None /\ op[q] \in Completes => t \in Works(q)
  BY <1>2 DEF Works, Holds
<1>7. Counts(d)' /\ Sorted(d)'
  BY <1>1, <1>2, <1>5, <1>6 DEF WorkOK, Counts, Sorted
<1>8. Counts(rec[q])' /\ Sorted(rec[q])'
  BY <1>3, <1>7 DEF Counts, Sorted
<1>9. \A l \in Works(q)' : (/\ l = q \/ pc[l] = "done"
                            /\ Unissued(l)
                            /\ \A i \in Request : l \in OnRecord(i) => i = sid[q])'
  BY <1>1, <1>3, <1>4, <1>5 DEF WorkOK
<1>10. t # None /\ op[q] = "totp" => Spent(t)' = Spent(t)
  BY <1>5, <1>6 DEF Completes
<1>11. (taken[q] # None =>
          /\ modified[q]
          /\ op[q] = "totp" =>
               /\ Spent(taken[q]) < MaxTotpAttempts
               /\ rec[q].totp = taken[q] => Spent(taken[q]) < rec[q].attempts
          /\ pc[q] = "verify" /\ op[q] \in {"exchange", "passkey"} => taken[q] \notin Holds(rec[q])
          /\ pc[q] = "verify" /\ op[q] = "totp" => taken[q] \notin {rec[q].auth, rec[q].passkey})'
  BY <1>1, <1>2, <1>3, <1>10 DEF WorkOK, Holds, Spent, RefusedFor
<1>12. (jwt[q] # None =>
          /\ pc[q] = "respond" /\ jwt[q] \notin Holds(rec[q])
          /\ jwt[q] = q \/ modified[q])'
  BY <1>1, <1>2, <1>3 DEF WorkOK, Holds
<1> QED BY <1>8, <1>9, <1>11, <1>12 DEF WorkOK

----------------------------------------------------------------------------
(* Records and the history *)

\* Records that go, or stay as they are.
LEMMA PlaceKept ==
  ASSUME IInv, OnceInv, TypeOK', \A l \in Request : Steady(l),
         \A i \in Request : store'[i] \in {store[i], None},
         \A i \in Request : \A l \in OnRecord(i) : Unaffected(l)
  PROVE  SolePlace' /\ \A l : NowhereNew(l)
<1>1. SolePlace
  BY DEF OnceInv
<1>2. \A i \in Request : \A l : l \in OnRecord(i)' => l \in OnRecord(i)
  BY DEF OnRecord, Holds
<1>3. \A i \in Request : \A l \in OnRecord(i) :
        /\ l \in Request /\ pc'[l] = "done" /\ Needs(l)' = Needs(l)
        /\ Unissued(l)' /\ Spent(l)' = Spent(l)
  BY <1>1, RecordLogins, NeedsKept DEF SolePlace, Unaffected, Spent
<1>4. ASSUME NEW i \in Request, store'[i] # None
      PROVE  Counts(store[i])' /\ Sorted(store[i])'
  <2>1. PICK d : d = store[i] /\ store'[i] = d /\ d # None
    BY <1>4
  <2>2. Counts(d) /\ Sorted(d)
    BY <1>1, <2>1 DEF SolePlace
  <2>3. \A l \in {d.passkey, d.totp} \ {None} : l \in OnRecord(i)
    BY <2>1 DEF OnRecord, Holds
  <2>4. Counts(d)' /\ Sorted(d)'
    BY <1>3, <2>2, <2>3 DEF Counts, Sorted
  <2> QED BY <2>1, <2>4 DEF Counts, Sorted
<1>5. (\A i, j \in Request : \A l \in OnRecord(i) : l \in OnRecord(j) => i = j)'
  BY <1>1, <1>2 DEF SolePlace
<1>6. (\A i \in Request : \A l \in OnRecord(i) : pc[l] = "done" /\ Unissued(l))'
  BY <1>2, <1>3
<1> QED BY <1>2, <1>4, <1>5, <1>6 DEF SolePlace, NowhereNew

\* A copy that is saved takes the place of the record its logins were on.
LEMMA PlaceSaved ==
  ASSUME IInv, OnceInv, TypeOK', \A l \in Request : Steady(l), NEW r \in Request,
         IdOf(r) \in Request, store' = [store EXCEPT ![IdOf(r)] = rec[r]],
         \A l \in Request \ Works(r) : Unaffected(l),
         \A l \in Holds(rec[r]) : Unissued(l)' /\ pc'[l] = "done" /\ Needs(l)' = Needs(l),
         \A l \in Holds(rec[r]) : rec[r].totp = l => Spent(l)' <= rec[r].attempts
  PROVE  SolePlace' /\ \A l \in Request \ Works(r) : NowhereNew(l)
<1>1. SolePlace /\ WorkOK(r) /\ TypeOK
  BY DEF OnceInv, IInv
<1>2. PICK d, n : d = rec[r] /\ n = IdOf(r)
  OBVIOUS
<1>3. n \in Request /\ store'[n] = d /\ \A i \in Request : i # n => store'[i] = store[i]
  BY <1>1, <1>2 DEF TypeOK
<1>4. Holds(d) \subseteq Works(r) /\ Counts(d) /\ Sorted(d)
  BY <1>1, <1>2 DEF WorkOK, Works
<1>5. OnRecord(n)' \subseteq Holds(d) /\ \A i \in Request : i # n => OnRecord(i)' = OnRecord(i)
  BY <1>3, <1>4 DEF OnRecord, Holds
<1>6. \A i \in Request : \A l \in OnRecord(i) : l \in Works(r) => i = n
  BY <1>1, <1>2, ConstantsAssumption DEF WorkOK, IdOf, TypeOK
<1>7. \A i \in Request : i # n => \A l \in OnRecord(i) :
        /\ l \in Request \ Works(r) /\ pc'[l] = "done" /\ Needs(l)' = Needs(l)
        /\ Unissued(l)' /\ Spent(l)' = Spent(l)
  BY <1>1, <1>6, RecordLogins, NeedsKept DEF SolePlace, Unaffected, Spent
<1>8. ASSUME NEW i \in Request, store'[i] # None
      PROVE  Counts(store[i])' /\ Sorted(store[i])'
  <2>1. CASE i = n
    <3>1. Counts(d)'
      BY <1>2 DEF Counts, Holds
    <3>2. Sorted(d)'
      <4>1. \A l \in {d.passkey, d.totp} \ {None} : l \in Holds(d) /\ Needs(l)' = Needs(l)
        BY <1>2 DEF Holds
      <4> QED BY <1>4, <4>1 DEF Sorted
    <3> QED BY <1>3, <2>1, <3>1, <3>2 DEF Counts, Sorted
  <2>2. CASE i # n
    <3>1. PICK e : e = store[i] /\ store'[i] = e /\ e # None
      BY <1>3, <1>8, <2>2
    <3>2. Counts(e) /\ Sorted(e)
      BY <1>1, <3>1 DEF SolePlace
    <3>3. \A l \in {e.passkey, e.totp} \ {None} : l \in OnRecord(i)
      BY <3>1 DEF OnRecord, Holds
    <3>4. Counts(e)' /\ Sorted(e)'
      BY <1>7, <2>2, <3>2, <3>3 DEF Counts, Sorted
    <3> QED BY <3>1, <3>4 DEF Counts, Sorted
  <2> QED BY <2>1, <2>2
<1>9. (\A i, j \in Request : \A l \in OnRecord(i) : l \in OnRecord(j) => i = j)'
  <2>1. \A i \in Request : i # n => OnRecord(i) \cap Holds(d) = {}
    BY <1>4, <1>6
  <2> QED BY <1>1, <1>5, <2>1 DEF SolePlace
<1>10. (\A i \in Request : \A l \in OnRecord(i) : pc[l] = "done" /\ Unissued(l))'
  BY <1>2, <1>5, <1>7
<1>11. \A l \in Request \ Works(r) : NowhereNew(l)
  BY <1>4, <1>5 DEF NowhereNew
<1> QED BY <1>8, <1>9, <1>10, <1>11 DEF SolePlace

\* Nothing is answered.
LEMMA HistoryQuiet ==
  ASSUME IInv, OnceInv, TypeOK', \A l \in Request : Steady(l), UNCHANGED <<issued, refusals>>
  PROVE  (ExchangedOnce /\ TotpAttemptsBounded /\ RefusalsOK)' /\ \A l : Unaffected(l)
<1>1. ExchangedOnce /\ TotpAttemptsBounded /\ RefusalsOK
  BY DEF OnceInv
<1>2. ExchangedOnce' /\ TotpAttemptsBounded'
  BY <1>1 DEF ExchangedOnce, TotpAttemptsBounded
<1>3. RefusalsOK'
  BY <1>1, NeedsKept DEF RefusalsOK, IInv, TypeOK
<1>4. \A l : Unaffected(l)
  BY DEF Unaffected, Unissued, RefusedFor
<1> QED BY <1>2, <1>3, <1>4

\* A handler leaves the copies of other requests alone; only the answer counts.
LEMMA WorkFrame ==
  ASSUME TypeOK, NEW r \in Request, Handle(r) \/ Drop(r)
  PROVE  /\ \A q \in Request : q # r => modified'[q] = modified[q]
         /\ Respond(r) \/ UNCHANGED <<issued, refusals>>
<1>1. CASE LoginLocal(r) \/ ExchangeExternal(r) \/ BeginLink(r) \/ Elevate(r)
  BY <1>1 DEF LoginLocal, ExchangeExternal, FirstFactorPassed, BeginLink, Elevate, LoadAs, session,
     history, TypeOK
<1>2. CASE BeginExternal(r) \/ TakeLink(r) \/ TakeLogin(r) \/ SaveTaken(r) \/ StartLink(r)
  BY <1>2 DEF BeginExternal, TakeLink, TakeLogin, TakeStep, SaveTaken, StartLink, LoadAs, session,
     history, TypeOK
<1>3. CASE CallbackRefused(r) \/ LinkCallback(r) \/ LoginCallback(r) \/ Respond(r) \/ Drop(r)
  BY <1>3 DEF CallbackRefused, LinkCallback, LoginCallback, Respond, Drop, session, history, TypeOK
<1>4. CASE TakeCompleted(r) \/ TakePasskey(r) \/ BeginTotpAttempt(r)
  BY <1>4 DEF TakeCompleted, TakePasskey, BeginTotpAttempt, LoadAs, history, TypeOK
<1>5. CASE ExchangeForJwt(r) \/ CompletePasskey(r) \/ CompleteTotp(r)
  BY <1>5 DEF ExchangeForJwt, CompletePasskey, CompleteTotp, session, history, TypeOK
<1> QED BY <1>1, <1>2, <1>3, <1>4, <1>5 DEF Handle

----------------------------------------------------------------------------
(* The logins of the request that takes the step *)

\* What a request loads is on the record of its session only.
LEMMA LoadedWork ==
  ASSUME IInv, OnceInv, NEW r \in Request, pc[r] = "sent"
  PROVE  /\ Counts(Loaded(r)) /\ Sorted(Loaded(r))
         /\ \A l \in Holds(Loaded(r)) :
              /\ l \in Request /\ pc[l] = "done" /\ Unissued(l)
              /\ \A i \in Request : l \in OnRecord(i) => i = Home(r)
<1>1. CASE Home(r) = None
  <2>1. Loaded(r) = Empty
    BY <1>1, LoadedSound
  <2> QED BY <2>1 DEF Counts, Sorted, Holds, Empty
<1>2. CASE Home(r) # None
  <2>1. Home(r) \in Request /\ store[Home(r)] # None /\ Loaded(r) = store[Home(r)]
    BY <1>2 DEF Home, Loaded, IInv, TypeOK
  <2>2. Holds(Loaded(r)) = OnRecord(Home(r))
    BY <2>1 DEF OnRecord
  <2>3. Counts(Loaded(r)) /\ Sorted(Loaded(r))
    BY <2>1 DEF OnceInv, SolePlace
  <2> QED BY <2>1, <2>2, <2>3, RecordLogins DEF OnceInv, SolePlace
<1> QED BY <1>1, <1>2

\* A request that loads its session, and may take a step t off its copy.
LEMMA WorkAfterLoad ==
  ASSUME IInv, OnceInv, \A l \in Request : Steady(l), NEW r \in Request, pc[r] = "sent",
         NEW copy, NEW t, LoadAs(r, copy), UNCHANGED <<store, issued, refusals, op>>,
         taken'[r] = t, jwt'[r] = None,
         Holds(copy) \subseteq Holds(Loaded(r)), Counts(copy),
         copy.passkey \in {Loaded(r).passkey, None}, copy.totp \in {Loaded(r).totp, None},
         t # None =>
           /\ copy # Loaded(r)
           /\ op[r] \in Completes => t \in Holds(Loaded(r))
           /\ op[r] = "totp" => /\ Spent(t) < MaxTotpAttempts
                                /\ copy.totp = t => Spent(t) < copy.attempts
           /\ pc'[r] = "verify" /\ op[r] \in {"exchange", "passkey"} => t \notin Holds(copy)
           /\ pc'[r] = "verify" /\ op[r] = "totp" => t \notin {copy.auth, copy.passkey}
  PROVE  WorkOK(r)'
<1>1. rec'[r] = copy /\ sid'[r] = Home(r) /\ (modified'[r] <=> copy # Loaded(r))
  BY DEF LoadAs, Home, IInv, TypeOK
<1>2. \A l \in Holds(Loaded(r)) : /\ l \in Request /\ pc[l] = "done" /\ Unissued(l)
                                  /\ \A i \in Request : l \in OnRecord(i) => i = Home(r)
  BY LoadedWork
<1>3. \A l \in Holds(Loaded(r)) :
        (/\ pc[l] = "done" /\ Unissued(l)
         /\ \A i \in Request : l \in OnRecord(i) => i = sid[r])'
  BY <1>1, <1>2, NeedsKept DEF Answered, Unissued, OnRecord
<1>4. Works(r)' \subseteq Holds(Loaded(r))
  BY <1>1 DEF Works, Holds
<1>5. Counts(rec[r])'
  BY <1>1 DEF Counts, Spent, RefusedFor
<1>6. Sorted(rec[r])'
  <2>1. \A l \in {Loaded(r).passkey, Loaded(r).totp} \ {None} : Needs(l) /\ Needs(l)' = Needs(l)
    BY <1>2, LoadedWork, NeedsKept DEF Sorted, Holds, Answered
  <2> QED BY <1>1, <2>1 DEF Sorted
<1>7. (taken[r] # None =>
         /\ modified[r]
         /\ op[r] = "totp" =>
              /\ Spent(taken[r]) < MaxTotpAttempts
              /\ rec[r].totp = taken[r] => Spent(taken[r]) < rec[r].attempts
         /\ pc[r] = "verify" /\ op[r] \in {"exchange", "passkey"} => taken[r] \notin Holds(rec[r])
         /\ pc[r] = "verify" /\ op[r] = "totp" => taken[r] \notin {rec[r].auth, rec[r].passkey})'
  BY <1>1 DEF Spent, RefusedFor, Holds
<1> QED BY <1>3, <1>4, <1>5, <1>6, <1>7 DEF WorkOK

\* A request without a session: it was answered with its own login, or refused.
LEMMA WorkWithoutSession ==
  ASSUME IInv, OnceInv, \A l \in Request : Steady(l), NEW r \in Request, pc[r] = "sent",
         UNCHANGED <<store, issued, refusals, session>>, taken'[r] = None,
         jwt'[r] \in {None, r}, jwt'[r] = r => pc'[r] = "respond"
  PROVE  WorkOK(r)'
<1>1. rec'[r] = Empty /\ sid'[r] = sid[r]
  BY DEF IInv, CopyOK, session
<1>2. Counts(rec[r])' /\ Sorted(rec[r])' /\ Holds(rec[r])' = {}
  BY <1>1 DEF Counts, Sorted, Holds, Empty
<1>3. Works(r)' \subseteq {r}
  BY <1>2 DEF Works
<1>4. Unissued(r)'
  <2>1. \A p \in issued : p = <<p[1], p[2]>> /\ p[1] \in Request /\ p[2] \in Request
    BY DEF IInv, TypeOK
  <2> QED BY <2>1 DEF IInv, IssuedOK, Unissued, Answered
<1>5. \A i \in Request : r \notin OnRecord(i)'
  BY DEF OnceInv, SolePlace, OnRecord
<1> QED BY <1>2, <1>3, <1>4, <1>5 DEF WorkOK

LEMMA BeginWork ==
  ASSUME IInv, OnceInv, TypeOK', \A l \in Request : Steady(l), NEW r \in Request,
         LoginLocal(r) \/ ExchangeExternal(r) \/ BeginLink(r) \/ BeginExternal(r)
  PROVE  WorkOK(r)' /\ store' = store
<1>1. /\ pc[r] = "sent" /\ taken[r] = None /\ jwt[r] = None
  BY DEF LoginLocal, ExchangeExternal, BeginLink, BeginExternal, IInv, CopyOK, JwtOK, Answered
<1>2. UNCHANGED <<store, issued, refusals, op>> /\ taken' = taken
  BY DEF LoginLocal, ExchangeExternal, FirstFactorPassed, BeginLink, BeginExternal, history
<1>3. taken'[r] = None
  BY <1>1, <1>2
<1>4. PICK d : d = Loaded(r) /\ d \in Record
  BY <1>1, LoadedSound
<1>5. CASE LoadAs(r, d) /\ jwt'[r] = None
  <2>1. Counts(d) /\ Holds(d) \subseteq Holds(Loaded(r))
    BY <1>1, <1>4, LoadedWork
  <2>2. PICK t : t = None
    OBVIOUS
  <2>3. WorkOK(r)'
    BY <1>1, <1>2, <1>3, <1>4, <1>5, <2>1, <2>2, WorkAfterLoad
  <2> QED BY <1>2, <2>3
<1>6. CASE /\ UNCHANGED session /\ jwt'[r] \in {None, r} /\ (jwt'[r] = r => pc'[r] = "respond")
  BY <1>1, <1>2, <1>3, <1>6, WorkWithoutSession
<1>7. CASE BeginExternal(r)
  <2>1. LoadAs(r, [d EXCEPT !.ext = r]) /\ jwt'[r] = None
    BY <1>1, <1>4, <1>7 DEF BeginExternal
  <2>2. PICK copy : copy = [d EXCEPT !.ext = r]
    OBVIOUS
  <2>3. /\ copy.auth = d.auth /\ copy.passkey = d.passkey /\ copy.totp = d.totp
        /\ copy.attempts = d.attempts
    BY <1>4, <2>2 DEF Record
  <2>4. Counts(copy) /\ Holds(copy) \subseteq Holds(Loaded(r))
    BY <1>1, <1>4, <2>3, LoadedWork DEF Counts, Holds
  <2>5. PICK t : t = None
    OBVIOUS
  <2>6. LoadAs(r, copy)
    BY <2>1, <2>2
  <2>7. WorkOK(r)'
    BY <1>1, <1>2, <1>3, <1>4, <2>1, <2>3, <2>4, <2>5, <2>6, WorkAfterLoad
  <2> QED BY <1>2, <2>7
<1>8. CASE BeginLink(r)
  <2>1. jwt'[r] = None /\ None # r
    BY <1>1, <1>8, ConstantsAssumption DEF BeginLink
  <2>2. LoadAs(r, d) \/ UNCHANGED session
    BY <1>4, <1>8 DEF BeginLink
  <2> QED BY <1>5, <1>6, <2>1, <2>2
<1>9. CASE LoginLocal(r) \/ ExchangeExternal(r)
  <2>1. FirstFactorPassed(r)
    BY <1>9 DEF LoginLocal, ExchangeExternal
  <2>2. /\ Goto(r, "respond") => pc'[r] = "respond"
        /\ jwt' = [jwt EXCEPT ![r] = r] => jwt'[r] = r
    BY DEF Goto, IInv, TypeOK
  <2> QED BY <1>1, <1>4, <1>5, <1>6, <2>1, <2>2, ConstantsAssumption DEF FirstFactorPassed
<1> QED BY <1>7, <1>8, <1>9

\* Taking a link or an external login off leaves the logins on the copy.
LEMMA TakeStepWork ==
  ASSUME IInv, OnceInv, TypeOK', \A l \in Request : Steady(l), NEW r \in Request,
         TakeLink(r) \/ TakeLogin(r)
  PROVE  WorkOK(r)' /\ store' = store
<1>1. PICK d : d = Loaded(r) /\ d \in Record
  BY LoadedSound DEF TakeLink, TakeLogin
<1>2. /\ pc[r] = "sent" /\ taken[r] = None /\ jwt[r] = None /\ op[r] \notin Completes
  BY DEF TakeLink, TakeLogin, IInv, CopyOK, JwtOK, Answered, Completes
<1>3. /\ UNCHANGED <<store, issued, refusals, op>> /\ jwt'[r] = None
  <2>1. UNCHANGED <<store, issued, refusals, op, jwt>>
    BY DEF TakeLink, TakeLogin, TakeStep, history
  <2> QED BY <1>2, <2>1
<1>4. PICK l, copy : /\ \/ l = d.link /\ copy = [d EXCEPT !.link = None]
                        \/ l = d.ext /\ copy = [d EXCEPT !.ext = None]
                     /\ TakeStep(r, l, copy)
  BY <1>1 DEF TakeLink, TakeLogin
<1>5. /\ copy.auth = d.auth /\ copy.passkey = d.passkey /\ copy.totp = d.totp
      /\ copy.attempts = d.attempts
      /\ l # None => copy # d
  BY <1>1, <1>4 DEF Record
<1>6. /\ Counts(copy) /\ Holds(copy) \subseteq Holds(Loaded(r))
      /\ Counts(d) /\ Holds(d) \subseteq Holds(Loaded(r))
  BY <1>1, <1>2, <1>5, LoadedWork DEF Counts, Holds
<1>7. PICK t : t = taken'[r]
  OBVIOUS
<1>8. CASE l = None
  <2>1. LoadAs(r, d) /\ t = None
    BY <1>1, <1>2, <1>4, <1>7, <1>8 DEF TakeStep
  <2> QED BY <1>1, <1>2, <1>3, <1>6, <1>7, <2>1, WorkAfterLoad
<1>9. CASE l # None
  <2>1. LoadAs(r, copy)
    BY <1>4, <1>9 DEF TakeStep
  <2>2. op[r] # "totp" /\ op[r] \notin {"exchange", "passkey"}
    BY <1>2 DEF Completes
  <2> QED BY <1>1, <1>2, <1>3, <1>5, <1>6, <1>7, <1>9, <2>1, <2>2, WorkAfterLoad
<1> QED BY <1>8, <1>9

\* Taking a completed login, a passkey login, or an attempt at a code: what is
\* taken off was on this record only, and an attempt is counted on the copy.
LEMMA TakeLoginWork ==
  ASSUME IInv, OnceInv, TypeOK', \A l \in Request : Steady(l), NEW r \in Request,
         TakeCompleted(r) \/ TakePasskey(r) \/ BeginTotpAttempt(r)
  PROVE  WorkOK(r)' /\ store' = store
<1>1. PICK d : d = Loaded(r) /\ d \in Record
  BY LoadedSound DEF TakeCompleted, TakePasskey, BeginTotpAttempt
<1>2. /\ pc[r] = "sent" /\ taken[r] = None /\ jwt[r] = None /\ op[r] \in Completes
  BY DEF TakeCompleted, TakePasskey, BeginTotpAttempt, IInv, CopyOK, JwtOK, Answered, Completes
<1>3. /\ UNCHANGED <<store, issued, refusals, op>> /\ jwt'[r] = None
  <2>1. UNCHANGED <<store, issued, refusals, op, jwt>>
    BY DEF TakeCompleted, TakePasskey, BeginTotpAttempt, history
  <2> QED BY <1>2, <2>1
<1>4. Counts(d) /\ Sorted(d) /\ \A l \in Holds(d) : l \in Request
  BY <1>1, <1>2, LoadedWork
<1>5. PICK c \in Client : c = client[r]
  BY <1>2, LoadedSound
<1>6. Sound(d, c)
  BY <1>1, <1>2, <1>5, LoadedSound
<1>7. /\ d.auth # None => ~Needs(d.auth)
      /\ d.passkey # None => Needs(d.passkey) /\ Second[user[d.passkey]] = "passkey"
      /\ d.totp # None => Needs(d.totp) /\ Second[user[d.totp]] = "totp"
  BY <1>4, <1>6 DEF Sound, Sorted, Completed, Awaits
<1>8. PICK t : t = taken'[r]
  OBVIOUS
<1>9. CASE LoadAs(r, d) /\ t = None
  <2>1. Holds(d) \subseteq Holds(Loaded(r))
    BY <1>1
  <2> QED BY <1>1, <1>2, <1>3, <1>4, <1>8, <1>9, <2>1, WorkAfterLoad
<1>10. CASE LoadAs(r, WithoutTotp(d)) /\ t = None
  <2>1. PICK copy : copy = WithoutTotp(d)
    OBVIOUS
  <2>2. copy.auth = d.auth /\ copy.passkey = d.passkey /\ copy.totp = None
    BY <1>1, <2>1 DEF WithoutTotp, Record
  <2>3. Counts(copy) /\ Holds(copy) \subseteq Holds(Loaded(r)) /\ LoadAs(r, copy)
    BY <1>1, <1>10, <2>1, <2>2 DEF Counts, Holds
  <2> QED BY <1>1, <1>2, <1>3, <1>8, <1>10, <2>2, <2>3, WorkAfterLoad
<1>11. CASE op[r] = "exchange"
  <2>1. PICK copy : copy = WithoutCompleted(d)
    OBVIOUS
  <2>2. /\ copy.auth = None /\ copy.passkey = d.passkey /\ copy.totp = d.totp
        /\ copy.attempts = d.attempts
    BY <1>1, <2>1 DEF WithoutCompleted, Record
  <2>3. LoadAs(r, copy) /\ t \in {None, d.auth}
    BY <1>1, <1>2, <1>8, <1>11, <2>1 DEF TakeCompleted, TakePasskey, BeginTotpAttempt, IInv, TypeOK
  <2>4. Counts(copy) /\ Holds(copy) \subseteq Holds(Loaded(r))
    BY <1>1, <1>4, <2>2 DEF Counts, Holds
  <2>5. t # None => t \in Holds(Loaded(r)) /\ copy # Loaded(r) /\ t \notin Holds(copy)
    BY <1>1, <1>7, <2>2, <2>3 DEF Holds
  <2> QED BY <1>1, <1>2, <1>3, <1>8, <1>11, <2>2, <2>3, <2>4, <2>5, WorkAfterLoad
<1>12. CASE op[r] = "passkey" /\ t # None
  <2>1. PICK copy : copy = [d EXCEPT !.passkey = None, !.kind = None]
    OBVIOUS
  <2>2. /\ copy.auth = d.auth /\ copy.passkey = None /\ copy.totp = d.totp
        /\ copy.attempts = d.attempts
    BY <1>1, <2>1 DEF Record
  <2>3. LoadAs(r, copy) /\ t = d.passkey
    BY <1>1, <1>2, <1>8, <1>12, <2>1 DEF TakeCompleted, TakePasskey, BeginTotpAttempt, IInv, TypeOK
  <2>4. Counts(copy) /\ Holds(copy) \subseteq Holds(Loaded(r))
    BY <1>1, <1>4, <2>2 DEF Counts, Holds
  <2>5. t \in Holds(Loaded(r)) /\ copy # Loaded(r) /\ t \notin Holds(copy)
    BY <1>1, <1>7, <1>12, <2>2, <2>3 DEF Holds
  <2> QED BY <1>1, <1>2, <1>3, <1>8, <1>12, <2>2, <2>3, <2>4, <2>5, WorkAfterLoad
<1>13. CASE op[r] = "totp" /\ t # None
  <2>1. PICK copy : copy = Counted(d)
    OBVIOUS
  <2>2. /\ copy.auth = d.auth /\ copy.passkey = d.passkey /\ copy.totp = d.totp
        /\ copy.attempts = d.attempts + 1 /\ d.attempts \in Nat
    BY <1>1, <2>1, ConstantsAssumption DEF Counted, Record
  <2>3. LoadAs(r, copy) /\ t = d.totp /\ ~Exhausted(d)
    BY <1>1, <1>2, <1>8, <1>13, <2>1 DEF TakeCompleted, TakePasskey, BeginTotpAttempt, IInv, TypeOK
  <2>4. PICK n : n = Spent(t)
    OBVIOUS
  <2>5. n \in Nat
    <3>1. IsFiniteSet(RefusedFor(t))
      BY FS_Subset DEF RefusedFor, OnceInv, RefusalsOK
    <3> QED BY <2>4, <3>1, FS_CardinalityType DEF Spent
  <2>6. n < MaxTotpAttempts /\ n < copy.attempts /\ n <= copy.attempts
    BY <1>4, <1>13, <2>2, <2>3, <2>4, <2>5, ConstantsAssumption DEF Counts, Exhausted
  <2>7. Counts(copy) /\ Holds(copy) \subseteq Holds(Loaded(r))
    BY <1>1, <2>2, <2>3, <2>4, <2>6 DEF Counts, Holds
  <2>8. t \in Holds(Loaded(r)) /\ copy # Loaded(r) /\ t \notin {copy.auth, copy.passkey}
    BY <1>1, <1>7, <1>13, <2>2, <2>3 DEF Holds
  <2>9. op[r] \notin {"exchange", "passkey"}
    BY <1>13
  <2> QED BY <1>1, <1>2, <1>3, <1>8, <1>13, <2>2, <2>3, <2>4, <2>6, <2>7, <2>8, <2>9, WorkAfterLoad
<1>14. CASE op[r] \in {"passkey", "totp"} /\ t = None
  <2>1. LoadAs(r, d) \/ LoadAs(r, WithoutTotp(d))
    BY <1>1, <1>2, <1>8, <1>14 DEF TakeCompleted, TakePasskey, BeginTotpAttempt, IInv, TypeOK
  <2> QED BY <1>9, <1>10, <1>14, <2>1
<1> QED BY <1>2, <1>11, <1>12, <1>13, <1>14 DEF Completes

\* cycle_id removes the record that the copy was loaded from, so the copy is the
\* only place of its logins, the new one included.
LEMMA ElevateWork ==
  ASSUME IInv, OnceInv, TypeOK', \A l \in Request : Steady(l), NEW r \in Request, Elevate(r)
  PROVE  WorkOK(r)' /\ \A i \in Request : store'[i] \in {store[i], None}
<1>1. /\ pc[r] = "elevate" /\ pc'[r] = "respond" /\ sid'[r] = None /\ jwt'[r] = None
      /\ rec'[r] = WithStep(r, rec[r]) /\ modified'[r] /\ taken' = taken /\ op' = op
      /\ UNCHANGED <<issued, refusals, user>>
  BY DEF Elevate, CycleId, Goto, IInv, TypeOK, JwtOK, Answered
<1>2. WorkOK(r) /\ TypeOK /\ op[r] \in FirstFactor \cup {"beginLink"}
  BY <1>1 DEF IInv, OnceInv, TakenOK
<1>3. \A i \in Request : store'[i] = IF i = sid[r] THEN None ELSE store[i]
  BY <1>2, ConstantsAssumption DEF Elevate, CycleId, TypeOK
<1>4. \A i \in Request : OnRecord(i)' = IF i = sid[r] THEN {} ELSE OnRecord(i)
  BY <1>3 DEF OnRecord, Holds
<1>5. PICK d, e : d = rec[r] /\ e = rec'[r] /\ d \in Record
  BY <1>2 DEF TypeOK
<1>6. \A l \in Holds(d) : /\ l \in Request /\ pc'[l] = "done" /\ Needs(l)' = Needs(l) /\ Unissued(l)'
                          /\ \A i \in Request : l \notin OnRecord(i)'
  <2> SUFFICES ASSUME NEW l \in Holds(d)
               PROVE  /\ l \in Request /\ pc'[l] = "done" /\ Needs(l)' = Needs(l) /\ Unissued(l)'
                      /\ \A i \in Request : l \notin OnRecord(i)'
    OBVIOUS
  <2>1. l \in Works(r)
    BY <1>5 DEF Works
  <2>2. l \in Request /\ pc[l] \in Answered /\ l # r
    BY <1>1, <2>1, OwnWork DEF Answered
  <2>3. pc[l] = "done" /\ Unissued(l) /\ \A i \in Request : l \in OnRecord(i) => i = sid[r]
    BY <1>2, <2>1, <2>2 DEF WorkOK
  <2> QED BY <1>1, <1>4, <2>2, <2>3, NeedsKept DEF Unissued
<1>7. Unissued(r)' /\ \A i \in Request : r \notin OnRecord(i)'
  <2>1. \A p \in issued : p = <<p[1], p[2]>> /\ p[1] \in Request /\ p[2] \in Request
    BY <1>2 DEF TypeOK
  <2>2. Unissued(r)'
    BY <1>1, <2>1 DEF IInv, IssuedOK, Unissued, Answered
  <2> QED BY <1>1, <1>4, <2>2 DEF OnceInv, SolePlace
<1>8. \A l : l = r => Spent(l)' = 0
  <2>1. \A p \in refusals : p[1] # r
    BY <1>1 DEF OnceInv, RefusalsOK, Answered
  <2>2. RefusedFor(r)' = {}
    BY <1>1, <2>1 DEF RefusedFor
  <2> QED BY <2>2, FS_EmptySet DEF Spent
<1>9. op[r] \notin Completes
  BY <1>2 DEF Completes, FirstFactor
<1>10. ASSUME /\ Holds(e) \subseteq Holds(d) \cup {r}
              /\ (e.totp = r /\ e.attempts = 0) \/ (e.totp = d.totp /\ e.attempts = d.attempts)
              /\ e.passkey \in {d.passkey, r}
              /\ r \in {e.passkey, e.totp} => Needs(r)
       PROVE  WorkOK(r)'
  <2>1. Works(r)' \subseteq Holds(d) \cup {r}
    BY <1>1, <1>5, <1>9, <1>10 DEF Works
  <2>2. Counts(e)'
    <3>1. CASE e.totp = r /\ e.attempts = 0
      <4>1. PICK l : l = e.totp
        OBVIOUS
      <4>2. Spent(l)' <= e.attempts
        BY <1>8, <3>1, <4>1
      <4> QED BY <4>1, <4>2 DEF Counts
    <3>2. CASE e.totp = d.totp /\ e.attempts = d.attempts
      <4>1. Counts(d)'
        BY <1>1, <1>2, <1>5 DEF WorkOK, Counts, Spent, RefusedFor
      <4> QED BY <3>2, <4>1 DEF Counts
    <3> QED BY <1>10, <3>1, <3>2
  <2>3. Sorted(e)'
    <3>1. Needs(r)' = Needs(r)
      BY <1>1 DEF Needs
    <3>2. \A l \in {d.passkey, d.totp} \ {None} : Needs(l)'
      BY <1>2, <1>5, <1>6 DEF WorkOK, Sorted, Holds
    <3> QED BY <1>10, <3>1, <3>2 DEF Sorted
  <2>4. Counts(rec[r])' /\ Sorted(rec[r])'
    BY <1>5, <2>2, <2>3 DEF Counts, Sorted
  <2>5. \A l \in Works(r)' : (/\ l = r \/ pc[l] = "done"
                              /\ Unissued(l)
                              /\ \A i \in Request : l \in OnRecord(i) => i = sid[r])'
    BY <1>6, <1>7, <2>1
  <2>6. op'[r] \notin {"exchange", "passkey", "totp"}
    BY <1>1, <1>9 DEF Completes
  <2> QED BY <1>1, <2>4, <2>5, <2>6 DEF WorkOK
<1>11. CASE op[r] = "beginLink"
  <2>1. e = [d EXCEPT !.link = r]
    BY <1>1, <1>5, <1>11 DEF WithStep, WithLink
  <2>2. /\ e.auth = d.auth /\ e.passkey = d.passkey /\ e.totp = d.totp /\ e.attempts = d.attempts
    BY <1>5, <2>1 DEF Record
  <2>3. r \notin Holds(d)
    BY <1>1, <1>6
  <2>4. r # None
    BY ConstantsAssumption
  <2> QED BY <1>3, <1>10, <2>2, <2>3, <2>4 DEF Holds
<1>12. CASE op[r] # "beginLink" /\ ~NeedsSecondFactor(r)
  <2>1. e = [d EXCEPT !.auth = r]
    BY <1>1, <1>5, <1>12 DEF WithStep, WithCompleted
  <2>2. /\ e.auth = r /\ e.passkey = d.passkey /\ e.totp = d.totp /\ e.attempts = d.attempts
    BY <1>5, <2>1 DEF Record
  <2>3. r \notin Holds(d)
    BY <1>1, <1>6
  <2>4. r # None
    BY ConstantsAssumption
  <2> QED BY <1>3, <1>10, <2>2, <2>3, <2>4 DEF Holds
<1>13. CASE op[r] # "beginLink" /\ NeedsSecondFactor(r)
  <2>1. e = IF Second[user[r]] = "passkey" THEN WithPasskeyLogin(r, d) ELSE WithTotpLogin(r, d)
    BY <1>1, <1>5, <1>13 DEF WithStep
  <2>2. \/ /\ e.auth = d.auth /\ e.passkey = r /\ e.totp = d.totp /\ e.attempts = d.attempts
        \/ /\ e.auth = d.auth /\ e.passkey = d.passkey /\ e.totp = r /\ e.attempts = 0
    BY <1>5, <2>1 DEF WithPasskeyLogin, WithTotpLogin, Record
  <2>3. Needs(r)
    BY <1>13 DEF NeedsSecondFactor, KindOf, Needs
  <2>4. Holds(e) \subseteq Holds(d) \cup {r}
    BY <2>2 DEF Holds
  <2>5. /\ (e.totp = r /\ e.attempts = 0) \/ (e.totp = d.totp /\ e.attempts = d.attempts)
        /\ e.passkey \in {d.passkey, r}
        /\ r \in {e.passkey, e.totp} => Needs(r)
    BY <2>2, <2>3
  <2>6. WorkOK(r)'
    BY <1>10, <2>4, <2>5, Zenon
  <2> QED BY <1>3, <2>6
<1> QED BY <1>11, <1>12, <1>13

\* A request that goes on with what it took, or is refused: a login it answers
\* with is off its copy.
LEMMA VerifyWork ==
  ASSUME IInv, OnceInv, TypeOK', \A l \in Request : Steady(l), NEW r \in Request,
         \/ SaveTaken(r) \/ StartLink(r) \/ CallbackRefused(r) \/ LinkCallback(r)
         \/ LoginCallback(r) \/ ExchangeForJwt(r) \/ CompletePasskey(r) \/ CompleteTotp(r)
  PROVE  /\ WorkOK(r)'
         /\ SaveTaken(r) \/ store' = store
<1> USE DEF Goto
<1>1. /\ pc[r] \in {"save", "verify"} /\ jwt[r] = None /\ taken[r] # None /\ taken[r] \in Request
  BY DEF SaveTaken, StartLink, CallbackRefused, LinkCallback, LoginCallback, ExchangeForJwt,
     CompletePasskey, CompleteTotp, IInv, TypeOK, TakenOK, JwtOK, Answered
<1>2. /\ op' = op /\ user' = user /\ taken' = taken /\ sid' = sid /\ modified' = modified
      /\ UNCHANGED <<issued, refusals>>
  BY DEF SaveTaken, StartLink, CallbackRefused, LinkCallback, LoginCallback, ExchangeForJwt,
     CompletePasskey, CompleteTotp, session, history
<1>3. WorkOK(r) /\ TypeOK /\ (pc[r] = "save" => sid[r] # None /\ op[r] \notin Completes)
  BY DEF IInv, OnceInv, TakenOK, Completes
<1>4. PICK d, e, t, j : d = rec[r] /\ e = rec'[r] /\ t = taken[r] /\ j = jwt'[r] /\ d \in Record
  BY <1>3 DEF TypeOK
<1>5. SaveTaken(r) \/ store' = store
  BY DEF StartLink, CallbackRefused, LinkCallback, LoginCallback, ExchangeForJwt, CompletePasskey,
     CompleteTotp
<1>6. \A i \in Request : i # sid[r] => OnRecord(i)' = OnRecord(i)
  <2>1. \A i \in Request : i # sid[r] => store'[i] = store[i]
    BY <1>3, <1>5 DEF SaveTaken, TypeOK
  <2> QED BY <2>1 DEF OnRecord, Holds
<1>7. /\ pc'[r] \in {"verify", "elevate", "respond", "respondError"}
      /\ pc'[r] = "verify" => pc[r] = "save"
  BY <1>3 DEF SaveTaken, StartLink, CallbackRefused, LinkCallback, LoginCallback, ExchangeForJwt,
     CompletePasskey, CompleteTotp, Answer, Refuse, TypeOK
<1>8. /\ e.auth = d.auth /\ e.passkey = d.passkey
      /\ \/ e.totp = d.totp /\ e.attempts = d.attempts
         \/ e.totp = None /\ op[r] = "totp"
  <2>1. \/ e = d
        \/ e = [d EXCEPT !.ext = taken[r]]
        \/ e = WithoutTotp(d) /\ op[r] = "totp"
    BY <1>3, <1>4 DEF SaveTaken, StartLink, CallbackRefused, LinkCallback, LoginCallback,
       ExchangeForJwt, CompletePasskey, CompleteTotp, session, TypeOK
  <2> QED BY <1>4, <2>1 DEF WithoutTotp, Record
<1>9. j = None \/ /\ j = t /\ op[r] \in Completes /\ pc[r] = "verify" /\ pc'[r] = "respond"
                  /\ op[r] = "totp" => e.totp = None
                  /\ op[r] # "totp" => e = d
  <2>1. CASE SaveTaken(r) \/ StartLink(r) \/ CallbackRefused(r) \/ LinkCallback(r) \/ LoginCallback(r)
    BY <1>1, <1>4, <2>1 DEF SaveTaken, StartLink, CallbackRefused, LinkCallback, LoginCallback
  <2>2. CASE ExchangeForJwt(r) \/ CompletePasskey(r)
    BY <1>1, <1>3, <1>4, <2>2 DEF ExchangeForJwt, CompletePasskey, Answer, Refuse, Completes,
       TypeOK, session
  <2>3. CASE CompleteTotp(r)
    <3>1. j = None \/ (j = t /\ e = WithoutTotp(d) /\ pc'[r] = "respond")
      BY <1>1, <1>3, <1>4, <2>3 DEF CompleteTotp, Answer, Refuse, TypeOK
    <3>2. op[r] = "totp" /\ pc[r] = "verify" /\ (e = WithoutTotp(d) => e.totp = None)
      BY <1>4, <2>3 DEF CompleteTotp, WithoutTotp, Record
    <3> QED BY <3>1, <3>2 DEF Completes
  <2> QED BY <2>1, <2>2, <2>3
<1>10. Holds(e) \subseteq Holds(d)
  BY <1>8 DEF Holds
<1>11. Works(r)' \subseteq Works(r)
  <2>1. Works(r)' = Holds(e) \cup (({j} \cup (IF op[r] \in Completes THEN {t} ELSE {})) \ {None})
    BY <1>2, <1>4 DEF Works, Holds
  <2> QED BY <1>4, <1>9, <1>10, <2>1 DEF Works
<1>12. \A l \in Works(r) : (/\ l = r \/ pc[l] = "done"
                            /\ Unissued(l)
                            /\ \A i \in Request : l \in OnRecord(i) => i = sid[r])'
  <2>1. \A l \in Works(r) : /\ l = r \/ pc'[l] = "done"
                            /\ Unissued(l)'
    BY <1>2, <1>3, OwnWork, NeedsKept DEF WorkOK, Unissued
  <2>2. \A l \in Works(r) : \A i \in Request : l \in OnRecord(i)' => i = sid[r]
    BY <1>3, <1>6 DEF WorkOK
  <2> QED BY <1>2, <2>1, <2>2
<1>13. Counts(e)' /\ Sorted(e)'
  <2>1. Counts(d)'
    BY <1>2, <1>3, <1>4 DEF WorkOK, Counts, Spent, RefusedFor
  <2>2. Counts(e)'
    BY <1>8, <2>1 DEF Counts
  <2>3. \A l \in {d.passkey, d.totp} \ {None} : Needs(l)'
    BY <1>2, <1>3, <1>4 DEF WorkOK, Sorted, Needs
  <2> QED BY <1>8, <2>2, <2>3 DEF Sorted
<1>14. Counts(rec[r])' /\ Sorted(rec[r])'
  BY <1>4, <1>13 DEF Counts, Sorted
<1>15. /\ op[r] = "totp" =>
            /\ Spent(t) < MaxTotpAttempts
            /\ d.totp = t => Spent(t) < d.attempts
       /\ modified[r]
  BY <1>1, <1>3, <1>4 DEF WorkOK
<1>16. (taken[r] # None =>
          /\ modified[r]
          /\ op[r] = "totp" =>
               /\ Spent(taken[r]) < MaxTotpAttempts
               /\ rec[r].totp = taken[r] => Spent(taken[r]) < rec[r].attempts
          /\ pc[r] = "verify" /\ op[r] \in {"exchange", "passkey"} => taken[r] \notin Holds(rec[r])
          /\ pc[r] = "verify" /\ op[r] = "totp" => taken[r] \notin {rec[r].auth, rec[r].passkey})'
  <2>1. Spent(t)' = Spent(t) /\ taken'[r] = t /\ rec'[r] = e /\ op'[r] = op[r]
    BY <1>2, <1>4 DEF Spent, RefusedFor
  <2>2. pc'[r] = "verify" => op[r] \notin {"exchange", "passkey", "totp"}
    BY <1>3, <1>7 DEF Completes
  <2>3. op[r] = "totp" => Spent(t)' < MaxTotpAttempts /\ (e.totp = t => Spent(t)' < e.attempts)
    BY <1>1, <1>4, <1>8, <1>15, <2>1
  <2> QED BY <1>2, <1>15, <2>1, <2>2, <2>3
<1>17. j # None => /\ pc'[r] = "respond" /\ j \notin Holds(e) /\ modified'[r]
  <2> SUFFICES ASSUME j # None PROVE pc'[r] = "respond" /\ j \notin Holds(e) /\ modified'[r]
    OBVIOUS
  <2>1. /\ pc'[r] = "respond" /\ j = t /\ pc[r] = "verify" /\ op[r] \in Completes
        /\ op[r] = "totp" => e.totp = None
        /\ op[r] # "totp" => e = d
    BY <1>9
  <2>2. /\ op[r] \in {"exchange", "passkey"} => t \notin Holds(d)
        /\ op[r] = "totp" => t \notin {d.auth, d.passkey}
    BY <1>1, <1>3, <1>4, <2>1 DEF WorkOK
  <2>3. CASE op[r] = "totp"
    BY <1>2, <1>8, <1>15, <2>1, <2>2, <2>3 DEF Holds
  <2>4. CASE op[r] # "totp"
    BY <1>2, <1>15, <2>1, <2>2, <2>4 DEF Completes
  <2> QED BY <2>3, <2>4
<1>18. WorkOK(r)'
  <2>1. (jwt[r] # None => /\ pc[r] = "respond" /\ jwt[r] \notin Holds(rec[r])
                          /\ jwt[r] = r \/ modified[r])'
    BY <1>4, <1>17 DEF Holds
  <2> QED BY <1>11, <1>12, <1>14, <1>16, <2>1 DEF WorkOK
<1> QED BY <1>5, <1>18

----------------------------------------------------------------------------
(* The answer, and the whole step *)

\* A request that is over, or not begun, works on nothing.
LEMMA NoWork ==
  ASSUME NEW r \in Request, rec'[r] = Empty, taken'[r] = None, jwt'[r] = None
  PROVE  WorkOK(r)'
<1>1. (Counts(rec[r]) /\ Sorted(rec[r]))' /\ Works(r)' = {}
  BY DEF Counts, Sorted, Works, Holds, Empty
<1> QED BY <1>1 DEF WorkOK

\* What an answer adds to the history.
LEMMA AnswerCounts ==
  ASSUME IInv, OnceInv, TypeOK', \A l \in Request : Steady(l), NEW r \in Request, Respond(r)
  PROVE  /\ (ExchangedOnce /\ TotpAttemptsBounded /\ RefusalsOK)'
         /\ \A l \in Request : l # jwt[r] => (Unissued(l) => Unissued(l)')
         /\ \A l \in Request : Spent(l)' \in {Spent(l), Spent(l) + 1}
         /\ \A l \in Request :
              ~(op[r] = "totp" /\ l = taken[r] /\ jwt[r] = None /\ pc[r] = "respond") =>
                RefusedFor(l)' = RefusedFor(l)
<1>1. PICK j, t : j = jwt[r] /\ t = taken[r]
  OBVIOUS
<1>2. WorkOK(r) /\ TypeOK /\ TypeOK' /\ ExchangedOnce /\ TotpAttemptsBounded /\ RefusalsOK
  BY DEF OnceInv, IInv
<1>3. issued' = IF j = None THEN issued ELSE issued \cup {<<j, r>>}
  BY <1>1 DEF Respond
<1>4. refusals' = IF op[r] = "totp" /\ t # None /\ j = None /\ pc[r] = "respond"
                  THEN refusals \cup {<<t, r>>} ELSE refusals
  BY <1>1 DEF Respond
<1>5. \A p \in issued : p = <<p[1], p[2]>>
  BY <1>2 DEF TypeOK
<1>6. j # None => Unissued(j)
  BY <1>1, <1>2 DEF WorkOK, Works
<1>7. ExchangedOnce'
  BY <1>2, <1>3, <1>5, <1>6 DEF ExchangedOnce, Unissued
<1>8. \A l \in Request : l # j => (Unissued(l) => Unissued(l)')
  BY <1>3 DEF Unissued
<1>9. \A l \in Request : ~(op[r] = "totp" /\ l = t /\ j = None /\ pc[r] = "respond") =>
        RefusedFor(l)' = RefusedFor(l)
  BY <1>4 DEF RefusedFor
<1>10. \A l \in Request : IsFiniteSet(RefusedFor(l)) /\ Spent(l) \in Nat
  <2> SUFFICES ASSUME NEW l \in Request PROVE IsFiniteSet(RefusedFor(l)) /\ Spent(l) \in Nat
    OBVIOUS
  <2>1. RefusedFor(l) \subseteq refusals
    BY DEF RefusedFor
  <2>2. IsFiniteSet(RefusedFor(l))
    BY <1>2, <2>1, FS_Subset DEF RefusalsOK
  <2> QED BY <2>2, FS_CardinalityType DEF Spent
<1>11. \A l \in Request : Spent(l)' \in {Spent(l), Spent(l) + 1}
  <2> SUFFICES ASSUME NEW l \in Request PROVE Spent(l)' \in {Spent(l), Spent(l) + 1}
    OBVIOUS
  <2>1. RefusedFor(l)' = RefusedFor(l) \/ RefusedFor(l)' = RefusedFor(l) \cup {<<t, r>>}
    BY <1>4 DEF RefusedFor
  <2>2. PICK S, x : S = RefusedFor(l) /\ x = <<t, r>>
    OBVIOUS
  <2>3. Cardinality(S \cup {x}) \in {Cardinality(S), Cardinality(S) + 1}
    <3>1. IsFiniteSet(S)
      BY <1>10, <2>2
    <3> QED BY <3>1, FS_AddElement
  <2> QED BY <2>1, <2>2, <2>3 DEF Spent
<1>12. TotpAttemptsBounded'
  <2> SUFFICES ASSUME NEW l \in Request PROVE Spent(l)' <= MaxTotpAttempts
    BY DEF TotpAttemptsBounded, Spent, RefusedFor
  <2>1. CASE RefusedFor(l)' = RefusedFor(l)
    <3>1. Spent(l)' = Spent(l) /\ Spent(l) <= MaxTotpAttempts
      BY <1>2, <2>1 DEF Spent, TotpAttemptsBounded, RefusedFor
    <3> QED BY <3>1
  <2>2. CASE RefusedFor(l)' # RefusedFor(l)
    <3>1. l = t /\ op[r] = "totp" /\ t # None
      BY <1>9, <2>2, ConstantsAssumption
    <3>2. Spent(l) < MaxTotpAttempts
      BY <1>1, <1>2, <3>1 DEF WorkOK
    <3> QED BY <1>10, <1>11, <3>2, ConstantsAssumption
  <2> QED BY <2>1, <2>2
<1>13. RefusalsOK'
  <2>1. IsFiniteSet(refusals')
    <3>1. refusals' = refusals \/ refusals' = refusals \cup {<<t, r>>}
      BY <1>4
    <3>2. PICK S, x : S = refusals /\ x = <<t, r>>
      OBVIOUS
    <3>3. IsFiniteSet(S) => IsFiniteSet(S \cup {x})
      BY FS_AddElement
    <3> QED BY <1>2, <3>1, <3>2, <3>3 DEF RefusalsOK
  <2>2. t # None => t \in Request /\ pc'[t] \in Answered
    BY <1>1, <1>2, NeedsKept DEF IInv, TakenOK, TypeOK
  <2>3. \A p \in refusals : p[1] \in Request /\ pc'[p[1]] \in Answered
    BY <1>2, NeedsKept DEF RefusalsOK, TypeOK
  <2>4. \A p \in refusals' : p \in refusals \/ (t # None /\ p[1] = t)
    BY <1>4
  <2> QED BY <2>1, <2>2, <2>3, <2>4 DEF RefusalsOK
<1> QED BY <1>1, <1>7, <1>8, <1>9, <1>11, <1>12, <1>13

\* What a request does not work on, its answer does not change.
LEMMA AnswerAffects ==
  ASSUME IInv, OnceInv, TypeOK', \A l \in Request : Steady(l), NEW r \in Request, Respond(r),
         NEW l \in Request \ Works(r)
  PROVE  Unaffected(l)
<1>1. l # None
  BY ConstantsAssumption
<1>2. l # jwt[r] /\ ~(op[r] = "totp" /\ l = taken[r])
  BY <1>1 DEF Works, Completes
<1> QED BY <1>2, AnswerCounts DEF Unaffected

\* The saved copy is without the login that was answered with, or with one
\* more attempt counted; a login that is answered with is on no other record.
LEMMA AnswerPlaces ==
  ASSUME IInv, OnceInv, TypeOK', \A l \in Request : Steady(l), NEW r \in Request, Respond(r)
  PROVE  SolePlace' /\ \A l \in Request \ Works(r) : NowhereNew(l)
<1>1. /\ WorkOK(r) /\ TypeOK /\ modified[r] \in BOOLEAN /\ pc[r] \in {"respond", "respondError"}
      /\ pc'[r] = "done"
  BY DEF OnceInv, IInv, TypeOK, Respond, Goto
<1>2. CASE modified[r] /\ pc[r] = "respond"
  <2>1. store' = [store EXCEPT ![IdOf(r)] = rec[r]] /\ IdOf(r) \in Request
    BY <1>1, <1>2 DEF Respond, IdOf, TypeOK
  <2>2. \A l \in Request \ Works(r) : Unaffected(l)
    BY AnswerAffects
  <2>3. \A l \in Holds(rec[r]) : l \in Works(r) /\ l \in Request /\ pc[l] \in Answered
    BY OwnWork DEF Works
  <2>4. \A l \in Holds(rec[r]) : Unissued(l)'
    BY <1>1, <2>3, AnswerCounts DEF WorkOK, Holds
  <2>5. \A l \in Holds(rec[r]) : pc'[l] = "done" /\ Needs(l)' = Needs(l)
    BY <1>1, <2>3, NeedsKept DEF WorkOK
  <2>6. ASSUME NEW l \in Holds(rec[r]), rec[r].totp = l PROVE Spent(l)' <= rec[r].attempts
    <3>1. Spent(l) <= rec[r].attempts /\ l # None
      BY <1>1, <2>6 DEF WorkOK, Counts, Holds
    <3>2. CASE RefusedFor(l)' = RefusedFor(l)
      BY <3>1, <3>2 DEF Spent
    <3>3. CASE op[r] = "totp" /\ l = taken[r]
      <4>1. Spent(l) < rec[r].attempts
        BY <1>1, <2>6, <3>1, <3>3 DEF WorkOK
      <4>2. Spent(l)' \in {Spent(l), Spent(l) + 1}
        BY <2>3, AnswerCounts
      <4>3. PICK n, m : n = Spent(l) /\ m = Spent(l)'
        OBVIOUS
      <4>4. n \in Nat
        <5>1. IsFiniteSet(RefusedFor(l))
          <6>1. RefusedFor(l) \subseteq refusals
            BY DEF RefusedFor
          <6> QED BY <6>1, FS_Subset DEF OnceInv, RefusalsOK
        <5> QED BY <4>3, <5>1, FS_CardinalityType DEF Spent
      <4>5. rec[r].attempts \in Nat
        BY <1>1, ConstantsAssumption DEF TypeOK, Record
      <4> QED BY <4>1, <4>2, <4>3, <4>4, <4>5
    <3> QED BY <2>3, <3>2, <3>3, AnswerCounts
  <2> QED BY <2>1, <2>2, <2>4, <2>5, <2>6, PlaceSaved
<1>3. CASE ~(modified[r] /\ pc[r] = "respond")
  <2>1. store' = store
    BY <1>3 DEF Respond
  <2>2. ASSUME NEW i \in Request, NEW l \in OnRecord(i) PROVE Unaffected(l)
    <3>1. l \in Request /\ pc[l] = "done" /\ l # r
      BY <1>1, RecordLogins DEF OnceInv, SolePlace
    <3>2. l # jwt[r]
      BY <1>1, <1>3, <3>1, ConstantsAssumption DEF WorkOK
    <3>3. ~(op[r] = "totp" /\ l = taken[r] /\ jwt[r] = None /\ pc[r] = "respond")
      BY <1>1, <1>3, <3>1, ConstantsAssumption DEF WorkOK
    <3> QED BY <3>1, <3>2, <3>3, AnswerCounts DEF Unaffected
  <2> QED BY <2>1, <2>2, PlaceKept
<1> QED BY <1>2, <1>3

\* Every step of one request, with the others on logins of their own.
LEMMA OnceHandled ==
  ASSUME IInv, OnceInv, OneAtATime, TypeOK', \A l \in Request : Steady(l),
         NEW r \in Request, Alone(r), \A q \in Request : q # r => modified'[q] = modified[q],
         WorkOK(r)', SolePlace', (ExchangedOnce /\ TotpAttemptsBounded /\ RefusalsOK)',
         \A l \in Request \ Works(r) : Unaffected(l) /\ NowhereNew(l)
  PROVE  OnceInv'
<1>1. ASSUME NEW q \in Request, q # r PROVE WorkOK(q)'
  <2>1. \A l \in Works(q) : Unaffected(l) /\ NowhereNew(l)
    BY <1>1, OwnWork, WorkApart
  <2>2. Same(q) /\ modified'[q] = modified[q]
    BY <1>1 DEF Alone
  <2> QED BY <2>1, <2>2, WorkUntouched
<1>2. (\A q \in Request : WorkOK(q))'
  BY <1>1
<1> QED BY <1>2 DEF OnceInv

\* A handler's step, with what IInv says of it already.
LEMMA OnceStepHandle ==
  ASSUME IInv, OnceInv, OneAtATime, TypeOK', \A l \in Request : Steady(l),
         NEW r \in Request, Handle(r) \/ Drop(r), Alone(r)
  PROVE  OnceInv'
<1>1. \A q \in Request : q # r => modified'[q] = modified[q]
  BY WorkFrame DEF IInv
<1>2. CASE Respond(r)
  <2>1. rec'[r] = Empty /\ taken'[r] = None /\ jwt'[r] = None
    BY <1>2 DEF Respond, IInv, TypeOK
  <2>2. WorkOK(r)'
    BY <2>1, NoWork
  <2>3. \A l \in Request \ Works(r) : Unaffected(l) /\ NowhereNew(l)
    BY <1>2, AnswerAffects, AnswerPlaces
  <2> QED BY <1>1, <1>2, <2>2, <2>3, AnswerCounts, AnswerPlaces, OnceHandled
<1>3. CASE ~Respond(r) /\ WorkOK(r)' /\ \A i \in Request : store'[i] \in {store[i], None}
  <2>1. UNCHANGED <<issued, refusals>>
    BY <1>3, WorkFrame DEF IInv
  <2>2. (ExchangedOnce /\ TotpAttemptsBounded /\ RefusalsOK)' /\ \A l : Unaffected(l)
    BY <2>1, HistoryQuiet
  <2>3. SolePlace' /\ \A l : NowhereNew(l)
    BY <1>3, <2>2, PlaceKept
  <2> QED BY <1>1, <1>3, <2>2, <2>3, OnceHandled
<1>4. CASE SaveTaken(r)
  <2>1. UNCHANGED <<issued, refusals>>
    BY <1>4 DEF SaveTaken, history
  <2>2. (ExchangedOnce /\ TotpAttemptsBounded /\ RefusalsOK)' /\ \A l : Unaffected(l)
    BY <2>1, HistoryQuiet
  <2>3. IdOf(r) \in Request /\ store' = [store EXCEPT ![IdOf(r)] = rec[r]]
    BY <1>4 DEF SaveTaken, IdOf, IInv, TakenOK, TypeOK
  <2>4. \A l \in Holds(rec[r]) : Unissued(l)' /\ pc'[l] = "done" /\ Needs(l)' = Needs(l)
    <3>1. WorkOK(r) /\ pc[r] = "save"
      BY <1>4 DEF OnceInv, SaveTaken
    <3>2. \A l \in Holds(rec[r]) : l \in Works(r) /\ l \in Request /\ pc[l] \in Answered /\ l # r
      BY <3>1, OwnWork DEF Works, Answered
    <3> QED BY <2>2, <3>1, <3>2, NeedsKept DEF WorkOK, Unaffected
  <2>5. \A l \in Holds(rec[r]) : rec[r].totp = l => Spent(l)' <= rec[r].attempts
    BY <2>2 DEF OnceInv, WorkOK, Counts, Holds, Spent, Unaffected
  <2>6. SolePlace' /\ \A l \in Request \ Works(r) : NowhereNew(l)
    BY <2>2, <2>3, <2>4, <2>5, PlaceSaved
  <2>7. WorkOK(r)'
    BY <1>4, VerifyWork
  <2> QED BY <1>1, <2>2, <2>6, <2>7, OnceHandled
<1>5. CASE Drop(r)
  <2>1. rec'[r] = Empty /\ taken'[r] = None /\ jwt'[r] = None /\ store' = store
    BY <1>5 DEF Drop, IInv, TypeOK
  <2>2. WorkOK(r)' /\ \A i \in Request : store'[i] \in {store[i], None}
    BY <2>1, NoWork
  <2> QED BY <1>2, <1>3, <2>2
<1>6. CASE LoginLocal(r) \/ ExchangeExternal(r) \/ BeginLink(r) \/ BeginExternal(r)
  BY <1>2, <1>3, <1>6, BeginWork
<1>7. CASE TakeLink(r) \/ TakeLogin(r)
  BY <1>2, <1>3, <1>7, TakeStepWork
<1>8. CASE TakeCompleted(r) \/ TakePasskey(r) \/ BeginTotpAttempt(r)
  BY <1>2, <1>3, <1>8, TakeLoginWork
<1>9. CASE Elevate(r)
  BY <1>2, <1>3, <1>9, ElevateWork
<1>10. CASE \/ StartLink(r) \/ CallbackRefused(r) \/ LinkCallback(r) \/ LoginCallback(r)
            \/ ExchangeForJwt(r) \/ CompletePasskey(r) \/ CompleteTotp(r)
  BY <1>2, <1>3, <1>4, <1>10, VerifyWork
<1> QED BY <1>2, <1>4, <1>5, <1>6, <1>7, <1>8, <1>9, <1>10 DEF Handle

LEMMA OnceInit == Init => OnceInv
<1> SUFFICES ASSUME Init PROVE OnceInv
  OBVIOUS
<1>1. /\ issued = {} /\ refusals = {}
      /\ \A i \in Request : OnRecord(i) = {} /\ store[i] = None
      /\ \A r \in Request : rec[r] = Empty /\ taken[r] = None /\ jwt[r] = None
  BY DEF Init, OnRecord
<1>2. ExchangedOnce /\ SolePlace
  BY <1>1 DEF ExchangedOnce, SolePlace
<1>3. TotpAttemptsBounded /\ RefusalsOK
  <2>1. \A l : RefusedFor(l) = {} /\ Spent(l) = 0
    BY <1>1, FS_EmptySet DEF RefusedFor, Spent
  <2>2. IsFiniteSet(refusals)
    BY <1>1, FS_EmptySet
  <2> QED BY <1>1, <2>1, <2>2, ConstantsAssumption
          DEF TotpAttemptsBounded, RefusalsOK, Spent, RefusedFor
<1>4. ASSUME NEW r \in Request PROVE WorkOK(r)
  <2>1. Counts(rec[r]) /\ Sorted(rec[r]) /\ Works(r) = {}
    BY <1>1 DEF Counts, Sorted, Works, Holds, Empty
  <2> QED BY <1>1, <2>1 DEF WorkOK
<1> QED BY <1>2, <1>3, <1>4 DEF OnceInv

LEMMA OnceStep == IInv /\ OnceInv /\ OneAtATime /\ [Next]_vars => OnceInv'
<1> SUFFICES ASSUME IInv, OnceInv, OneAtATime, [Next]_vars PROVE OnceInv'
  OBVIOUS
<1>1. TypeOK'
  BY TypeStep
<1>2. (\A l \in Request : Steady(l)) /\ \A c \in Client : known[c] \subseteq known'[c]
  BY Steadiness DEF IInv
<1>3. ASSUME UNCHANGED <<issued, refusals>>, \A i \in Request : store'[i] \in {store[i], None},
             \A q \in Request : (Same(q) /\ modified'[q] = modified[q]) \/ WorkOK(q)'
      PROVE  OnceInv'
  <2>1. (ExchangedOnce /\ TotpAttemptsBounded /\ RefusalsOK)' /\ \A l : Unaffected(l)
    BY <1>1, <1>2, <1>3, HistoryQuiet
  <2>2. SolePlace' /\ \A l : NowhereNew(l)
    BY <1>1, <1>2, <1>3, <2>1, PlaceKept
  <2>3. ASSUME NEW q \in Request PROVE WorkOK(q)'
    BY <1>2, <1>3, <2>1, <2>2, WorkUntouched
  <2>4. (\A q \in Request : WorkOK(q))'
    BY <2>3
  <2> QED BY <2>1, <2>2, <2>4 DEF OnceInv
<1>4. ASSUME NEW r \in Request, NEW c \in Client, NEW o \in Ops, NEW u \in User \cup {None},
             Send(r, c, o, u)
      PROVE  OnceInv'
  <2>1. Alone(r) /\ UNCHANGED <<issued, refusals, store, modified, rec, taken, jwt>>
    BY <1>1, <1>2, <1>4, SendKeeps DEF Send, history
  <2>2. rec[r] = Empty /\ taken[r] = None /\ jwt[r] = None
    BY <1>4 DEF Send, IInv, CopyOK, JwtOK, Answered
  <2>3. WorkOK(r)'
    BY <2>1, <2>2, NoWork
  <2> QED BY <1>3, <2>1, <2>3 DEF Alone
<1>5. ASSUME NEW r \in Request, Handle(r) \/ Drop(r) PROVE OnceInv'
  <2>1. Alone(r)
    BY <1>1, <1>2, <1>5, FirstFactorKeeps, LoadKeeps, TakeKeeps, TakeLoginKeeps, ElevateKeeps,
       VerifyKeeps, EndKeeps DEF Handle
  <2> QED BY <1>1, <1>2, <1>5, <2>1, OnceStepHandle
<1>6. ASSUME NEW r \in Request, Forget(r) PROVE OnceInv'
  BY <1>3, <1>6 DEF Forget, Same, session, history, IInv, TypeOK
<1>7. ASSUME NEW c \in Client, NEW d \in Client, Plant(c, d) PROVE OnceInv'
  BY <1>3, <1>7 DEF Plant, Same, session, history
<1>8. CASE Tick
  BY <1>3, <1>8 DEF Tick, Same, session, history
<1>9. CASE UNCHANGED vars
  BY <1>3, <1>9 DEF vars, Same, session, history
<1> QED BY <1>4, <1>5, <1>6, <1>7, <1>8, <1>9 DEF Next

\* When no browser sends a request before its last one is over, a login that
\* was begun is worth one JWT, as many refused codes as the session counts,
\* and nothing after its age; whatever the requests of other browsers do in
\* between. Of two requests of one browser, each may work on its own copy of
\* the record, and both take the login (see MCLoginSessionExchange).
THEOREM LoginsRunOutPerBrowser == Spec /\ []OneAtATime => []LoginsRunOut
<1>1. OnceInv /\ IInv => TypeOK /\ ExchangedOnce /\ TotpAttemptsBounded
  BY DEF OnceInv, IInv
<1>2. TypeOK /\ ExchangedOnce /\ TotpAttemptsBounded /\ StaleLoginsDie => LoginsRunOut
  BY DEF LoginsRunOut
<1> QED BY <1>1, <1>2, Invariance, OldLoginsDie, OnceInit, OnceStep, PTL DEF Spec

\* No second request is sent while one is handled.
LEMMA Sequential ==
  ASSUME MaxConcurrent = 1
  PROVE  Spec => []OneAtATime
<1> DEFINE Sole == \A q, r \in Request : Running(q) /\ Running(r) => q = r
<1>1. Init => Sole
  BY DEF Init, Running
<1>2. IInv /\ Sole /\ [Next]_vars => Sole'
  <2> SUFFICES ASSUME IInv, Sole, [Next]_vars PROVE Sole'
    OBVIOUS
  <2>1. CASE \A q \in Request : Running(q)' => Running(q)
    BY <2>1
  <2>2. ASSUME NEW r \in Request, NEW c \in Client, NEW o \in Ops, NEW u \in User \cup {None},
               Send(r, c, o, u)
        PROVE  Sole'
    <3>1. PICK S : S = {q \in Request : pc[q] \notin {"idle", "done"}}
      OBVIOUS
    <3>2. IsFiniteSet(S) /\ Cardinality(S) < 1
      BY <2>2, <3>1, ConstantsAssumption, FS_Subset DEF Send
    <3>3. S = {}
      BY <3>2, FS_CardinalityType, FS_EmptySet
    <3>4. \A q \in Request : q # r => pc'[q] = pc[q]
      BY <2>2 DEF Send, Goto, IInv, TypeOK
    <3> QED BY <3>1, <3>3, <3>4 DEF Running
  <2>3. ASSUME NEW r \in Request, Handle(r) \/ Drop(r)
        PROVE  \A q \in Request : Running(q)' => Running(q)
    <3>1. TypeOK' /\ (\A l \in Request : Steady(l)) /\ \A c \in Client : known[c] \subseteq known'[c]
      BY TypeStep, Steadiness DEF IInv
    <3>2. Alone(r)
      BY <2>3, <3>1, FirstFactorKeeps, LoadKeeps, TakeKeeps, TakeLoginKeeps, ElevateKeeps,
         VerifyKeeps, EndKeeps DEF Handle
    <3>3. Running(r)
      BY <2>3 DEF Running, Handle, Drop, LoginLocal, ExchangeExternal, BeginLink, Elevate,
         BeginExternal, TakeLink, TakeLogin, SaveTaken, StartLink, CallbackRefused, LinkCallback,
         LoginCallback, TakeCompleted, TakePasskey, BeginTotpAttempt, ExchangeForJwt,
         CompletePasskey, CompleteTotp, Respond
    <3> QED BY <3>2, <3>3 DEF Alone, Same, Running
  <2>4. ASSUME UNCHANGED pc PROVE \A q \in Request : Running(q)' => Running(q)
    BY <2>4 DEF Running
  <2>5. \/ \E r \in Request, c \in Client, o \in Ops, u \in User \cup {None} : Send(r, c, o, u)
        \/ \E r \in Request : Handle(r) \/ Drop(r)
        \/ UNCHANGED pc
    BY DEF Next, Forget, Plant, Tick, vars
  <2> QED BY <2>1, <2>2, <2>3, <2>4, <2>5
<1>3. Sole => OneAtATime
  BY DEF OneAtATime
<1> QED BY <1>1, <1>2, <1>3, Invariance, PTL DEF Spec

\* The run MCLoginSessionSequential checks this on four requests.
THEOREM SequentialLoginsRunOut ==
  ASSUME MaxConcurrent = 1
  PROVE  Spec => []LoginsRunOut
BY Sequential, LoginsRunOutPerBrowser, PTL
=============================================================================
