---------------------------- MODULE LoginTokens ----------------------------
(***************************************************************************)
(* The login tokens a web app keeps in localStorage, shared by its tabs    *)
(* (auth/client/ts/src/tokens.ts, createLoginTokens). A call runs to its   *)
(* end within one tab; between calls the other tabs change the stored      *)
(* value, which a tab reads at once and is told of later, by the storage   *)
(* event. Reading and writing the storage may fail.                        *)
(***************************************************************************)
EXTENDS Integers, FiniteSets, FiniteSetsExt

CONSTANTS
  Tab,        \* the open tabs
  Account,    \* the user ids, integers: tokens are kept sorted by them
  MaxChanges  \* bound on the changes made

VARIABLES
  storage,    \* the stored value: current user and tokens, or Garbled
  tab,        \* per tab: raw, state, selected, notifiedRaw, subscribed
  events,     \* per tab: whether a storage event is on its way to it
  missed,     \* history, per tab: its listeners may be behind, and why is known
  changes     \* how many changes were made; it numbers the jwts

tabVars == <<storage, tab, events, missed, changes>>

NoUser == 0
Garbled == [garbled |-> TRUE]   \* not what this module stores
NoTokens == [f \in {} |-> 0]
SignedOut == [current |-> NoUser, tokens |-> NoTokens]

ParseLoginTokens(stored) == IF stored = Garbled THEN SignedOut ELSE stored

Opened(stored) ==
  [raw |-> stored, state |-> ParseLoginTokens(stored), notifiedRaw |-> stored,
   selected |-> ParseLoginTokens(stored).current, subscribed |-> FALSE]

TokensInit ==
  /\ storage \in {SignedOut, Garbled, [current |-> NoUser, tokens |-> [u \in Account |-> 0]]}
  /\ tab = [t \in Tab |-> Opened(storage)]
  /\ events = [t \in Tab |-> FALSE]
  /\ missed = [t \in Tab |-> FALSE]
  /\ changes = 0

\* load: the tab keeps what it knows when the read fails.
LoadStored(t, readable) ==
  IF readable /\ storage # tab[t].raw
  THEN [tab[t] EXCEPT !.raw = storage, !.state = ParseLoginTokens(storage)]
  ELSE tab[t]

\* save: the other tabs get an event if the stored value changed.
SaveTokens(t, loaded, next, selected, readable, writable) ==
  LET raw == IF writable THEN next ELSE loaded.raw
  IN /\ tab' = [tab EXCEPT ![t] = [loaded EXCEPT !.state = next, !.raw = raw,
                                   !.notifiedRaw = raw, !.selected = selected]]
     /\ storage' = IF writable THEN next ELSE storage
     /\ events' = [o \in Tab |-> events[o] \/ (o # t /\ storage' # storage)]
     /\ changes' = changes + 1
     /\ missed' = [missed EXCEPT ![t] = ~writable /\ (@ \/ ~readable)]

MayChange == changes < MaxChanges
TokensWithout(tokens, u) == [v \in DOMAIN tokens \ {u} |-> tokens[v]]
FirstOf(tokens) == IF DOMAIN tokens = {} THEN NoUser ELSE Min(DOMAIN tokens)

AddAndChange(t, u, readable, writable) ==
  /\ MayChange
  /\ LET loaded == LoadStored(t, readable)
         tokens == loaded.state.tokens
     IN SaveTokens(t, loaded,
          [current |-> u,
           tokens |-> [v \in DOMAIN tokens \cup {u} |-> IF v = u THEN changes + 1 ELSE tokens[v]]],
          u, readable, writable)

RemoveUser(t, u, readable, writable) ==
  /\ MayChange
  /\ LET loaded == LoadStored(t, readable)
         current == loaded.state.current
         left == TokensWithout(loaded.state.tokens, u)
         selected == IF loaded.selected = u THEN FirstOf(left) ELSE loaded.selected
         next == IF current # u THEN current
                 ELSE IF selected \in DOMAIN left THEN selected ELSE FirstOf(left)
     IN SaveTokens(t, loaded, [current |-> next, tokens |-> left], selected, readable, writable)

RemoveAll(t, writable) ==
  MayChange /\ SaveTokens(t, tab[t], SignedOut, NoUser, FALSE, writable)

ChangeUser(t, u, readable, writable) ==
  /\ MayChange
  /\ LET loaded == LoadStored(t, readable)
     IN SaveTokens(t, loaded, [current |-> u, tokens |-> loaded.state.tokens], u, readable, writable)

\* jwt and accounts, called by a render or a polling request.
ReadTokens(t, readable) ==
  /\ tab' = [tab EXCEPT ![t] = LoadStored(t, readable)]
  /\ UNCHANGED <<storage, events, missed, changes>>

\* Mutant: a tab sends the token of the browser's current user.
SenderIsCurrent(loaded) == loaded.state.current

\* The token a tab sends: jwt() with a storage that can be read.
SenderOf(loaded) == IF loaded.selected \in DOMAIN loaded.state.tokens THEN loaded.selected ELSE NoUser

Subscribe(t) ==
  /\ ~tab[t].subscribed
  /\ tab' = [tab EXCEPT ![t].subscribed = TRUE]
  /\ missed' = [missed EXCEPT ![t] = tab[t].notifiedRaw # storage]
  /\ UNCHANGED <<storage, events, changes>>

Unsubscribe(t) ==
  /\ tab[t].subscribed
  /\ tab' = [tab EXCEPT ![t].subscribed = FALSE]
  /\ UNCHANGED <<storage, events, missed, changes>>

\* Mutant: the listeners are told what the event's own read finds new.
NotifyIfNew(before, loaded) ==
  IF loaded.raw # before.raw THEN [loaded EXCEPT !.notifiedRaw = loaded.raw] ELSE loaded

\* onStorage: told of what they were not told before, read already or not.
NotifyIfUntold(before, loaded) ==
  IF loaded.raw # loaded.notifiedRaw THEN [loaded EXCEPT !.notifiedRaw = loaded.raw] ELSE loaded

\* An event nobody listens for is lost.
OnStorage(t, readable) ==
  /\ events[t] /\ events' = [events EXCEPT ![t] = FALSE]
  /\ IF tab[t].subscribed
     THEN /\ tab' = [tab EXCEPT ![t] = NotifyIfUntold(tab[t], LoadStored(t, readable))]
          /\ missed' = [missed EXCEPT ![t] = ~readable]
     ELSE UNCHANGED <<tab, missed>>
  /\ UNCHANGED <<storage, changes>>

\* The tab is reloaded: createLoginTokens runs again.
Reload(t) ==
  /\ tab' = [tab EXCEPT ![t] = Opened(storage)]
  /\ events' = [events EXCEPT ![t] = FALSE]
  /\ missed' = [missed EXCEPT ![t] = FALSE]
  /\ UNCHANGED <<storage, changes>>

\* What a tab does that may change its user.
Own(t) ==
  \/ \E u \in Account, readable, writable \in BOOLEAN :
       AddAndChange(t, u, readable, writable) \/ RemoveUser(t, u, readable, writable)
         \/ ChangeUser(t, u, readable, writable)
  \/ \E writable \in BOOLEAN : RemoveAll(t, writable)
  \/ Reload(t)

TokensNext ==
  \E t \in Tab :
    \/ Own(t)
    \/ \E readable \in BOOLEAN : ReadTokens(t, readable) \/ OnStorage(t, readable)
    \/ Subscribe(t) \/ Unsubscribe(t)

TokensSpec == TokensInit /\ [][TokensNext]_tabVars

----------------------------------------------------------------------------
Sends(t) == SenderOf(LoadStored(t, TRUE))

\* jwt: a tab never starts sending another user's token than the one it shows,
\* whatever the other tabs sign in, switch to or sign out; only its own calls
\* (and a reload) change its user.
TabKeepsItsUser ==
  \A t \in Tab : Sends(t)' \in {tab[t].selected, NoUser} \/ Own(t)

\* onStorage and notify: once the events on their way have arrived, the listeners
\* of every subscribed tab were told of the stored value as it is, also when a
\* render read it before its event; except for a change made before the tab
\* subscribed, and while the storage could not be read.
ListenersAreTold ==
  \A t \in Tab : tab[t].subscribed /\ ~events[t] /\ ~missed[t] => tab[t].notifiedRaw = storage

\* The tabs of a browser share their tokens and nothing else: every listener
\* learns what is stored, no tab's user is changed by another tab.
TabsStayConsistent == [][ListenersAreTold' /\ TabKeepsItsUser]_tabVars
============================================================================
