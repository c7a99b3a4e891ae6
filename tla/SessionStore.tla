---------------------------- MODULE SessionStore ----------------------------
(***************************************************************************)
(* The in memory session store (crates/server/src/session.rs): requests    *)
(* that load a session, are handled, and save it with a later expiry, while *)
(* others fill the store. The session layer (tower-sessions) is external:  *)
(* a request loads the session of its cookie first, and saves, creates or  *)
(* deletes a session at its end.                                           *)
(***************************************************************************)
EXTENDS Integers, FiniteSets, FiniteSetsExt

CONSTANTS
  Visit,           \* requests handled at the same time
  MaxDraws,        \* bound: session ids drawn
  MaxSessions,     \* SessionConfig::max_sessions, at least 1
  EvictedShare,    \* a full store evicts this part of its sessions (10: a tenth)
  SessionExpiry,   \* expiry_seconds
  SweepEvery,      \* SWEEP_INTERVAL
  LastHour         \* bound: the clock stops here

ASSUME StoreAssumption ==
  MaxSessions \in Nat \ {0} /\ EvictedShare \in Nat \ {0} /\ SessionExpiry \in Nat

VARIABLES
  records,     \* the expiry of each session held
  lastSweep,
  hour,        \* the clock
  visit,       \* the session each request in flight loaded
  drawn        \* how many ids were drawn: random, so 1..drawn stands for them

storeVars == <<records, lastSweep, hour, visit, drawn>>

SessionId == 1..MaxDraws
NoSession == 0
Idle == -1

StoreInit ==
  /\ records = [id \in {} |-> 0]
  /\ lastSweep = 0
  /\ hour = 0
  /\ visit = [v \in Visit |-> Idle]
  /\ drawn = 0

----------------------------------------------------------------------------
(* MemoryStoreInner, on the records r *)

IsActive(expiry) == expiry > hour
Keep(r, ids) == [id \in ids |-> r[id]]
Sweep(r) == Keep(r, {id \in DOMAIN r : IsActive(r[id])})
SweepIsDue == hour - lastSweep >= SweepEvery
MaybeSweep(r) == IF SweepIsDue THEN Sweep(r) ELSE r

\* The sets of count sessions that select_nth_unstable_by_key may move to the
\* front: those closest to expiry, where ties go either way.
ClosestToExpiry(r, count) ==
  {s \in kSubset(count, DOMAIN r) :
     \A id \in s, other \in DOMAIN r \ s : r[id] <= r[other]}

\* make_room: what may be left of r.
MakeRoom(r) ==
  IF Cardinality(DOMAIN r) < MaxSessions THEN {r}
  ELSE LET swept == Sweep(r)
           held == Cardinality(DOMAIN swept)
           excess == held + 1 - MaxSessions
           count == Min({held, Max({excess, MaxSessions \div EvictedShare})})
       IN IF excess <= 0 THEN {swept}
          ELSE {Keep(swept, DOMAIN swept \ s) :
                  s \in ClosestToExpiry(swept, count)}

\* A full store was swept by make_room.
SweptAt(r) ==
  IF SweepIsDue \/ Cardinality(DOMAIN MaybeSweep(r)) >= MaxSessions
  THEN hour ELSE lastSweep

Insert(r, id) == [i \in DOMAIN r \cup {id} |-> IF i = id THEN hour + SessionExpiry ELSE r[i]]

----------------------------------------------------------------------------
(* SessionStore for MemorySessionStore *)

\* load: an expired session is removed, and the request starts a new one.
Load(v, id) ==
  /\ visit[v] = Idle
  /\ IF id \in DOMAIN records /\ IsActive(records[id])
     THEN visit' = [visit EXCEPT ![v] = id] /\ UNCHANGED records
     ELSE /\ visit' = [visit EXCEPT ![v] = NoSession]
          /\ records' = Keep(records, DOMAIN records \ {id})
  /\ UNCHANGED <<lastSweep, hour, drawn>>

Arrives(v) ==   \* without a cookie
  /\ visit[v] = Idle
  /\ visit' = [visit EXCEPT ![v] = NoSession]
  /\ UNCHANGED <<records, lastSweep, hour, drawn>>

Create(v) ==
  /\ visit[v] = NoSession
  /\ drawn < MaxDraws
  /\ drawn' = drawn + 1
  /\ \E r \in MakeRoom(MaybeSweep(records)) : records' = Insert(r, drawn')
  /\ lastSweep' = SweptAt(records)
  /\ visit' = [visit EXCEPT ![v] = Idle]
  /\ UNCHANGED hour

\* Mutant: room is made for a session that is held already.
MakeRoomAlways(r, id) == MakeRoom(r)

\* save: a session swept or evicted while the request was handled comes back.
RoomFor(r, id) == IF id \in DOMAIN r THEN {r} ELSE MakeRoom(r)

Save(v) ==
  /\ visit[v] \in SessionId
  /\ \E r \in RoomFor(MaybeSweep(records), visit[v]) : records' = Insert(r, visit[v])
  /\ lastSweep' = IF visit[v] \in DOMAIN MaybeSweep(records)
                  THEN (IF SweepIsDue THEN hour ELSE lastSweep)
                  ELSE SweptAt(records)
  /\ visit' = [visit EXCEPT ![v] = Idle]
  /\ UNCHANGED <<hour, drawn>>

Delete(v) ==
  /\ visit[v] \in SessionId
  /\ records' = Keep(records, DOMAIN records \ {visit[v]})
  /\ visit' = [visit EXCEPT ![v] = Idle]
  /\ UNCHANGED <<lastSweep, hour, drawn>>

DeleteExpired ==
  /\ records' = Sweep(records)
  /\ lastSweep' = hour
  /\ UNCHANGED <<hour, visit, drawn>>

HourPasses ==
  /\ hour < LastHour
  /\ hour' = hour + 1
  /\ UNCHANGED <<records, lastSweep, visit, drawn>>

StoreNext ==
  \/ \E v \in Visit : \/ \E id \in 1..drawn : Load(v, id)
                      \/ Arrives(v) \/ Create(v) \/ Save(v) \/ Delete(v)
  \/ DeleteExpired
  \/ HourPasses

StoreSpec == StoreInit /\ [][StoreNext]_storeVars

----------------------------------------------------------------------------
(* Properties *)

\* The store never holds more than max_sessions, and a session that has not
\* expired is only lost to its own deletion or to a session the store does not
\* hold yet, when every session held is unexpired and the store full; then only
\* the sessions closest to expiry are lost, no more than one or the share.
EvictedOnlyForRoom ==
  LET active == {id \in DOMAIN records : IsActive(records[id])}
      lost == active \ DOMAIN records'
      came == DOMAIN records' \ DOMAIN records
  IN /\ Cardinality(DOMAIN records') <= MaxSessions
     /\ lost # {} =>
          \/ \E v \in Visit : visit[v] \in SessionId /\ lost = {visit[v]} /\ came = {}
          \/ /\ came # {} /\ Cardinality(active) >= MaxSessions
             /\ Cardinality(lost) <= Max({1, MaxSessions \div EvictedShare})
             /\ \A id \in lost, other \in active \ lost : records[id] <= records[other]

StoreKeepsSessions == [][EvictedOnlyForRoom]_storeVars
=============================================================================
