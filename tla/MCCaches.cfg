\* Three calls, two configurations and one evict of the load cache; three
\* callers of two keys; two logins and two api keys hashing on one core.
SPECIFICATION CachesSpec
CONSTANTS
  Call = {l1, l2, l3}
  Config = {f1, f2}
  ValidFor = 1
  Retry = 1
  MaxStale = 1
  MaxTime = 2
  MaxEvicts = 1
  None = None
  Caller = {c1, c2, c3}
  Key = {1, 2}
  Reuse = 2
  LastMinute = 4
  LoginJob = {b1, b2}
  KeyJob = {k1, k2}
  Cores = 1
INVARIANTS OwnConfiguration CacheConsistent
PROPERTIES SourceOutage CallsAnswered NoRapidFire PoolServes
CHECK_DEADLOCK FALSE
