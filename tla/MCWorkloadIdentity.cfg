SPECIFICATION FairSpec
CONSTANTS
  e1 = e1
  e2 = e2
  i1 = i1
  s1 = s1
  a = a
  b = b
  Exchange = {e1, e2}
  Change = {c1, c2}
  Stored = {i1}
  Static = {s1}
  Id = {a, b}
  BadId = bad
  Body <- Bodies
  Configured <- StaticBodies
  MaxRestarts = 1
  None = None
INVARIANTS AccessFollowsRule FoundIsCurrent
PROPERTIES RemovedIdsStayRemoved RequestsEnd
CHECK_DEADLOCK FALSE
