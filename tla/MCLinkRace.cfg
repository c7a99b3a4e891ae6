\* Two links of one external login at the same time.
SPECIFICATION ServicesSpec
CONSTANTS
  Credentials <- MCCredentials
  LastInstant = 4
  RecentWindow = 1
  Batches <- MCBatches
  InitialUsers <- MCInitialUsers
  LockedNames <- MCLockedNames
  ClosedToNew = TRUE
  MaxUsers = 4
  StaticProviders <- MCStaticProviders
  StoredAtStart <- MCStoredAtStart
  Agendas <- MCAgendas
  Editor = {e1, e2}
  Journeys = {j1}
  Urls <- MCUrls
  Responses <- MCResponses
  Writer = {w1, w2}
  FileSystems <- MCFileSystems
  Visit = {v1, v2}
  MaxDraws = 5
  MaxSessions = 4
  EvictedShare = 2
  SessionExpiry = 2
  SweepEvery = 3
  LastHour = 3
  Tab = {t1, t2}
  Account = {1, 2}
  MaxChanges = 2
  Person = {"ann", "bob"}
  Plans <- MCPlans
  MaxAtOnce = 2
  LastTotpStep = 1
INVARIANTS OneUserPerExternalLogin
CHECK_DEADLOCK FALSE
