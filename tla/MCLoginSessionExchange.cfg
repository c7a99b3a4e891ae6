\* Two exchanges of one completed login at the same time.
SPECIFICATION Spec
CONSTANTS
  c1 = c1
  c2 = c2
  pk = pk
  tp = tp
  sk = sk
  no = no
  Request = {r1, r2, r3, r4}
  Client = {c1}
  User = {no}
  Second <- SecondOfUsers
  Skipping <- SkippingUsers
  Ops = {"begin", "callback", "exchange"}
  MaxConcurrent = 2
  MaxTotpAttempts = 1
  CompletedAge = 0
  SecondFactorAge = 0
  LinkAge = 0
  MaxTime = 0
  None = None
SYMMETRY Symmetry
INVARIANTS ExchangedOnce
CHECK_DEADLOCK FALSE
