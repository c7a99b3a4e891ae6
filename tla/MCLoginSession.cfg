\* Two browsers, two requests at a time: external logins and links.
SPECIFICATION Spec
CONSTANTS
  c1 = c1
  c2 = c2
  pk = pk
  tp = tp
  sk = sk
  no = no
  Request = {r1, r2, r3, r4}
  Client = {c1, c2}
  User = {no}
  Second <- SecondOfUsers
  Skipping <- SkippingUsers
  Ops = {"begin", "callback", "exchange", "beginLink", "startLink"}
  MaxConcurrent = 2
  MaxTotpAttempts = 1
  CompletedAge = 0
  SecondFactorAge = 1
  LinkAge = 0
  MaxTime = 0
  None = None
SYMMETRY Symmetry
INVARIANTS StepsArePrivate OutcomeToBeginner
CHECK_DEADLOCK FALSE
