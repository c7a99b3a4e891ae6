\* One request at a time: a login completes once.
SPECIFICATION Spec
CONSTANTS
  c1 = c1
  c2 = c2
  pk = pk
  tp = tp
  sk = sk
  no = no
  Request = {r1, r2, r3, r4}
  Client = {c1}
  User = {pk, sk}
  Second <- SecondOfUsers
  Skipping <- SkippingUsers
  Ops = {"local", "token", "passkey", "totp", "begin", "callback", "exchange"}
  MaxConcurrent = 1
  MaxTotpAttempts = 1
  CompletedAge = 0
  SecondFactorAge = 0
  LinkAge = 0
  MaxTime = 1
  None = None
SYMMETRY Symmetry
INVARIANTS SecondFactorRequired LoginsRunOut
CHECK_DEADLOCK FALSE
