\* Two second factors of different kinds on one session.
SPECIFICATION Spec
CONSTANTS
  c1 = c1
  c2 = c2
  pk = pk
  tp = tp
  sk = sk
  no = no
  Request = {r1, r2, r3, r4}
  Client = {c1}
  User = {pk, tp}
  Second <- SecondOfUsers
  Skipping <- SkippingUsers
  Ops = {"local", "token", "passkey", "totp"}
  MaxConcurrent = 1
  MaxTotpAttempts = 1
  CompletedAge = 0
  SecondFactorAge = 0
  LinkAge = 0
  MaxTime = 0
  None = None
SYMMETRY Symmetry
INVARIANTS KindOfOwnFirstFactor
CHECK_DEADLOCK FALSE
