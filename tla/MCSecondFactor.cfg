\* Two users, a budget of two for three codes at once, one restart.
SPECIFICATION BoundedSpec
CONSTANTS
  Attempt = {1, 2, 3}
  User = {1, 2}
  Code = {r1, r2}
  Spare = r2
  MaxFailures = 2
  Window = 1
  SweepInterval = 1
  MaxTime = 1
  MaxRestarts = 1
  None = None
INVARIANTS AttemptsConsistent CodesStayUsed TotpStepOnce
PROPERTIES BudgetSpec EveryAttemptEnds
CHECK_DEADLOCK FALSE
