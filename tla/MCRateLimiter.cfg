\* Three attempts of two clients, room for one of them, a budget of two.
SPECIFICATION FairSpec
CONSTANTS
  Attempt = {a1, a2, a3}
  Client = {c1, c2}
  MaxAttempts = 2
  Window = 2
  MaxEntries = 1
  None = None
INVARIANTS LimiterConsistent StrictBound
PROPERTIES RefusedOnlyWhenSpent OverFullOnlyInUse BudgetSpec WaitersAnswered
CHECK_DEADLOCK FALSE
