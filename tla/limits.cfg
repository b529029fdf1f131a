SPECIFICATION BothSpec
CONSTANTS
  Call = {c1, c2}
  Request = {r1, r2}
  MaxTokens = 1
  MonthlyLimit = 3
  MaxSpans = 2
  Months = 2
  MaxCounter = 1
  Resends = FALSE
  Aborts = TRUE
  Client = {c1, c2}
  Limit = 2
  Window = 2
  MaxTime = 4
  Fallbacks = TRUE
  Crashes = TRUE
  MaxCount = 3
SYMMETRY Symmetry
INVARIANTS
  AcceptedWithinLimit
  CounterCovers
  OvershootBounded
  MinuteLimit
CHECK_DEADLOCK FALSE
