\* Two balances in pages of one, two pushes and at most one mishap, under fairness.
SPECIFICATION HistoryFairSpec

CONSTANTS
  b1 = b1
  b2 = b2
  Balances = {b1, b2}
  PageSize = 1
  MaxClock = 3
  MaxPushes = 2
  Mishaps = {"interrupted", "expired", "failed", "overtaken"}
  MaxMishaps = 1

INVARIANT SyncTypeOK
INVARIANT NothingSkipped
INVARIANT OnlyPassedOverSkipped
PROPERTY CacheSpec
PROPERTY CatchUp
