\* A pull of two pages that fails after the first.
SPECIFICATION Spec

CONSTANTS
  b1 = b1
  b2 = b2
  Balances = {b1, b2}
  PageSize = 1
  MaxClock = 2
  MaxPushes = 0
  Mishaps = {"interrupted"}
  MaxMishaps = 1

INVARIANT PullIsRetried
