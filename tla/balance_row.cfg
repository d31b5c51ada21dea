\* Two requests of a day, one reconciliation run, every writer of the row, a balance that is read for ever.
SPECIFICATION FairSpec

CONSTANTS
  r1 = r1
  r2 = r2
  u1 = u1
  Requests = {r1, r2}
  daysRequested <- MCDays
  daysOf <- MCDaysOf
  Runs = {u1}
  Totals = {1, 2}
  MaxVersions = 2
  MaxCalls = 2
  MaxCancels = 1
  MaxMishaps = 1

INVARIANT RowTypeOK
INVARIANT PendingCountsInFlight
INVARIANT PromisedDaysAreCounted
INVARIANT TotalMatchesDate
PROPERTY ReadsHeal

\* Once nothing is in flight and the bounds are reached, nothing is left to do.
CHECK_DEADLOCK FALSE
