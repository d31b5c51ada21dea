\* One request and one reconciliation run.
SPECIFICATION Spec

CONSTANTS
  r1 = r1
  r2 = r2
  u1 = u1
  Requests = {r1}
  daysRequested <- MCDays
  daysOf <- MCDaysOf
  Runs = {u1}
  Totals = {1, 2}
  MaxVersions = 2
  MaxCalls = 2
  MaxCancels = 1
  MaxMishaps = 1

INVARIANT NoFalseDrift

\* As in balance_row.
CHECK_DEADLOCK FALSE
