\* Five requests in one batch, with the code's own settings.
SPECIFICATION Spec

CONSTANTS
  r1 = r1
  r2 = r2
  r3 = r3
  r4 = r4
  r5 = r5
  p1 = p1
  p2 = p2
  daysRequested <- MCOneDay
  Requests = {r1, r2, r3, r4, r5}
  Polls = {p1, p2}
  totalDays = 5
  HrUsedDays = 0
  HcmFindsByRef = TRUE
  MaxCancels = 0
  MAX_OUTBOX_ATTEMPTS = 3
  ClaimLimit = 5
  SlowCalls = 4
  SameMillisecond = FALSE
  MaxCrashes = 0

INVARIANT SingleOwner

SYMMETRY Alike

\* Once every request is settled nothing is left to do.
CHECK_DEADLOCK FALSE
