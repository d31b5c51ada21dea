\* One poll and one cancellation.
SPECIFICATION Spec

CONSTANTS
  r1 = r1
  r2 = r2
  r3 = r3
  r4 = r4
  r5 = r5
  p1 = p1
  p2 = p2
  daysRequested <- MCDays
  Requests = {r1, r2}
  Polls = {p1}
  totalDays = 3
  HrUsedDays = 1
  HcmFindsByRef = TRUE
  MaxCancels = 1
  MAX_OUTBOX_ATTEMPTS = 2
  ClaimLimit = 5
  SlowCalls = 4
  SameMillisecond = FALSE
  MaxCrashes = 0

INVARIANT PendingIsReserved

\* Once every request is settled nothing is left to do.
CHECK_DEADLOCK FALSE
