\* Three requests of a day for two days, two overlapping polls of a row each, a crash anywhere.
SPECIFICATION HistorySpec

CONSTANTS
  r1 = r1
  r2 = r2
  r3 = r3
  r4 = r4
  r5 = r5
  p1 = p1
  p2 = p2
  daysRequested <- MCOneDay
  Requests = {r1, r2, r3}
  Polls = {p1, p2}
  totalDays = 2
  HrUsedDays = 0
  HcmFindsByRef = TRUE
  MaxCancels = 0
  MAX_OUTBOX_ATTEMPTS = 2
  ClaimLimit = 1
  SlowCalls = 4
  SameMillisecond = FALSE
  MaxCrashes = 1

INVARIANT ApprovedIsConfirmed
INVARIANT RejectedIsUnbooked
INVARIANT NoOverbookingInOrder
INVARIANT ReservedInOrder

SYMMETRY Alike

\* Once every request is settled nothing is left to do.
CHECK_DEADLOCK FALSE
