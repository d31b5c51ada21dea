\* A crash, a cancellation, polls that share rows and an HCM that refuses reversals, under fairness.
SPECIFICATION HistoryFairSpec

CONSTANTS
  r1 = r1
  r2 = r2
  r3 = r3
  r4 = r4
  r5 = r5
  p1 = p1
  p2 = p2
  daysRequested <- MCOneDay
  Requests = {r1}
  Polls = {p1, p2}
  totalDays = 3
  HrUsedDays = 1
  HcmFindsByRef = FALSE
  MaxCancels = 1
  MAX_OUTBOX_ATTEMPTS = 2
  ClaimLimit = 2
  SlowCalls = 1
  SameMillisecond = TRUE
  MaxCrashes = 1

INVARIANT SharedOnlyByLapse
INVARIANT CallsBoundedButLapsed
PROPERTY SettledStayButLapsed
INVARIANT OneRowInOrder
PROPERTY LifecycleInOrder
PROPERTY RequestsResolve
PROPERTY CancellationsResolve

\* Once every request is settled nothing is left to do.
CHECK_DEADLOCK FALSE
