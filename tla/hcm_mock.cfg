\* Two calls side by side on two requests, one rule of any kind, HR and resets at any time.
SPECIFICATION Spec

CONSTANTS
  r1 = r1
  r2 = r2
  c1 = c1
  c2 = c2
  Requests = {r1, r2}
  daysRequested <- MCDays
  totalDays = 2
  HrUsedDays = 1
  HcmFindsByRef = TRUE
  Calls = {c1, c2}
  Behaviors = {"timeout", "500", "409", "slow", "silent_success", "invalid_validation"}
  Counts <- MCCounts
  MaxRules = 1

INVARIANT HcmTypeOK
PROPERTY AnswersKeepContract
PROPERTY EffectsHappenOnce
PROPERTY OnlyInvalidOverdraws
PROPERTY EveryCallEnds

\* Calls arrive for ever, but nothing says that they must.
CHECK_DEADLOCK FALSE
