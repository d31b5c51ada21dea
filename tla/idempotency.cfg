\* Three calls with one body, one with another, one crash, under fairness.
SPECIFICATION IdemFairSpec

CONSTANTS
  c1 = c1
  c2 = c2
  c3 = c3
  c4 = c4
  nobody = nobody
  Nobody = nobody
  Calls = {c1, c2, c3, c4}
  body <- MCBody
  KeyUnique = TRUE
  MaxCrashes = 1

INVARIANT IdemTypeOK
INVARIANT AnswersAgree
INVARIANT ClaimHasOwner
INVARIANT ClaimBeforeRun
PROPERTY ResponseIsFinal
PROPERTY CallsEnd

\* Once every call is answered nothing is left to do.
CHECK_DEADLOCK FALSE
