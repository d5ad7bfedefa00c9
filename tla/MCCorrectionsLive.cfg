\* Time Outs that race for session rows with approvals that may be rolled back.
SPECIFICATION CFairSpec
CONSTANTS
  NULL = NULL
  NaN = NaN
  Requests = {r1, r2}
  Proposals = {c1}
  Trainees = {t1}
  Keys = {k1, k2}
  Fixes <- MCFixes
  Rules <- MCRules
  Requirements = {2}
  MaxTime = 1
  TicksPerMinute = 1
  TicksPerDay = 3
  TZOffset = 0
  UnusualMinutes = 2
  LowAccuracyM = 50
  RadiusM = 100
INVARIANTS
  CreditedIsComputed
PROPERTIES
  HandlersReturn
