\* A Time In sent twice with one client action: what the second call is told.
SPECIFICATION Spec
CONSTANTS
  NULL = NULL
  NaN = NaN
  Requests = {r1, r2, r3}
  Trainees = {t1}
  Keys = {k1, k2}
  Fixes <- MCGoodFix
  Rules <- MCOneRule
  Requirements = {2}
  MaxTime = 2
  TicksPerMinute = 1
  TicksPerDay = 2
  TZOffset = 1
  UnusualMinutes = 2
  LowAccuracyM = 50
  RadiusM = 100
PROPERTIES
  DuplicateGetsCanonical
