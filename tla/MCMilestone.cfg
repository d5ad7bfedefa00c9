\* Two days of one trainee timed out at the same time.
SPECIFICATION MilestoneSpec
CONSTANTS
  NULL = NULL
  NaN = NaN
  r1 = r1
  r2 = r2
  t1 = t1
  k1 = k1
  k2 = k2
  Requests = {r1, r2, r3, r4}
  Trainees = {t1}
  Keys = {k1, k2, k3, k4}
  Fixes <- MCGoodFix
  Rules <- MCRuleNone
  Requirements = {4}
  MaxTime = 3
  TicksPerMinute = 1
  TicksPerDay = 2
  TZOffset = 0
  UnusualMinutes = 3
  LowAccuracyM = 50
  RadiusM = 100
SYMMETRY MCLaterSymmetry
INVARIANTS
  MilestoneAnnounced
