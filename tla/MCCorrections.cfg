\* One trainee, one day: Time In, Time Out and two correction requests.
SPECIFICATION CSpec
CONSTANTS
  NULL = NULL
  NaN = NaN
  Requests = {r1, r2}
  Proposals = {c1, c2}
  Trainees = {t1}
  Keys = {k1, k2}
  Fixes <- MCGoodFix
  Rules <- MCOneRule
  Requirements = {2}
  MaxTime = 2
  TicksPerMinute = 1
  TicksPerDay = 3
  TZOffset = 0
  UnusualMinutes = 2
  LowAccuracyM = 50
  RadiusM = 100
SYMMETRY MCSymmetry
INVARIANTS
  CTypeOK
  DecisionLeavesItsRecord
  EffectiveIsLatestAdjustment
  ApprovalHoldsItsRow
PROPERTIES
  OriginalsImmutable
  DecisionIsFinal
  ImplementsBook
