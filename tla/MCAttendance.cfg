\* Safety of Time In and Time Out: a day timed in and out twice at once, three dates.
SPECIFICATION Spec
CONSTANTS
  NULL = NULL
  NaN = NaN
  Requests = {r1, r2, r3}
  Trainees = {t1}
  Keys = {k1, k2, k3}
  Fixes <- MCOddFixes
  Rules <- MCOneRule
  Requirements = {2}
  MaxTime = 3
  TicksPerMinute = 1
  TicksPerDay = 2
  TZOffset = 1
  UnusualMinutes = 2
  LowAccuracyM = 50
  RadiusM = 100
SYMMETRY MCSymmetry
INVARIANTS
  TypeOK
  OneSessionPerDay
  EvidenceBacksSession
  FlagsTellTheEvidence
  IdempotentReplies
  AcknowledgedIsDurable
