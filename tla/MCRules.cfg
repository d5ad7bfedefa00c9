\* Every input of the pure rules and of the queries up to the bounds.
SPECIFICATION Spec
CONSTANTS
  NULL = NULL
  NaN = NaN
  t1 = t1
  t2 = t2
  s1 = s1
  s2 = s2
  TicksPerMinute = 2
  TicksPerDay = 5
  TZOffset = 3
  UnusualMinutes = 4
  LowAccuracyM = 50
  RadiusM = 100
  CutoffTicks = 2
  NearPercent = 50
  QueueLimit = 1
  MaxInstant = 12
  MaxMinutes = 7
  Accuracies <- MCAccuracies
  Distances <- MCDistances
  Contents <- MCContents
  Actors <- MCActors
  Filters <- MCFilters
  Now <- MCNow
CHECK_DEADLOCK FALSE
INVARIANTS
  CreditedCountsMinutes
  VerdictFollowsTheFix
  ScopeSeesExactly
  ProgressAgrees
  EveryoneExpectedIsCounted
  NextActionIsAccepted
