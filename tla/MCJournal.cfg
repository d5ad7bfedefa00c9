\* One journal, three calls at a time, four images under a cap of one, two reviews.
SPECIFICATION JournalSpec
CONSTANTS
  NULL = NULL
  Calls = {a, b, c}
  Texts = {short, long1, long2}
  LongTexts = {long1, long2}
  Images = {i1, i2, i3, i4}
  MaxImages = 1
  MaxReviews = 2
SYMMETRY MCSymmetry
INVARIANTS
  JTypeOK
  TrailTellsTheStatus
  EveryDecisionIsTold
  ImageHasItsObject
  CapOverrunIsBounded
PROPERTY ImplementsLife
\* A reviewed journal is final, and the ids of an instance run out.
CHECK_DEADLOCK FALSE
