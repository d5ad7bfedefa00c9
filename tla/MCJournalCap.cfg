\* Two uploads at a time under a cap of one.
SPECIFICATION JournalSpec
CONSTANTS
  NULL = NULL
  Calls = {a, b}
  Texts = {short, long1}
  LongTexts = {long1}
  Images = {i1, i2}
  MaxImages = 1
  MaxReviews = 1
INVARIANT ImageCap
CHECK_DEADLOCK FALSE
