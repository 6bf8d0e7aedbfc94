SPECIFICATION Spec
CONSTANTS
  a = a
  b = b
  c = c
  x = x
  y = y
  z = z
  NoReading = NoReading
  NoReview = NoReview
  Acts <- FreeActs
  Readings <- OffOrOwing
  Loops <- Patterns
  Repeats = 2
  RepeatWindow = 2
  Rejections = 2
  StaleSteps = 3
  FrozenSteps = 2
  Oscillates = 4
  MaxReviews = 2
  ReviewRefunds = 1
  MaxActs = 1
  MaxFree = 4
  MaxLooped = 34
  MaxGates = 1
INVARIANT ReviewsAreBounded
INVARIANT PollingIsLeftAlone
INVARIANT LoopIsWoundUp
PROPERTY EvidenceIsUsedOnce
CHECK_DEADLOCK FALSE
