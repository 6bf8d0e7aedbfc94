SPECIFICATION FairSpec
CONSTANTS
  Requests = {a1, a2}
  Runs = {r1, r2, r3}
  Deciders = {d1}
  Sweepers = {s1}
  None = None
  Overlap = FALSE
  Parallel = FALSE
  SweeperDies = FALSE
INVARIANT OneRunPerYes
INVARIANT CallsAreSpent
PROPERTY PersonStands
PROPERTY DeadQuestionsClose
CHECK_DEADLOCK FALSE
