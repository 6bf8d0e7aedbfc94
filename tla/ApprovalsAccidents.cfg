SPECIFICATION Spec
CONSTANTS
  Requests = {a1, a2}
  Runs = {r1, r2, r3}
  Deciders = {d1}
  Sweepers = {s1}
  None = None
  Overlap = TRUE
  Parallel = TRUE
  SweeperDies = TRUE
SYMMETRY Symmetry
INVARIANT NothingRunsWithoutYes
CHECK_DEADLOCK FALSE
