SPECIFICATION Spec
CONSTANTS
  Missions = {m1, m2}
  Sweepers = {s1, s2}
  m1 = m1
  m2 = m2
  s1 = s1
  s2 = s2
  None = None
  MaxLog = 2
  MaxDeaths = 1
  Followed = FALSE
  Overlap = TRUE
  DiesInAppend = TRUE
  TornWrites = FALSE
SYMMETRY Symmetry
INVARIANT NoGap
INVARIANT AckedIsReadable
CHECK_DEADLOCK FALSE
