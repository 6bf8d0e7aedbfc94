SPECIFICATION FairSpec
CONSTANTS
  Missions = {m1, m2, m3}
  Sweepers = {s1}
  m1 = m1
  m2 = m2
  m3 = m3
  s1 = s1
  None = None
  MaxLog = 3
  MaxDeaths = 2
  Followed = TRUE
  Overlap = FALSE
  DiesInAppend = FALSE
  TornWrites = FALSE
INVARIANT FollowerMissesNothing
PROPERTY RefinesRunLog
PROPERTY OrphanIsClosed
CHECK_DEADLOCK FALSE
