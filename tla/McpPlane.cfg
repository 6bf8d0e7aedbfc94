SPECIFICATION FairSpec
CONSTANTS
  s1 = s1
  fs = fs
  Home = Home
  Nobody = Nobody
  Compiled = {fs}
  Servers = {s1}
  Tools = {fs}
  Threads = {t1}
  Networked = {s1}
  Granted <- OnceThenTimed
  Overlap = FALSE
  MaxChanges = 2
  MaxTimeouts = 1
INVARIANT NoStrayTool
INVARIANT OneCallPerGrant
PROPERTY CatchesUp
CHECK_DEADLOCK FALSE
