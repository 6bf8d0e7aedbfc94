SPECIFICATION FairSpec
CONSTANTS
  Clients = {c1}
  Since <- NoSince
  MaxStreams = 1
  Reconciles = TRUE
  Late = TRUE
  Notes <- OneNote
  MaxLog = 5
  MaxSteps = 2
  MaxCalls = 2
  MaxResumes = 1
INVARIANT Conforms
INVARIANT HasAllOfIt
PROPERTY StreamsClose
CHECK_DEADLOCK FALSE
