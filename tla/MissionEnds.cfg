SPECIFICATION FairSpec
CONSTANTS
  MaxCommands = 1
  MaxGates = 1
  MaxSteps = 2
  MaxRepairs = 1
  MaxAttempts = 2
  MaxCalls = 1
INVARIANT WindUpIsShort
INVARIANT DraftIsDelivered
PROPERTY StopIsHeard
