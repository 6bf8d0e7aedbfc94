SPECIFICATION Spec
CONSTANTS
  MaxCommands = 2
  MaxGates = 2
  MaxSteps = 1
  MaxRepairs = 0
  MaxAttempts = 0
  MaxCalls = 2
INVARIANT InjectionsInOrder
INVARIANT FirstDecisionStands
INVARIANT EveryCallIsAnswered
INVARIANT OneCallAfterStop
