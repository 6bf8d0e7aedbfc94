SPECIFICATION KernelFairSpec
CONSTANTS
  Workflows <- BuiltIn
  MaxPhaseRetries = 2
  MaxTotalIterations = 16
INVARIANT FinalReportIsOnDisk
INVARIANT CompletedIsTested
PROPERTY SessionEnds
CHECK_DEADLOCK FALSE
