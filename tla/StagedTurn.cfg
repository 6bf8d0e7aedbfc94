SPECIFICATION CampaignFairSpec
CONSTANTS
  Plans <- AllPlans
  Redrawn <- FreshPlans
  Parallel = 2
  MaxSteps = 3
  MaxTurns = 2
  MaxReviews = 2
  MaxDeaths = 1
  MayStop = TRUE
  NamesAgain = FALSE
  NoPlan = NoPlan
  Proposals <- TwoProposals
  Edited <- AnEdit
  LosesWrites = FALSE
INVARIANT CeilingHolds
INVARIANT AnsweredIsTheWholePlan
INVARIANT PlanWasRead
INVARIANT InputsArrive
PROPERTY SettledStaysSettled
PROPERTY CheckpointIsAPlanLog
PROPERTY WorkCloses
CHECK_DEADLOCK FALSE
