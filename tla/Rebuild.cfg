SPECIFICATION Spec
CONSTANTS
  Protocols <- Both
  Ceilings <- NoneOrOne
  Further <- OneMoreOrNone
  Unsaid = Unsaid
  MaxRepairs = 1
  MaxCalls = 2
  MaxMade = 2
  MaxIndex = 3
  MaxInjected = 0
  MaxResumes = 2
INVARIANT OneRunOneBudget
INVARIANT AnswersAreTheirCalls
PROPERTY ResultsStay
CHECK_DEADLOCK FALSE
