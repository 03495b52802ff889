SPECIFICATION Spec
CONSTANTS
  Turns <- MCTurns
  Loads <- MCLoads
  JobOf <- MCJobOf
  Origin <- MCOrigin
  Definitions <- MCDefinitions
  ExecutorOf <- MCExecutorOf
  ContextOf <- MCContextOf
  Rules <- MCRules
  DefaultDecision = "Deny"
  MaxIterations = 2
  MaxAttempts = 2
  RecordAttempts = 3
  Senders <- MCSenders
  Attempts = 3
INVARIANTS
  TurnsInOrder RunMatchesTrace ExecutedIsAudited DeliveryStatusTruthful
CHECK_DEADLOCK FALSE
