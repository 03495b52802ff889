SPECIFICATION HttpSpec
CONSTANTS
  Callers = {0, 1, 2, 3}
  Threshold = 2
  InitialCooldown = 2
  MaxCooldown = 3
  MaxFailures = 3
  Handlers = {h1, h2}
  MaxIds = 3
  MaxSubscriptions = 1
  MaxInterceptors = 1
  RateLimit = 1
  Workloads <- MCWorkloads
INVARIANTS
  ClosedIffBelowThreshold SlotsAccounted RegistrationsHonoured
PROPERTIES
  Recovers
CHECK_DEADLOCK FALSE
