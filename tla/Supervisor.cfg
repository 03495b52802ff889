SPECIFICATION SupervisorSpec
CONSTANTS
  Supervised = {"telegram"}
  Pids = {1, 2, 3, 4}
  MaxRestarts = 1
  MaxRequests = 2
  MaxDeaths = 2
PROPERTIES
  StopSticks
CHECK_DEADLOCK FALSE
