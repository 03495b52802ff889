SPECIFICATION SystemSpec
CONSTANTS
  MaxFaults = 1
  Deployments <- MCDeployments
  Messages <- MCMessages
  Extracts <- MCExtracts
  HistoryLength = 2
  BufferSize = 1
  Names <- MCNames
  Rates = {1, 2}
  MaxRate = 2
  Minute = 2
  StaleAfter = 2
  Clients = {c1, c2}
  Chats = {"c1", "c2"}
  Mails = {"m1"}
  MaxChunks = 2
  c1 = c1
  c2 = c2
  GatewayLoads <- MCLoads
  RegularRpm = 1
  AdminRpm = 2
  TokenTtl = 1
  MaxEntries = 1
  MaxRevoked = 1
INVARIANTS
  AnswersGoHome   AccountsHonoured RateBounded
  CurrentFactRemains Provenance
PROPERTIES
  ComesToRest
CHECK_DEADLOCK FALSE
