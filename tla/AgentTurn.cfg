SPECIFICATION Spec
CONSTANTS
  MaxToolRounds = 1
  MaxRegistrations = 1
  ToolBatches <- MCBatches
  Running <- MCRunning
  Strategy = "intelligent"
  FallbackList <- MCFallback
  HistoryBudget = 12
  ManyTools = 3
  ManyTokens = 10
  ManyMessages = 3
  FewTokens = 4
  RegistryTools = 1
  Agents = {"a1"}
  Chats = {"chat"}
  Origins = {"chat", "work"}
  LlmProvider = "google"
  Patterns = {"p"}
  MaxSubscriptions = 1
  MaxDepth = 1
  TurnLimit = 1
  LoopThreshold = 3
  MaxFaults = 1
  MaxEvents = 2
  Requests <- MCRequests
INVARIANTS
  ResultBelongsToTool RouterAnswersOnce HistoryInEventOrder AnswerSentOnce ForwardersAccounted
PROPERTIES
  EveryTurnEnds
CHECK_DEADLOCK FALSE
