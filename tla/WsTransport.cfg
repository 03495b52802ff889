SPECIFICATION Spec
CONSTANTS
  Conns = {1, 2}
  ForwardSize = 1
  ChannelSize = 1
  SocketSize = 1
  MaxSubscriptions = 1
  MaxInterceptors = 1
  MaxPending = 1
  Callers = {k1, k2}
  InboxSize = 1
  MaxAttempts = 2
  Workloads <- MCWorkloads
INVARIANTS
  NothingLeftOfClosed PendingMatched CallsDieWithConnection
PROPERTIES
  PublishesEnd
CHECK_DEADLOCK FALSE
