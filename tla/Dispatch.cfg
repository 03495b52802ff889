SPECIFICATION FairSpec
CONSTANTS
  i1 = i1  c1 = c1  a1 = a1
  Subjects = {sa}
  Subscribers = {c1, i1, a1}
  Interceptors = {i1}
  SyncSubs = {c1}
  AsyncSubs = {a1}
  Rank <- RankCIA
  Matches <- AllMatch
  Filtered = {}
  Channel <- A1Webhook
  Publishers = {p1}
  ChannelCapacity = 1
  Early = {c1, i1}
  Busy = {a1}
  InterceptOutcomes = {"Pass", "Drop", "Abort"}
  MaxAttempts = 3
  QueryLimit = 2
  StoreMayFail = FALSE
  ReplayAllowed = FALSE
  PurgeAllowed = FALSE
  MaxCrashes = 0
  MaxSeq = 1
  MaxClock = 0
  Retention = 0
CHECK_DEADLOCK FALSE
INVARIANTS
  NothingLost NoDuplicateDelivery ChainOrder
PROPERTIES
  FailedResolved PublishReturns
