SPECIFICATION Spec
CONSTANTS
  i1 = i1  c1 = c1  a1 = a1
  Subjects = {sa}
  Subscribers = {a1}
  Interceptors = {}
  SyncSubs = {}
  AsyncSubs = {a1}
  Rank <- RankA
  Matches <- AllMatch
  Filtered = {a1}
  Channel <- InProcess
  Publishers = {p1, p2}
  ChannelCapacity = 1
  Early = {}
  Busy = {}
  InterceptOutcomes = {"Pass"}
  MaxAttempts = 2
  QueryLimit = 2
  StoreMayFail = TRUE
  ReplayAllowed = TRUE
  PurgeAllowed = TRUE
  MaxCrashes = 1
  MaxSeq = 1
  MaxClock = 2
  Retention = 0
CHECK_DEADLOCK FALSE
SYMMETRY PublisherSymmetry
INVARIANTS
  DeliveredWasSent
PROPERTIES
  NoResurrection
