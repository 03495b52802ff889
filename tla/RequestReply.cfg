SPECIFICATION FairSpec
CONSTANTS
  Requests = {r1}
  Servers = {s1, s2}
  InboxCapacity = 2
  ServeCapacity = 1
CHECK_DEADLOCK FALSE
INVARIANTS
  NoLeakedReply
PROPERTIES
  ImplementsCall
