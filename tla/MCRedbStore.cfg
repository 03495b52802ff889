SPECIFICATION RedbSpec
CONSTANTS
  Subscribers = {s1, s2}
  Subjects = {sa, sb}
  MaxSeq = 2
  MaxClock = 1
  Retention = 0
  MaxAttempts = 2
SYMMETRY MCSymmetry
INVARIANTS
  IndexesExact
  QueriesAgree
