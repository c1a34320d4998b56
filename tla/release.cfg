\* Two instances (MCRelease.InInstance): two operators or a moving clock, with a fault, over
\* two snapshots of two trees; one operator over three snapshots of three trees.
SPECIFICATION Spec
CONSTANTS
  m1 = m1
  m2 = m2
  o1 = o1
  o2 = o2
  k1 = k1
  k2 = k2
  d1 = d1
  d2 = d2
  c1 = c1
  c2 = c2
  c3 = c3
  c4 = c4
  ma = ma
  mb = mb
  el = el
  dev = dev
  a = a
  b = b
  Merchants = {m1}
  Origins = {o1}
  Kids = {k1, k2}
  KeyData = {d1, d2}
  Commits = {c1, c2, c3}
  NoCommit = NoCommit
  Day = 1
  Skew = 0
  MaxSequence = 3
  Maintainers = {ma, mb}
  Reviewer = ma
  ExceptionStart = 0
  ExceptionEnd = 1
  Operators = {a, b}
  Tree <- KeyTree
  Authors = {dev}
  StrictLimit = 100
  SnapshotLimit = 100
  ClockStepsBack = TRUE
  MaxTime = 1
  MaxApprovals = 3
  MaxFaults = 1
INVARIANTS
  TypeOK
  LockHeldByOne
  PublishedIsRecorded
  KidNeverRebinds
  RetiredKidNeverReturns
  HistoryAccumulates
PROPERTIES
  ImplementsSnapshotLog
  SequenceNeverReused
  FreshWhenRecorded
CONSTRAINT InInstance
SYMMETRY OperatorSymmetry
CHECK_DEADLOCK FALSE
