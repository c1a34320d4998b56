\* One operator, a record and one revocation, a strictJSON limit of three items.
SPECIFICATION Spec
CONSTANTS
  m1 = m1
  m2 = m2
  o1 = o1
  o2 = o2
  k1 = k1
  k2 = k2
  d1 = d1
  d2 = d2
  c1 = c1
  c2 = c2
  c3 = c3
  c4 = c4
  ma = ma
  mb = mb
  el = el
  dev = dev
  a = a
  b = b
  Merchants = {m1}
  Origins = {o1}
  Kids = {k1, k2}
  KeyData = {d1, d2}
  Commits = {c4}
  NoCommit = NoCommit
  Day = 1
  Skew = 0
  MaxSequence = 2
  Maintainers = {ma, mb}
  Reviewer = el
  ExceptionStart = 9
  ExceptionEnd = 9
  Operators = {a}
  Tree <- KeyTree
  Authors = {dev}
  StrictLimit = 3
  SnapshotLimit = 100
  ClockStepsBack = FALSE
  MaxTime = 0
  MaxApprovals = 3
  MaxFaults = 0
INVARIANTS
  StateReadable
CHECK_DEADLOCK FALSE
