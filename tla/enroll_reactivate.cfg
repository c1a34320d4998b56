\* One operator, one reviewer, three heads.
SPECIFICATION Spec
CONSTANTS
  m1 = m1
  o1 = o1
  k1 = k1
  k2 = k2
  d1 = d1
  d2 = d2
  h1 = h1
  h2 = h2
  h3 = h3
  ma = ma
  mb = mb
  mc = mc
  el = el
  dev = dev
  a = a
  b = b
  p1 = p1
  Merchants = {m1}
  Origins = {o1}
  Kids = {k1, k2}
  KeyData = {d1, d2}
  Commits = {h1, h2, h3}
  NoCommit = NoCommit
  NoKid = NoKid
  Day = 1
  Skew = 0
  MaxSequence = 1
  Maintainers = {}
  Reviewer = el
  ExceptionStart = 0
  ExceptionEnd = 9
  Authors = {dev, ma}
  Operators = {a}
  Pulls = {p1}
  PullAuthor <- ByDeveloper
  Heads = {h1, h2, h3}
  Content <- SmallContent
  Window <- SmallWindow
  MaxTime = 0
  MaxEvents = 5
  MaxFaults = 0
PROPERTIES
  ReactivationIsDecided
CHECK_DEADLOCK FALSE
