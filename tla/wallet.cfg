\* Two calls at once, four compacts, two invoices, a day of two ticks.
SPECIFICATION Spec
CONSTANTS
  m1 = m1
  o1 = o1
  k1 = k1
  k2 = k2
  d1 = d1
  d2 = d2
  c1 = c1
  g1 = g1
  g2 = g2
  g3 = g3
  g4 = g4
  net = net
  ch = ch
  a = a
  b = b
  Merchants = {m1}
  Origins = {o1}
  Kids = {k1, k2}
  KeyData = {d1, d2}
  Commits = {c1}
  NoCommit = NoCommit
  Day = 2
  Skew = 1
  MaxSequence = 3
  Calls = {a, b}
  Compacts <- SmallCompacts
  Invoices <- SmallInvoices
  Digests = {g1, g2, g3, g4}
  NoDigest = NoDigest
  Networks = {net}
  Network = net
  Challenges = {ch}
  NoChallenge = NoChallenge
  Window <- SmallWindow
  InvoiceLife = 4
  MinimumSequence = 1
  MaxTime = 4
INVARIANTS
  NeverTwoOfOneSequence
  NoRollback
  RevokedWithinADay
  ValidUntilIsExact
PROPERTIES
  ImplementsCheckpoint
SYMMETRY CallSymmetry
CHECK_DEADLOCK FALSE
