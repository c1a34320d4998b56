\* One operator and one wallet, two commits, two snapshots, a day of one tick,
\* a fault, an exception that ends.
SPECIFICATION TrustSpec
CONSTANTS
  m1 = m1
  o1 = o1
  k1 = k1
  d1 = d1
  d2 = d2
  c1 = c1
  c2 = c2
  ma = ma
  mb = mb
  dev = dev
  a = a
  net = net
  t1 = t1
  Merchants = {m1}
  Origins = {o1}
  Kids = {k1}
  KeyData = {d1, d2}
  Commits = {c1, c2}
  NoCommit = NoCommit
  Day = 1
  Skew = 0
  MaxSequence = 2
  Maintainers = {ma, mb}
  Reviewer = ma
  ExceptionStart = 0
  ExceptionEnd = 1
  Operators = {a}
  Tree <- SmallTree
  Authors = {dev}
  StrictLimit = 100
  SnapshotLimit = 100
  ClockStepsBack = FALSE
  MaxTime = 1
  MaxApprovals = 2
  MaxFaults = 1
  Calls = {t1}
  Compacts <- SmallCompacts
  Invoices <- SmallInvoices
  Digests <- Snapshots
  NoDigest = NoDigest
  Networks = {net}
  Network = net
  Challenges = {}
  NoChallenge = NoChallenge
  Window <- SmallWindow
  InvoiceLife = 3
  MinimumSequence = 1
  WalletTime = 1
INVARIANTS
  PaidWasApproved
  RevocationReachesWallets
  KeyIdMeansOneKey
  NewestIsNeverRefused
CONSTRAINT InInstance
CHECK_DEADLOCK FALSE
