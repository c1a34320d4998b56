\* Two callers, four signed snapshots, a cron every tick.
SPECIFICATION Spec
CONSTANTS
  a = a
  b = b
  d1 = d1
  d2 = d2
  d3 = d3
  Clients = {a, b}
  Signed <- SmallSigned
  Digests = {d1, d2, d3}
  NoDigest = NoDigest
  None = None
  MinimumSequence = 1
  Skew = 1
  AlertLead = 2
  CronPeriod = 1
  MaxTime = 5
INVARIANTS
  LatestIsNewestArchived
  NoStaleAnswer
  AlertBeforeExpiry
PROPERTIES
  ImplementsCheckpoint
  ArchiveIsImmutable
SYMMETRY ClientSymmetry
CHECK_DEADLOCK FALSE
