\* Texts damaged in two places, six characters, four parameters, two of every key and file.
SPECIFICATION Spec
CONSTANTS
  a1 = a1
  a2 = a2
  m1 = m1
  m2 = m2
  t1 = t1
  t2 = t2
  net = net
  x = x
  y = y
  s1 = s1
  s2 = s2
  Strings = {"a", "a_escaped", "b", "half"}
  Unreadable = Unreadable
  Meaning <- Spelled
  Scalars = {"1", "1.0", "1e999"}
  MaxDepth = 2
  Addresses = {a1, a2}
  Networks = {net}
  Shielded <- OnlyOne
  Memos = {m1}
  Texts = {t1}
  Nothing = Nothing
  Decimals = 2
  MaxMoney = 1990
  MaxAmountLength = 5
  DayLength = 2
  Lead = 1
  Alphabet <- EdgeChars
  AmountChars = {0, 1, 9, 10}
  Items <- SomeItems
  Payloads <- EdgePayloads
  RootIds = {1, 64}
  Signers = {s1, s2}
  Requests <- SomeRequests
  Files <- SomeFiles
  Revision = m1
  Approvals <- SomeApprovals
  Times <- UpTo5
  Horizon = 6
  Lexemes <- SomeLexemes
  Intact <- SomeTexts
  MaxDamage = 2
  MaxText = 6
  MaxItems = 4
INVARIANTS
  JsonMeansWhatItSays
  JsonSaysTheText
  Base64IsCanonical
  UriNothingDropped
  UriAmountIsExact
  SignedIsVerified
  EvidenceIsExact
  RotationLasts
CHECK_DEADLOCK FALSE
