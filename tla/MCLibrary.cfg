CONSTANTS
  None = None
  ServerKey = "s"
  Ids = {"s", "k"}
  Passwords = {"p", "q"}
  Validities = {0}
  MaxKeys = 2
  MaxRuns = 2
  MaxNow = 1
  MaxAudits = 3
  MaxFaults = 1
  Threads = {t1, t2}
  Ttl = 2
  MaxSessions = 2
  MaxTime = 3
  Serials = {s1, s2}
  Urls = {u1}
  MaxLoads = 4
  MaxDay = 3
  Texts = {d1, d2}
  Signers = {a, b}
  Unknown = Unknown
  NoText = NoText
  MaxParts = 3
SPECIFICATION LibrarySpec
INVARIANTS
  VerdictIsExact
  VaultOpensWhole
  RevokedStaysRevoked
  TokensFollowSessions
  RevocationFollowsLastList
  ReferencesStayValid
  VerdictsAreOfTheFirstSigners
CHECK_DEADLOCK FALSE
