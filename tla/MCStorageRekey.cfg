CONSTANTS
  None = None
  ServerKey = "s"
  Ids = {"s", "k"}
  Passwords = {"p", "q"}
  Validities = {1}
  MaxKeys = 2
  MaxRuns = 1
  MaxNow = 0
  MaxAudits = 4
  MaxFaults = 0
SPECIFICATION Spec
INVARIANTS
  KeysStayReadable
CHECK_DEADLOCK FALSE
