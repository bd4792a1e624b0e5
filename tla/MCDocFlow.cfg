CONSTANTS
  None = None
  Demos = {d1}
  Others = {o1, o2}
  Requests <- const_Requests
  MaxRequests = 2
  MaxFaults = 1
SPECIFICATION Spec
INVARIANTS
  SignedOnlyAfterOk
PROPERTIES
  DemoEnds
  OthersAreAnswered
CHECK_DEADLOCK FALSE
