CONSTANTS
  Server = Server
  None = None
  Clients = {c1, c2}
  MaxFaults = 2
SPECIFICATION Spec
INVARIANTS
  SuccessMeansAgreement
PROPERTIES
  EveryClientExits
  UndisturbedEndsAsItShould
CHECK_DEADLOCK FALSE
