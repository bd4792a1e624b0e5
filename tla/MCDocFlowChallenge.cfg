CONSTANTS
  None = None
  Demos = {}
  Others = {o1, o2}
  Requests <- const_Requests
  MaxRequests = 2
  MaxFaults = 0
SPECIFICATION Spec
PROPERTIES
  ChallengesCome
CHECK_DEADLOCK FALSE
