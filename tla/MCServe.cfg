SPECIFICATION Spec
CONSTANTS
  Clients = {c1, c2, c3}
  Limit = 2
  Keep = 1
  MaxBody = 1
  MaxRequests = 3
INVARIANTS AnsweredIsKept PermitsAccounted
PROPERTIES CtrlCStops
CHECK_DEADLOCK FALSE
