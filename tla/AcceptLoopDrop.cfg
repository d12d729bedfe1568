CONSTANTS
  c1 = c1
  c2 = c2
  c3 = c3
  Clients = {c1, c2}
  MaxConnections = 1
  MaxFaults = 1
  AcceptMayFail = FALSE
SPECIFICATION Spec
INVARIANTS
  StopsOnlyOnRequest
