CONSTANTS
  c1 = c1
  c2 = c2
  c3 = c3
  Clients = {c1, c2, c3}
  MaxConnections = 2
  MaxFaults = 1
  AcceptMayFail = TRUE
SPECIFICATION FairSpec
INVARIANTS
  TypeOK
  ConnectionsWithinLimit
  ExecutionsWithinLimit
  NobodyForgotten
PROPERTIES
  RefusedOnlyAtCapacity
  TasksServe
  EveryClientHears
  ShutdownStops
  CapacityReturns
