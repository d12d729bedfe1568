CONSTANTS
  c1 = c1
  c2 = c2
  Clients = {c1}
  AutoClients = {c1}
  MaxDaemons = 5
  MaxBuild = 2
  Budget = 4
  GracefulTerm = FALSE
  MayCrash = TRUE
  MayStop = FALSE
  SlowStart = TRUE
  MayInterrupt = FALSE
  FatalTexts = TRUE
SPECIFICATION Spec
INVARIANTS
  TypeOK
  OwnVersion
  NoLostDaemon
PROPERTIES
  StartsAlone
  ConnectFailsForCause
  KeepsPromise
  CallsBounded
