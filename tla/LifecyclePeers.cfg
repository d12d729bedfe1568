CONSTANTS
  c1 = c1
  c2 = c2
  Clients = {c1, c2}
  AutoClients = {c2}
  MaxDaemons = 2
  MaxBuild = 1
  Budget = 3
  GracefulTerm = TRUE
  MayCrash = FALSE
  MayStop = TRUE
  SlowStart = TRUE
  MayInterrupt = TRUE
  FatalTexts = TRUE
SPECIFICATION FairSpec
INVARIANTS
  StopsForGood
PROPERTIES
  CallsReturn
