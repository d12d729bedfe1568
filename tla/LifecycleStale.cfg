CONSTANTS
  c1 = c1
  c2 = c2
  Clients = {c1, c2}
  AutoClients = {c1}
  MaxDaemons = 3
  MaxBuild = 1
  Budget = 2
  GracefulTerm = FALSE
  MayCrash = FALSE
  MayStop = FALSE
  SlowStart = FALSE
  MayInterrupt = FALSE
  FatalTexts = FALSE
SPECIFICATION Spec
PROPERTIES
  RemovesStaleOnly
