CONSTANTS
  c1 = c1
  c2 = c2
  Clients = {c1}
  AutoClients = {c1}
  MaxDaemons = 2
  MaxBuild = 1
  Budget = 2
  GracefulTerm = FALSE
  MayCrash = FALSE
  MayStop = FALSE
  SlowStart = FALSE
  MayInterrupt = FALSE
  FatalTexts = TRUE
SPECIFICATION Spec
PROPERTIES
  RetriesUnanswered
