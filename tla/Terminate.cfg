CONSTANT Checks = 3
SPECIFICATION FairSpec
INVARIANTS
  TypeOK
  ReportsDead
  DeniedUnharmed
  NotSpared
PROPERTIES
  StopTakesEffect
