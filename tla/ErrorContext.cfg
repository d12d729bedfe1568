CONSTANTS
  Threads = {t1, t2}
  BufferSize = 2
  MaxEvents = 4
SPECIFICATION FairSpec
CHECK_DEADLOCK FALSE
INVARIANTS
  TypeOK
  OneBuffer
  Chronological
  DumpIsStretch
PROPERTIES
  ErrorShown
  HeldUpByStderr
