CONSTANTS
  Timestamps = {old, new}
  ExitCodes = {0, 1}
  Zero = 0
  MaxCalls = 2
  MaxOutput = 6
  PipeCap = 3
  ChunkMax = 2
  SockCap = 2
  MayReuse = FALSE
SPECIFICATION FairSpec
INVARIANTS
  TypeOK
  StdoutIsOutput
  AnswerAfterOutput
  AnswerIsHandlers
  AnswersOwnCommand
  NoOrphanHandler
  NoStandstill
PROPERTIES
  KeepsPromise
  ServesTask
  CallReturns
  TaskEnds
