CONSTANTS
  Timestamps = {old, new}
  ExitCodes = {0, 1}
  Zero = 0
  MaxCalls = 1
  MaxOutput = 2
  PipeCap = 2
  ChunkMax = 2
  SockCap = 2
  MayReuse = FALSE
SPECIFICATION ObedientSpec
PROPERTIES
  CloseCancels
