SPECIFICATION FairSpec
CONSTANTS
  c1 = c1
  c2 = c2
  Cmd <- OneCommand
  Ring <- Display
  RingItems = 1
  IdxMod = 2
  PollRetries = 0
  MaxPipe = 0
  CommandItems = 1
  MaxStreams = 0
  AckWindow = 1
  Connected <- NoClient
  MayHangUp = FALSE
  DriverSleeps = TRUE
INVARIANTS InterruptComing DriverWoken
PROPERTY DriverGetsRoom
