SPECIFICATION Spec
CONSTANTS
  c1 = c1
  c2 = c2
  Cmd <- OneCommand
  Ring <- Display
  RingItems = 2
  IdxMod = 4
  PollRetries = 1
  MaxPipe = 0
  CommandItems = 2
  MaxStreams = 1
  AckWindow = 1
  Connected <- AClient
  MayHangUp = TRUE
  DriverSleeps = FALSE
INVARIANTS TypeOK WorkerWoken
