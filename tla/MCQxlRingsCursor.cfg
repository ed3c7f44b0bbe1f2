SPECIFICATION FairSpec
CONSTANTS
  c1 = c1
  c2 = c2
  Cmd <- OneCommand
  Ring <- Both
  RingItems = 1
  IdxMod = 2
  PollRetries = 0
  MaxPipe = 0
  CommandItems = 1
  MaxStreams = 0
  AckWindow = 1
  Connected <- NoClient
  MayHangUp = FALSE
  DriverSleeps = FALSE
INVARIANT WorkerWoken
PROPERTIES  BothServed
