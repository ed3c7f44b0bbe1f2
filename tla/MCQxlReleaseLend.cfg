SPECIFICATION FairSpec
CONSTANTS
  b1 = b1
  b2 = b2
  b3 = b3
  Nil = Nil
  Res <- TwoBlocks
  ReleaseItems = 2
  IdxMod = 4
  BunchSize = 2
  ReleaseBunch = 1
INVARIANTS TypeOK ChainExact ReleaseTold
PROPERTIES LendsCorrectly MemoryReturns
