SPECIFICATION FairSpec
CONSTANTS
  NumImages = 2
  Last <- MCLast
  FirstFrame = 0
  FrameMod = 4
  SeqMod = 3
  MaxCopies = 2
  ControlCap = 1
INVARIANTS
  TypeOK
  WholeImages
  RedeliveryNeedsWholeCopy
  LossIsNoticed
PROPERTY
  LossIsRequested
