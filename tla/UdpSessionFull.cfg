SPECIFICATION FairSpec
CONSTANTS
  NumImages = 2
  Last <- MCLast
  FirstFrame = 0
  FrameMod = 4
  SeqMod = 3
  MaxCopies = 1
  ControlCap = 1
PROPERTY
  EveryLossIsRequested
