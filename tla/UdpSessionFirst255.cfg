SPECIFICATION Spec
CONSTANTS
  NumImages = 2
  Last <- MCShortLast
  FirstFrame = 3
  FrameMod = 4
  SeqMod = 3
  MaxCopies = 1
  ControlCap = 1
INVARIANT
  LossIsNoticed
