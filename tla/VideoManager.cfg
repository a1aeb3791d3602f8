CONSTANTS
  c1 = c1
  c2 = c2
  Cameras = {c1, c2}
  Addressed = {c1}
  None = None
  MaxSlots = 4
  MaxFrames = 2
SPECIFICATION FairSpec
INVARIANTS
  TypeOK
  StreamShowsItsCamera
  DecoderHasWorker
  SeenIsShown
PROPERTIES
  HandlersEnd
  NewestFrameIsShown
