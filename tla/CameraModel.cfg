CONSTANTS
    c1 = c1
    c2 = c2
    Cameras = {c1, c2}
    SensorCameras = {c1, c2}
    NoReading = NoReading
    AutoTiles <- AllAuto
    MaxSlotId = 7
SPECIFICATION Spec
INVARIANTS
    TypeOK
    CameraShownOnce
    TilesCoverFrame
    SlotIdNeverReused
    AutoMarksAreLive
PROPERTY
    AutoSplitIsComplete
SYMMETRY Symmetry
VIEW WithoutReadings
