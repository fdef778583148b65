SPECIFICATION FairSpec
CONSTANTS
    ZoomMin <- MCZoomMin
    ZoomMax = 3
    ZoomStep = 2
    TextSize = 3
    TextStep = 2
    MaxText = 6
    MaxDisplays = 3
INVARIANTS
    TypeOK
    ClosedIsEmpty
    LabelTruthful
    CaptureSealed
PROPERTIES
    HeldIsNoticed
