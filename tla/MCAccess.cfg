SPECIFICATION FairSpec
CONSTANTS
    d1 = d1
    d2 = d2
    NoDrive = NoDrive
    Drives <- TwoDrives
    MaxFailedAttempts = 1
    MaxAttempts = 2
    MaxInterrupts = 1
INVARIANTS
    OneView
    ClosedViewsLogged
    DueViewsGranted
    DriveBoundContent
PROPERTIES
    GrantedIsShown
    BurnedThenShown
    LocksOut
