SPECIFICATION Spec
CONSTANTS
    d1 = d1
    d2 = d2
    NoDrive = NoDrive
    Drives <- TwoDrives
    MaxFailedAttempts = 1
    MaxAttempts = 2
    MaxInterrupts = 0
SYMMETRY Symmetry
INVARIANTS
    ReboundDriveAccepted
