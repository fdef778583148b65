CONSTANTS
    p1 = p1
    p2 = p2
    k1 = k1
    Passwords <- MCPasswords
    KeyFiles <- MCKeyFiles
    NoSecret = NoSecret
    MaxFailedAttempts = 2
    MaxFresh = 8
    MaxInterrupts = 2
SPECIFICATION Spec
INVARIANT
    RotationNeverOrphans
