SPECIFICATION Spec
CONSTANTS
    p1 = p1
    p2 = p2
    f1 = f1
    f2 = f2
    None = None
    Passwords <- MCPasswords
    Paths <- MCPaths
    Threshold = 2
    Base = 1
    Cap = 3
    ConfirmSeconds = 2
    MaxTime = 5
    MaxCodes = 2
    MaxPairs = 2
    MaxStops = 1
SYMMETRY Symmetry
INVARIANTS
    CodeKnown
    KeyOnFile
PROPERTIES
    DeletedDeliberately
    PacedGuesses
