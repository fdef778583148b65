CONSTANTS
    Garbage = Garbage
    MaxAccounts = 2
    MaxSeals = 4
    MaxEdits = 2
SPECIFICATION Spec
INVARIANTS
    TypeOK
    VerifiedIsWritten
    UntouchedVerifies
PROPERTY
    AlarmPersists
