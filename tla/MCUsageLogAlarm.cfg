CONSTANTS
    Garbage = Garbage
    MaxAccounts = 2
    MaxSeals = 2
    MaxEdits = 1
SPECIFICATION Spec
INVARIANT NoFalseAlarm
