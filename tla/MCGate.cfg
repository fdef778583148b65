SPECIFICATION Spec
CONSTANTS
    a = a
    b = b
    c = c
    ida = ida
    idb = idb
    idc = idc
    blank = blank
    blankc = blankc
    make = make
    other = other
    m1 = m1
    None = None
    Sticks <- MCSticks
    Ids <- MCIds
    IdOf <- MCIdOf
    BlankOf <- MCBlankOf
    Tokens <- MCTokens
    Values <- MCValues
    TokensOf <- MCTokensOf
    Machines <- MCMachines
    Policies <- MCPolicies
    Threshold = 2
    Base = 1
    Cap = 3
    MaxTime = 8
    MaxAccesses = 2
INVARIANTS
    PolicyAgreesWithKey
    OnlyHomeAccepted
PROPERTIES
    PacedMismatches
