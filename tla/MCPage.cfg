SPECIFICATION FairSpec
CONSTANTS
    e = e
    f = f
    a = a
    b = b
    x = x
    y = y
    None = None
    Letters <- TwoLetters
    Sticks <- TwoSticks
    Names <- TwoNames
    MaxChanges = 3
    MaxViews = 2
    MaxLoads = 2
INVARIANTS
    Coherent
    ActsOnClicked
    KeyExpires
PROPERTIES
    CatchesUp
