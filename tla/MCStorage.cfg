SPECIFICATION Spec
CONSTANTS
    p1 = p1
    p2 = p2
    NoPassphrase = NoPassphrase
    Passphrases <- TwoPassphrases
    MaxFiles = 2
    MaxFaults = 3
    MaxExports = 1
    MaxPairs = 1
SYMMETRY Symmetry
INVARIANTS
    NeverTorn
    KeptThroughRewrite
    RecordOfEveryContainer
    ExportOpensLatest
