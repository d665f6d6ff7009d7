SPECIFICATION Spec
CONSTANTS
    Satellites <- Names
    Within <- Parts
    WakeWords <- Spellings
    Alike <- Homophones
    Targets = {a, b}
    Star = "*"
    NoWord = "none"
    NotMapped = NotMapped
    NoMatch = NoMatch
    NoForm = NoForm
    Cap = 2
    MaxRows = 3
SYMMETRY Symmetric
INVARIANTS
    TypeOK
    SaveTakesEffect
    SaveTouchesItsRowsOnly
    NeverWrongRoom
