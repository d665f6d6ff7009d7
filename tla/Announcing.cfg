SPECIFICATION Spec
CONSTANTS
    Satellites = {hall, attic}
    Mapped = {hall}
    Calls = {c1, c2, c3}
    MaxBreaks = 1
    MaxReloads = 1
INVARIANTS
    TypeOK
    NoStuckOn
 
