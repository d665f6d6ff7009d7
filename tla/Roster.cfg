SPECIFICATION FairSpec
CONSTANTS
    Satellites = {s1, s2}
    Areas = {kitchen}
    NoArea = NoArea
    Words = {w1, w2}
    Kinds = {"create", "remove", "area", "room", "title", "disable", "state", "word"}
    MaxChanges = 2
    MaxMishaps = 1
    MaxReloads = 1
INVARIANTS
    TypeOK
    NothingForgotten
PROPERTY CatchesUp
