SPECIFICATION FairSpec
CONSTANTS
    Tasks = {t1, t2}
    MaxSockets = 3
    MaxCalls = 2
    MaxLosses = 2
INVARIANTS
    TypeOK
    NobodyForgotten
    NeverDeaf
PROPERTY KeepsCallPromise
