SPECIFICATION Spec
CONSTANTS
    Requests = {r1, r2}
    Streams = {music}
    Ann = Ann
    Volumes = {v20}
    Nil = Nil
    Watchdog = Watchdog
    Scanner = Scanner
    Budget <- Failures
SYMMETRY Symmetric
INVARIANTS
    HoldHasTimer
    NeverHomesToAnn
    ZoneInv
