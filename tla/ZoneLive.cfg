SPECIFICATION FairSpec
CONSTANTS
    Requests = {r1, r2}
    Streams = {music}
    Ann = Ann
    Volumes = {}
    Nil = Nil
    Watchdog = Watchdog
    Scanner = Scanner
    Budget <- Visited
PROPERTIES
    EveryRequestEnds
    EveryHoldEnds
    UnducksUntroubled
