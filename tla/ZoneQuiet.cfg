SPECIFICATION FairSpec
CONSTANTS
    Requests = {r1, r2, r3}
    Streams = {music, airplay}
    Ann = Ann
    Volumes = {v20, v60}
    Nil = Nil
    Watchdog = Watchdog
    Scanner = Scanner
    Budget <- Toggled
INVARIANTS
    Serialised
    NoStrand
    PlaysAtItsVolume
PROPERTIES
    NoYank
    EveryoneIsHeard
    ExchangeEndUnducks
    KeepsPromise
