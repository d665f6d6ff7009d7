SPECIFICATION Spec
CONSTANTS
    Hosts = {ha}
    Leads = {0, 1}
    Tail = 2
    Drain = 4
    MaxWait = 4
    None = None
    Lengths = {0, 1, 3, 6}
    MaxClips = 2
    MaxElapsed = 6
    MaxChanges = 1
INVARIANTS
    TypeOK
    NothingCut
    RawMeansPcm
