SPECIFICATION Spec
CONSTANTS
    Clients = {a, b}
    Tabs = {t1, t2}
    Ports = {1, 2, 3, 4, 5}
    Shared = {1, 9}
    None = None
    Budget <- Everything
SYMMETRY Symmetric
INVARIANTS
    TypeOK
    OwnPort
    EnabledSurvives
    EnabledHasPort
