SPECIFICATION FairSpec
CONSTANTS
    Entries = {e1, e2}
    Urls = {u1, u2}
    Satellites = {kitchen, hall}
    NoSatellite = NoSatellite
    Tabs = {t1, t2}
    None = None
    MaxSubmits = 2
    MaxRestarts = 1
    MaxStuck = 1
INVARIANTS
    TypeOK
    RoutesAsStored
    ServedByServices
    OneEntryPerStreamer
PROPERTY SettingsTakeEffect
