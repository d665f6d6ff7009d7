SPECIFICATION Spec
CONSTANTS
    Entries = {e1, e2}
    Urls = {u1, u2}
    Satellites = {kitchen}
    NoSatellite = NoSatellite
    Tabs = {t1}
    None = None
    MaxSubmits = 1
    MaxRestarts = 0
    MaxStuck = 0
PROPERTY SavesWhatWasEntered
