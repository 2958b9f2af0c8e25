SPECIFICATION Spec
CONSTANTS
    Putters = {w1}
    Entries = {e1, e2}
    MaxFiles = 3
    MaxCrashes = 1
PROPERTY StartedStoreIsSound
CHECK_DEADLOCK FALSE
