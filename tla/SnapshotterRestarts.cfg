SPECIFICATION FairSpec
CONSTANTS
    Clients = {c1}
    Cleaners = {g}
    Keys = {k1}
    Names = {n1}
    None = None
    MaxID = 2
    MaxTemps = 3
    MaxStops = 1
    AsyncRemove = {TRUE, FALSE}
    Parallel = {"off", "on", "fallback"}
    Faults = {"crash", "umount", "io"}
PROPERTIES OrphansAreDeleted CallsReturn
CHECK_DEADLOCK FALSE
