SPECIFICATION Spec
CONSTANTS
    Clients = {c1, c2}
    Cleaners = {g}
    Keys = {k1, k2}
    Names = {n1}
    None = None
    MaxID = 2
    MaxTemps = 6
    MaxStops = 1
    AsyncRemove = {TRUE}
    Parallel = {"off"}
    Faults = {"crash"}
SYMMETRY SameCallers
INVARIANTS SnapshotsHaveDirectories RemoteSnapshotsAreMounted
PROPERTIES MountsAreServed
CHECK_DEADLOCK FALSE
