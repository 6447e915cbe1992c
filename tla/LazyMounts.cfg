SPECIFICATION Spec
CONSTANTS
    m1 = m1
    m2 = m2
    n1 = n1
    n2 = n2
    Mountpoints = {m1, m2}
    Workers = {w}
    Actors = {m1, m2, w}
    Names = {n1, n2}
    Indexed = {n1, n2}
    ActiveIDs = {c}
    Parents = {m1}
    Faults = {"index", "ztoc", "network", "blob", "meta", "node", "fuse", "timeout"}
    MaxResults = 1
    QueueSize = 1
    Numbers = {1, 2, 3}
    Assignments <- MCAssignments
    NoActor = NoActor
    NoName = NoName
CHECK_DEADLOCK FALSE
INVARIANTS MountedLayersAreOpen OpenLayersHaveOpenBlobs ReferencesAreOwned
