SPECIFICATION FairSpec
CONSTANTS
    Layers = {l1, l2}
    MaxSpanID = 1
    MaxQueueSizes = {0, 1}
    DropPolicies = {"oldest", "newest"}
    FetchMayFail = TRUE
INVARIANTS InOnePlace OneLateFetch
PROPERTIES EveryLayerIsServed
CHECK_DEADLOCK FALSE
