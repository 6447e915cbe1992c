SPECIFICATION FairSpec
CONSTANTS
    Pulls = {p1}
    NLayers = 2
    Faults = {"manifest", "initialFetch", "create", "unpack", "mountpoint", "cancel"}
    NoImage = NoImage
INVARIANTS DoneMeansAllMounted
PROPERTIES PullsEnd NoDirectoryLeaks
CHECK_DEADLOCK FALSE
