SPECIFICATION Spec
CONSTANTS
    Pulls = {p1, p2}
    NLayers = 1
    Faults = {"manifest", "initialFetch", "create", "unpack", "mountpoint", "cancel"}
    NoImage = NoImage
SYMMETRY SamePulls
INVARIANTS SweepSparesTracked
PROPERTIES MovesFinishedUnpacks
CHECK_DEADLOCK FALSE
