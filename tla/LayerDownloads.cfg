SPECIFICATION Spec
CONSTANTS
    Layers = {"a1", "a2", "b1"}
    Images = {"a", "b"}
    ImageOf <- OwnImage
    Second = {"a2"}
    Digest <- Digests
    Size <- Sizes
    Present = {"y"}
    Configs <- SomeConfigs
    Faults = {"initial", "request", "bad", "short", "file", "clean"}
    MaxFaults = 2
INVARIANTS PermitsAreHeld FilesAreWholeWhenRead UnpackedLayersAreVerified
PROPERTY PremountsEnd
CHECK_DEADLOCK FALSE
