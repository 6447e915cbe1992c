SPECIFICATION Spec
CONSTANTS
    SmallLayers = {"S"}
    UnsupportedLayers = {}
    FileExtents <- Extents
    Published <- AllPublished
    Pulled <- WhatIsPulled
    Indexes <- PublishedIndexes
    Names = {"a", "b"}
    First = "a"
    PlatformArgs <- PlatformLists
    SpanSizes = {2}
    PathArgs <- PathSets
    Destinations = {"b"}
    Fetchers = {"f1"}
    Faults = {"label", "network", "crash", "restart"}
    Given <- GivenIndexes
    PullModes = {{}, {"v1"}, {"v1", "v2"}}
    MaxEvents = 3
INVARIANTS ImagesKeepTheirIndexes ContextsKeepTheirZtocs IndexesDescribeTheirLayers ConvertedImagesAreConsistent KeptIndexesAreListed
CHECK_DEADLOCK FALSE
