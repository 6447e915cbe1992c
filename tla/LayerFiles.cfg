SPECIFICATION Spec
CONSTANTS
    TarBlockSize = 2
    SpanSize = 4
    GzipHeader = 1
    Blobs <- MCBlobs
    MapOrders <- MCMapOrders
    ChunkSize = 2
    SharedStore = TRUE
    Names <- MCNames
    Reads <- MCReads
    Retries = 1
    Scripts <- MCScripts
    MaxRequests = 4
INVARIANTS
    ZtocSurvives
    MountShowsTheLayer
    AnswersShowTheLayer
    ReadsReturnTheFile
    FetchedSizeIsExact
CHECK_DEADLOCK FALSE
