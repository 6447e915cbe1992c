SPECIFICATION FairSpec
CONSTANTS
    MaxSpanID = 0
    Readers = {r1, r2}
    Fetchers = {f1}
    Prefetchers = {p1}
    Retries = 1
    Faults = {"read", "digest", "uncompress", "add"}
    NoThread = NoThread
INVARIANTS ReadersGetFileData
PROPERTIES ErrorsAreFaults StoreSpec CallsReturn
