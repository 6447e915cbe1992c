SPECIFICATION LockFairSpec
CONSTANTS
    Actors = {a1, a2, a3}
    Names = {n1, n2}
    Mutexes = {x1, x2, x3}
    NoActor = NoActor
    NoName = NoName
    NoMutex = NoMutex
PROPERTIES ImplementsNameLock WaitersGetIn
CHECK_DEADLOCK FALSE
