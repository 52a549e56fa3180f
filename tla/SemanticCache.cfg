\* One thread that makes every call, one after the other.
SPECIFICATION SemSpec
CONSTANTS
    writer = writer
    reader = reader
    Actors = {writer}
    Calls <- OneCaller
    MaxChunks = 4
    MaxTrainings = 1
    MinChunks = 2
    Batch = 2
    Faults = FALSE
INVARIANT FingerprintExact
CHECK_DEADLOCK FALSE
