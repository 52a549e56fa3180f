\* One thread that makes every call, one after the other, and trains twice.
SPECIFICATION UndisturbedSpec
CONSTANTS
    writer = writer
    reader = reader
    Actors = {writer}
    Calls <- OneCaller
    MaxChunks = 2
    MaxTrainings = 2
    MinChunks = 1
    Batch = 2
    Faults = FALSE
INVARIANT OneSpacePerQuery
CHECK_DEADLOCK FALSE
