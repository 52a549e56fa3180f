\* One thread that ingests, trains twice and re-embeds, one that deletes and queries.
SPECIFICATION SemFairSpec
CONSTANTS
    writer = writer
    reader = reader
    Actors = {writer, reader}
    Calls <- WriterAndReader
    MaxChunks = 2
    MaxTrainings = 2
    MinChunks = 1
    Batch = 2
    Faults = TRUE
INVARIANTS
    LabelsTruthful
    IndexOfOneModel
    ReembedMigrates
    OpensUnlessTorn
PROPERTY ReembedReturns
CHECK_DEADLOCK FALSE
