SPECIFICATION Spec
CONSTANTS
    Parts = {"query"}
    MsPerSec = 5
    Base = 1
    Cap = 3
    MaxAttempts = 4
    LastSec = 14
    ProseLines <- Prose
    CodeLines <- Code
    MaxLines = 5
    chunk_max_chars = 8
    chunk_min_chars = 7
    Statements <- Said
    MaxClaims = 4
    MAX_COMPARISONS = 3
    MAX_CONFLICTS_PER_CLAIM = 1
    Entities = {1, 2, 3, 4}
    MaxWeight = 2
    Depths = {0, 2, 9}
    Limits = {1, 3}
    Nodes = {1, 2, 3, 4, 5, 6}
    Layouts <- Corpora
    Level <- Levels
    M = 2
    Beam = 4
    Queries = {0, 2, 7}
    Libraries <- Stores
    DocumentOf <- Owners
    Summarized = {1}
    Requests <- Asked
    MinFetch = 3
    MaxFetch = 3
    Prefetch = 2
    rerank_top_n = 2
    max_dense_scan = 3
    mmr_lambda = 70
    SnippetChars = 7
    Openers = {o1, o2}
    Faults = TRUE
INVARIANT FiltersHold
CHECK_DEADLOCK FALSE
