\* Two callers of one engine: calls about documents interleaved; documents processed
\* side by side into the graph, with deletions and merges one at a time.
SPECIFICATION StoresSpec
CONSTANTS
    Actors = {a1, a2}
    Contents = {k1}
    NoContent = none
    MaxDocs = 2
    Chunks = 2
    HasLlm = TRUE
    FaultSteps <- HarmlessFaults
    Callers = {c1, c2}
    Docs <- TwoDocs
    Key <- Keys
    Plain <- PlainSurfaces
    Type <- Types
    Alike <- AlikeKeys
    ExtraAliases = {"ACM"}
    MaxEntities = 4
    MaxMerges = 1
    Overlapping = {"process"}
    FaultCalls = {"merge"}
SYMMETRY CallerSymmetry
INVARIANTS
    ReadyIsComplete
    UnfinishedHasText
    EdgesExact
    CountCoversDocuments
    ResolutionStable
PROPERTY MergeKeepsMentions
CHECK_DEADLOCK FALSE
