\* One worker, one client that ingests one document, and a process that dies.
SPECIFICATION IngestionSpec
CONSTANTS
    e1 = e1
    Engines = {e1}
    Threads = {w1}
    Clients = {a1}
    Actors = {w1, a1}
    Home <- Home1
    Kinds = {"process_document", "delete_document"}
    MaxJobs = 1
    MaxAttempts = 3
    Contents = {c1}
    NoContent = none
    MaxDocs = 1
    Chunks = 1
    HasLlm = FALSE
    FaultSteps = {}
    ClientCalls = {}
    Events = {"crash"}
INVARIANT UnfinishedHasText
