\* One worker, one client: deletion by job, every event, statements that fail; and a
\* system that stays open (see MCFailures).
SPECIFICATION PartsSpec
CONSTANTS
    e1 = e1
    Engines = {e1}
    Threads = {w1}
    Clients = {a1}
    Actors = {w1, a1}
    Home <- Home1
    Kinds = {"process_document", "delete_document"}
    MaxJobs = 2
    MaxAttempts = 2
    Contents = {c1}
    NoContent = none
    MaxDocs = 2
    Chunks = 2
    HasLlm = TRUE
    FaultSteps <- AllFaults
    ClientCalls = {"enqueue_delete", "cancel"}
    Events = {"close", "crash", "lose_report"}
INVARIANTS DoneIsTrue ChunksStoredOnce DeletionIsReal LiveTextHasJob
PROPERTIES ImplementsQueue LiveIngestedBecomesReady
