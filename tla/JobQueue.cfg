\* One engine, two workers, two jobs of three kinds; threads run and time passes.
SPECIFICATION FairSpec
CONSTANTS
    e1 = e1
    e2 = e2
    w1 = w1
    w2 = w2
    Engines = {e1}
    Threads = {w1, w2}
    Home <- OneEngineHome
    Kinds = {"process_document", "train_semantic", "reembed_other"}
    MaxJobs = 2
    MaxAttempts = 2
INVARIANTS TypeOK ExclusiveRun NoStrandedJob ClosedMeansIdle AttemptsAccounted
PROPERTIES SettledIsFinal ImplementsLifecycle PendingSettles
