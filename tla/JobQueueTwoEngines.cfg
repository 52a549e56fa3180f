\* Two engines opened on one file, one worker each.
SPECIFICATION Spec
CONSTANTS
    e1 = e1
    e2 = e2
    w1 = w1
    w2 = w2
    Engines = {e1, e2}
    Threads = {w1, w2}
    Home <- TwoEnginesHome
    Kinds = {"process_document"}
    MaxJobs = 1
    MaxAttempts = 3
INVARIANT ExclusiveRun
