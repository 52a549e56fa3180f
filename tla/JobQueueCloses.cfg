\* Two engines on one file, one worker each, one bulk job; threads run and time passes.
SPECIFICATION FairSpec
CONSTANTS
    e1 = e1
    e2 = e2
    w1 = w1
    w2 = w2
    Engines = {e1, e2}
    Threads = {w1, w2}
    Home <- TwoEnginesHome
    Kinds = {"reembed_stale", "reembed_other"}
    MaxJobs = 1
    MaxAttempts = 2
PROPERTY CloseReturns
