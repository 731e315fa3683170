SPECIFICATION FairSpec
CONSTANTS
    N = 3
    Job = {1, 2, 3}
    NoJob = 0
    Workers = {w1, w2}
    Sources = {"task", "http", "timer"}
    Delays = {2}
    MaxTime = 2
    MaxOps = 2
    GatherMax = 0
    EhMax = 1
INVARIANTS
    HttpConsistent
    DrainComplete
    JobsInUseAreLive
    JobsHeldOnce
    PublishedHasOutcome
PROPERTIES
    NoEarlyTimer
    Terminates
