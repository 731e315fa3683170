SPECIFICATION Spec
CONSTANTS
    N = 2
    Job = {1, 2}
    NoJob = 0
    Workers = {w1}
    Sources = {"task", "timer"}
    Delays <- MCDelays
    MaxTime = 2
    MaxOps = 2
    GatherMax = 0
    EhMax = 2
PROPERTY MainAwaitSettles
