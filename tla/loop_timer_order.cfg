SPECIFICATION Spec
CONSTANTS
    N = 4
    Job = {1, 2, 3, 4}
    NoJob = 0
    Workers = {w1}
    Sources = {"task", "timer"}
    Delays <- MCDelays
    MaxTime = 2
    MaxOps = 2
    GatherMax = 0
    EhMax = 2
INVARIANT TimersWakeByDeadline
