SPECIFICATION Spec
CONSTANTS
    N = 3
    Job = {1, 2, 3}
    NoJob = 0
    Workers = {w1}
    Sources = {"task", "gather", "timer"}
    Delays <- MCDelays
    MaxTime = 2
    MaxOps = 2
    GatherMax = 2
    EhMax = 2
INVARIANTS
    TypeOK
    Scheduling
    ThrowStaysOnStack
    GatherInOrder
PROPERTIES
    ImplementsFutures
