SPECIFICATION Spec
CONSTANTS
    Workers = {w1, w2}
    MorePosts = 2
    MaxWaits = 1
    Callers = {t1, t2}
    Contexts = {c}
    MaxCalls = 3
    Keys = {k}
    Values = {d, v}
    Original = d
    MaxSets = 3
    MaxExecs = 2
    None = None
INVARIANTS TypeOK HandledInOrder CopiesSettle
PROPERTIES PostedWorkIsDone AllFreed
CHECK_DEADLOCK FALSE
