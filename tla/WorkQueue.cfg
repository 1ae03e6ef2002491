CONSTANTS
    Threads = {t1, t2}
    w1 = w1
    w2 = w2
    w3 = w3
    Workers = {w1, w2, w3}
    PoolOf <- MCPoolOf
    ArcItems = {x}
    BoxItems = {f}
    Ids = {1, 2}
    Queues = {"system", "unbound"}
    MaxArcs = 3
    Resolved = TRUE
    None = None
SPECIFICATION Spec
INVARIANTS OwnershipInv
PROPERTY SpawnedIsCalled
