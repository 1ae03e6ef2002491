CONSTANTS
    Consumers = {c1, c2}
    Timed = {c1}
    Producers = {p1, p2}
    MaxTokens = 2
    None = None
    EpollItems = {e1}
    Holders = {h1, h2}
    Memory = {m1, m2}
    Global = Global
    NoOne = NoOne
SPECIFICATION SyncSpec
INVARIANTS WaitQueueInv NothingMissed LocksExclude
PROPERTY WaiterServed
