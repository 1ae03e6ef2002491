CONSTANTS
    Requests = {r1, r2}
    Handles = {h1, h2, h3}
    Contexts = {c1, c2}
    Disks = {d1, d2}
    NoRq = NoRq
    NoHandle = NoHandle
    NoDisk = NoDisk
    RefMax = 15
    CleanErrors = TRUE
    MaxHeld = 2
    NameParts <- Names
    DiskNameLen = 8
    Resolved = {"del_gendisk", "blk_mq_free_tag_set"}
SPECIFICATION DSpec
SYMMETRY Symmetry
CHECK_DEADLOCK FALSE
INVARIANTS RequestInv QueueAlive TagSetInv NoIoAfterDrop
