SPECIFICATION ArcSpec
CONSTANTS
    Slots = {s1, s2, s3, s4, s5}
    IDs = {A, B, U}
    Untracked = {U}
    NoSlot = NoSlot
    NoID = NoID
INVARIANTS CountInv TrackerInv UniqueAlone
