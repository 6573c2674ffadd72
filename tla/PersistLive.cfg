SPECIFICATION FairSpec
CONSTANTS
    x = x
    y = y
    i1 = i1
    i2 = i2
    Names = {x, y}
    Inodes = {i1, i2}
    Pids = {p1}
    Exes = {curl}
    NoHash = NoHash
    None = None
    NoRecord = NoRecord
    Link = Link
    RING = 1
    Home <- TwoFiles
    Faults = {"rename", "io"}
INVARIANTS
    OnlyWritten
PROPERTIES
    Persisted
