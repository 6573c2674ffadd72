SPECIFICATION Spec
CONSTANTS
    Names = {x, y}
    OtherFs = {y}
    None = None
    FILES = 2
    INODES = 4
    SECS = 1
    Faults = {"crash", "io"}
INVARIANTS
    Restorable
PROPERTIES
    NothingLost
    RoundTrip
    TamperTrue
    Neutralised
CHECK_DEADLOCK FALSE
