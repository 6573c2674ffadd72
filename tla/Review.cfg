SPECIFICATION MCSpec
CONSTANTS
    t1 = t1
    t2 = t2
    Tokens = {t1, t2}
    MAX_BLOCKS = 2
    MAX_RECENT = 1
    CHANNEL = 1
    WIRE = 1
    SOCKET = 0
    DRAIN_BUDGET = 2
    CLICKS = 1
    Trays = {"off", "absent"}
    Faults = {"restart", "silent"}

INVARIANTS
    HiddenMeansResolved
PROPERTIES
    EveryRequestServed
    BlockReachesTray
    PassEnds
