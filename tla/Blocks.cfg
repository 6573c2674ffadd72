SPECIFICATION Spec
CONSTANTS
    Tokens = {t1, t2}
    MAX_BLOCKS = 1
    MAX_RECENT = 2
    CHANNEL = 1
    WIRE = 1
    SOCKET = 0
    DRAIN_BUDGET = 2
    CLICKS = 1
    Trays = {"off"}
    Faults = {"restart", "silent"}
INVARIANTS
    TableConsistent
    NoPhantom
    NothingMissed

SYMMETRY
    Symmetry
