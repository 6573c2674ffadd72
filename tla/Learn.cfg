SPECIFICATION Spec
CONSTANTS
    f1 = f1
    f2 = f2
    p1 = p1
    NoHash = NoHash
    NoRecord = NoRecord
    Gone = Gone
    Files = {f1, f2}
    Pids = {p1}
    Names <- MCNames
    Lossy <- MCLossy
    Unsafe = {"dl;"}
    TooLong = {}
    CutName <- MCCutName
    CutUid <- MCCutUid
    Junk = "zz"
    Landing <- MCLanding
    Target <- MCTarget
    Comm <- MCComm
    Exe <- MCExe
    CreatorUid <- MCCreatorUid
    Uids = {0, 1}
    Uid0 <- MCUid0
    SoakDims <- MCSoakDims
    Selections <- MCSelections
    MAX_RULES = 2
    MAX_FOLDER_ANCESTORS = 2
    RING = 2
    MAX_LINES = 3
    Faults = {"append"}
INVARIANTS
    FileLoads
    LearnedPermits
    
