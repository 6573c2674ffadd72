SPECIFICATION Spec
CONSTANTS
    Paths <- MCPaths
    Tasks = {t1, t2}
    Names <- MCNames
    Lossy <- MCLossy
    Slash = Slash
    Nobody = Nobody
    Faults = {}
    NoHash = NoHash
    MAX_FOLDER_ANCESTORS = 4
INVARIANTS
    WalkCorrect
    OwnRecord
    UserspaceAgrees
