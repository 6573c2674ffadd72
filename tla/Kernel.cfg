SPECIFICATION Spec
CONSTANTS
    bash = bash
    dl = dl
    cp = cp
    dev = dev
    p1 = p1
    p2 = p2
    p3 = p3
    None = "dl"
    NoRecord = NoRecord
    NoHash = NoHash
    Inodes = {dl, cp}
    Pids = {p1, p2}
    SELF = None
    Interp = {}
    INTERPRETERS = {"bash"}
    Script <- NoScript
    Xattr0 <- OutdatedDisk
    Writable = {dl, cp}
    Online = {p1}
    Names = {}
    Faults = {}
    Paths <- MCPaths
    Place <- MCPlace
    Moves <- NoMoves
    Programs = {dl}
    Comms <- MCComms
    Uids = {0}
    Uid <- MCUid
    Exes = {NoHash}
    Versions = {"v3", "v4"}
    ORIGIN_VERSION = "v4"
    Rules <- MCRules
    MODE = "enforce"
    MARK_LOCALHOST = FALSE
    RING = 1
    MAX_FOLDER_ANCESTORS = 2
INVARIANTS
    TaintComplete
    ContentMarked
    HooksAgree
