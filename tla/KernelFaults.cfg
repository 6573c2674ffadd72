SPECIFICATION Spec
CONSTANTS
    bash = bash
    dl = dl
    cp = cp
    dev = dev
    p1 = p1
    p2 = p2
    p3 = p3
    None = None
    NoRecord = NoRecord
    NoHash = NoHash
    Inodes = {dl, cp, dev}
    Pids = {p1, p3}
    SELF = p3
    Interp = {dl}
    INTERPRETERS = {"bash"}
    Script <- NoScript
    Xattr0 <- RebootedDisk
    Writable = {cp, dev}
    Online = {p1}
    Names = {}
    Faults = {"late_write", "read_write", "evict", "forget"}
    Paths <- MCPaths
    Place <- MCPlace
    Moves <- NoMoves
    Programs = {}
    Comms <- MCComms
    Uids = {0}
    Uid <- MCUid
    Exes = {NoHash}
    Versions = {"v3", "v4"}
    ORIGIN_VERSION = "v4"
    Rules <- MCRules
    MODE = "enforce"
    MARK_LOCALHOST = FALSE
    RING = 1
    MAX_FOLDER_ANCESTORS = 2
INVARIANTS
    NoFalseMark
    CreatorIsDownloader
