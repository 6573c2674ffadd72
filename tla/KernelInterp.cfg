SPECIFICATION Spec
CONSTANTS
    bash = bash
    dl = dl
    cp = cp
    dev = dev
    p1 = p1
    p2 = p2
    p3 = p3
    None = None
    NoRecord = NoRecord
    NoHash = NoHash
    Inodes = {bash, dl, cp}
    Pids = {p1}
    SELF = None
    Interp = {bash}
    INTERPRETERS = {"bash"}
    Script <- MCScript
    Xattr0 <- RebootedDisk
    Writable = {cp}
    Online = {}
    Names = {"evil"}
    Faults = {}
    Paths <- MCPaths
    Place <- MCPlace
    Moves <- MCMoves
    Programs = {bash, dl, cp}
    Comms <- MCComms
    Uids = {0}
    Uid <- MCUid
    Exes = {NoHash, "exe"}
    Versions = {"v3", "v4"}
    ORIGIN_VERSION = "v4"
    Rules <- MCRules
    MODE = "enforce"
    MARK_LOCALHOST = FALSE
    RING = 1
    MAX_FOLDER_ANCESTORS = 2
INVARIANTS
    InterpreterGated
    EnforcedExec
