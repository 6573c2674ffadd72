SPECIFICATION Spec
CONSTANTS
    svc = svc
    fg = fg
    k1 = k1
    k2 = k2
    v1 = v1
    v2 = v2
    Keys = {k1, k2}
    Versions = {v1, v2}
    Raw = Raw
    Bad = Bad
    None = None
    Faults = {}
    MaxWrites = 2
    MaxStarts = 2
    MaxCommands = 2
CHECK_DEADLOCK FALSE
INVARIANTS
    OneKey
    
    SocketReachable
    ServiceAsAsked
SYMMETRY Alike
