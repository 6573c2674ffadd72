SPECIFICATION FairSpec
CONSTANTS
    r1 = r1
    r2 = r2
    r3 = r3
    flags = flags
    values = values
    Fields = {flags, values}
    Rules = {r1, r2}
    NoRule = NoRule
    Unreadable = Unreadable
    Files <- MCFiles
    MAX_RULES = 2
    Checks = {c1}
    Wants <- MCWants
INVARIANTS
    NoStaleRule
    PermitJustified
    StableRuleNeverMissed
    SeedComplete
    TransientActive
PROPERTIES
    KeepsPolicy
    SeedingEnds
