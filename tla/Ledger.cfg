SPECIFICATION Spec
CONSTANTS
    Uids = {a, b}
    Group = g
    RuleChoices <- AllRules
    Limit = 1
    MaxTick = 1
    SaveEvery = 1
    Cap = 2
    Grants = {1, 2}
    DaySecs = 5
    Offset <- WestOfUTC
    TickSecs = 1
    Start = 6
    Horizon = 12
    MaxCrashes = 1
    MaxToggles = 1
SYMMETRY UidSymmetry
INVARIANTS
    TypeOK
    ExtensionsAreGranted
    CooldownsAreEarned
    
    LimitIsKept
    
    CountersAreTodays
