SPECIFICATION Spec
CONSTANTS
    Uids = {a, b}
    Group = g
    RuleChoices <- AppRules
    Limit = 3
    MaxTick = 1
    SaveEvery = 1
    Cap = 3
    Grants = {2}
    DaySecs = 6
    Offset = 2
    TickSecs = 1
    Start = 7
    Horizon = 13
    MaxCrashes = 1
    MaxToggles = 0
SYMMETRY UidSymmetry
INVARIANT
    RestartKeepsToday
