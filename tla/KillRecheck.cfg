\* The rule is removed while the killer waits for the process's name.
SPECIFICATION Spec
CONSTANTS
    Pids = {p1}
    Apps <- SharedUidApps
    NoProc = NoProc
    NoEntry = NoEntry
    NoTarget = NoTarget
    NoUid = NoUid
    MaxGen = 1
    RingMax = 1
    ChanMax = 1
    IdentityTries = 2
    InsertMayFail = FALSE
    MayStop = TRUE
INVARIANT StillBlockedAtKill
CHECK_DEADLOCK FALSE
