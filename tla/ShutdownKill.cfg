\* The gate is dropped with a process pending that no rule names.
SPECIFICATION Spec
CONSTANTS
    Pids = {p1}
    Apps <- SharedUidApps
    NoProc = NoProc
    NoEntry = NoEntry
    NoTarget = NoTarget
    NoUid = NoUid
    MaxGen = 1
    RingMax = 1
    ChanMax = 1
    IdentityTries = 2
    InsertMayFail = FALSE
    MayStop = TRUE
PROPERTY ShutdownConfirmsIdentity
CHECK_DEADLOCK FALSE
