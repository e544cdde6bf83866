\* A pid number passes to another uid while kill_pid_if_uid runs.
SPECIFICATION Spec
CONSTANTS
    Pids = {p1}
    Apps <- ProfileApps
    NoProc = NoProc
    NoEntry = NoEntry
    NoTarget = NoTarget
    NoUid = NoUid
    MaxGen = 2
    RingMax = 1
    ChanMax = 1
    IdentityTries = 2
    InsertMayFail = FALSE
    MayStop = TRUE
INVARIANT SweepKeepsToItsUid
CHECK_DEADLOCK FALSE
