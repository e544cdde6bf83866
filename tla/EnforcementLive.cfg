\* Liveness: one pid number used once, two apps that share a uid, the gate may be dropped.
SPECIFICATION FairSpec
CONSTANTS
    Pids = {p1}
    Apps <- SharedUidApps
    NoProc = NoProc
    NoEntry = NoEntry
    NoTarget = NoTarget
    NoUid = NoUid
    MaxGen = 1
    RingMax = 1
    ChanMax = 1
    IdentityTries = 1
    InsertMayFail = FALSE
    MayStop = TRUE
INVARIANTS BlockedHasNames
PROPERTIES BlockedDies PendingResolves ShutdownEnds
CHECK_DEADLOCK FALSE
