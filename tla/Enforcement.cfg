\* One pid number carried by two processes in turn, two apps that share a uid.
SPECIFICATION Spec
CONSTANTS
    Pids = {p1}
    Apps <- SharedUidApps
    NoProc = NoProc
    NoEntry = NoEntry
    NoTarget = NoTarget
    NoUid = NoUid
    MaxGen = 2
    RingMax = 1
    ChanMax = 1
    IdentityTries = 2
    InsertMayFail = TRUE
    MayStop = TRUE
INVARIANTS TypeOK  FreeIsSpared ListsAgree
CHECK_DEADLOCK FALSE
