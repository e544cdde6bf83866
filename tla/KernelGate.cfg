\* Both anchors, two pid numbers that are recycled once, a ring of one event and
\* room for one report time: the ring and the map reported overflow.
SPECIFICATION Spec
CONSTANTS
    Pids = {p1, p2}
    Apps <- MCApps
    NoProc = NoProc
    MaxGen = 2
    RingMax = 1
    SpawnedMax = 2
    ReportedMax = 1
    Attached = {"binder_entry", "binder_exit", "uid_switch"}
    MaxStat = 2
SYMMETRY PidSymmetry
INVARIANTS TypeOK EventsNeedMarks
PROPERTIES EventsAreAboutBlockedProcesses
