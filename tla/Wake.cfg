SPECIFICATION Spec
CONSTANTS
    DayMinutes = 4
    MinuteSecs = 3
    ActiveTick = 2
    SweepTick = 3
    IdleTick = 7
    WakeApps <- App
    RuleChoices <- AllChoices
    Extensions = {4}
    Freeze = 5
    FirstWeekday = 7
    TickSecs = 1
    ClientSecs = 1
    SuspendSecs = 2
    Horizon = 25
    Disturbances = 2
INVARIANTS
    TypeOK
    
    
    
    
    WindowsAreTheirMinutes
