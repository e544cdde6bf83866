SPECIFICATION FairSpec
CONSTANTS
    Pkgs = {p, q}
    Governed = {p, q}
    Newer = Newer
    NoFile = NoFile
    Torn = Torn
    Sessions = {s1, s2}
    Users = {u0}
    AppIds = {i1, i2, i3}
    NoId = NoId
    HandWritten <- OneOut
    Scenarios <- SmallScenarios
INVARIANTS
    TypeOK
    StateFollowsItsApp
    NothingHeldForNobody
    RulesAreKept
    
    DecidesConfigured
PROPERTIES
    ListIsWatched
    RulesAreWatched
    Converges
