\* Runs that share the cache file, are killed, and meet unreadable records.
SPECIFICATION Spec
CONSTANTS
    r1 = r1
    r2 = r2
    Runs = {r1, r2}
    ArgLists <- CommandLines
    Dashed <- Switches
    Content <- TwoHosts
    CoolingDomain = 30
    Garbage <- SomeGarbage
    NoFile = NoFile
    MaxFaults = 2
INVARIANTS
    TypeOK
    DbComplete
    SomeRunGetsThrough
PROPERTY LeftoverHarmless
CHECK_DEADLOCK FALSE
