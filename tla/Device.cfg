\* One record of every link type; the threads are scheduled fairly.
SPECIFICATION Spec
CONSTANTS
    s1 = s1
    b1 = b1
    l1 = l1
    SensorTasks = {s1}
    OemTasks = {b1}
    LedTasks = {l1}
    BoRecords = {b1}
    NoTask = NoTask
    CallbackRing = 3
    MaxPasses = 2
    MaxPassesInAll = 3
INVARIANTS
    TypeOK
    InFlightOnce
    EntityExclusive
    PostedMatchesRead
    CommandsInOrder
PROPERTIES
    EveryPassCompletes
    StopCompletes
    KeepsContract
CHECK_DEADLOCK FALSE
