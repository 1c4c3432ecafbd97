\* A device that fails, changes its SDR and executes the commands of outputs.
SPECIFICATION Spec
CONSTANTS
    e1 = e1
    e2 = e2
    k1 = k1
    k2 = k2
    t1 = t1
    Editions = {e1, e2}
    Keys = {k1, k2}
    Content <- TwoEditions
    Threads = {t1}
    Worker = Worker
    Nobody = Nobody
    NoEdition = NoEdition
    Value <- Numbers
    Single = {"3"}
    OemLinks <- SomeLinks
    MaxFaults = 2
    MaxSdrFaults = 3
INVARIANTS
    TaskUsesCurrentSdr
PROPERTIES
    ExecutesAsLinked
    PowerSetOrCaught
    SdrFollowsDevice
    LossNoticed
    EveryTaskEnds
