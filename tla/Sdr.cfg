\* Two threads look sensors up while the SDR changes and reads fail; fair threads.
SPECIFICATION Spec
CONSTANTS
    e1 = e1
    e2 = e2
    e3 = e3
    k1 = k1
    k2 = k2
    k3 = k3
    t1 = t1
    t2 = t2
    Editions = {e1, e2, e3}
    Keys = {k1, k2, k3}
    Content <- ThreeEditions
    Threads = {t1, t2}
    Worker = Worker
    Nobody = Nobody
    NoEdition = NoEdition
    MaxSdrFaults = 4
INVARIANTS
    TypeOK
    LookupExclusive
    MapOfHeader
PROPERTIES
    HeaderFollowsDevice
    EveryReadReturns
