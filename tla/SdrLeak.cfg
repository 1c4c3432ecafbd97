\* A reconnection finds another SDR and a record of it cannot be read.
SPECIFICATION Spec
CONSTANTS
    e1 = e1
    e2 = e2
    e3 = e3
    k1 = k1
    k2 = k2
    k3 = k3
    t1 = t1
    t2 = t2
    Editions = {e1, e2}
    Keys = {k1, k2, k3}
    Content <- TwoEditions
    Threads = {t1}
    Worker = Worker
    Nobody = Nobody
    NoEdition = NoEdition
    MaxSdrFaults = 3
PROPERTY EveryLookupReturns
CHECK_DEADLOCK FALSE
