\* Two shells connect, and connect again, while two records look links up.
SPECIFICATION Spec
CONSTANTS
    Nobody = Nobody
    NoProvider = NoProvider
    Ids = {i1, i2}
    Shells = {sh1, sh2}
    Threads = {t1, t2}
    MaxProviders = 3
INVARIANTS
    TypeOK
    OneHome
    FoundIsCurrent
PROPERTY EveryLookupAnswered
CHECK_DEADLOCK FALSE
