\* One shell connects; what its provider is made of cannot be allocated.
SPECIFICATION Spec
CONSTANTS
    Nobody = Nobody
    NoProvider = NoProvider
    Ids = {i1}
    Shells = {sh1}
    Threads = {t1}
    MaxProviders = 1
PROPERTY ConnectReturns
CHECK_DEADLOCK FALSE
