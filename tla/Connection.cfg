\* Four failures: losses, outages, failing reconnections in any order.
SPECIFICATION Spec
CONSTANT MaxFaults = 4
INVARIANTS
    TypeOK
    NoStaleContext
    ReleasedWhenDisconnected
PROPERTIES
    LossDetected
    Reconnects
