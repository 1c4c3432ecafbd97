\* Two FRUs and three sensors of every combination; any command may fail.
SPECIFICATION Spec
CONSTANTS
    FruCount = 2
    FruKinds <- SomeFrus
    SensorCount = 3
    SensorKinds <- SomeSensors
    CoolingDomain <- Cooling
    None = None
INVARIANTS
    TypeOK
    TargetReset
    LedsAsReported
    AttachedAsFiltered
PROPERTY ReadEnds
CHECK_DEADLOCK FALSE
