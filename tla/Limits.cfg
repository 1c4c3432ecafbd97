\* Sensors of every format; bytes around the sign bit; any threshold readable.
SPECIFICATION Spec
CONSTANTS
    Decodings <- SomeSensors
    RawValues = {0, 127, 128, 255}
    Unset = Unset
INVARIANTS
    LimitsInOrder
    LimitsIfReadable
CHECK_DEADLOCK FALSE
