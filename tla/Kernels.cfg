SPECIFICATION Spec
CONSTANTS
    P = 37441
    Generator = 17
    MaxInst = 64
    MaxFft = 64
    Jobs <- Algorithms
INVARIANTS RoundTrip Definition
CHECK_DEADLOCK FALSE
