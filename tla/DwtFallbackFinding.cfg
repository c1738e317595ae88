\* Convolution when the interpreter's planes cannot be allocated.
CONSTANTS
    P = 37441
    Generator = 17
    MaxInst = 64
    MaxFft = 64
    Sym4H <- Sym4Like
    MaxStackTaps = 3
    Requests <- Deep
    TapSets <- Callers
SPECIFICATION Spec
INVARIANTS
    RoundTripAnywhere
CHECK_DEADLOCK FALSE
