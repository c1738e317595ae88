\* Every family, convention and backend.
CONSTANTS
    P = 37441
    Generator = 17
    MaxInst = 64
    MaxFft = 64
    Sym4H <- Sym4Like
    MaxStackTaps = 3
    Requests <- All
    TapSets <- Callers
SPECIFICATION Spec
INVARIANTS
    RoundTrip
    FilterBank
    DerivedHasSynthesis
    Mirrored
CHECK_DEADLOCK FALSE
