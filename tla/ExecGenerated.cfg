\* The programs of the C API, in all three interpreters.
CONSTANTS
    P = 15121
    Generator = 11
    MaxInst = 64
    MaxFft = 32
    RegAlign = 1
    Transforms <- GeneratedPrograms
    Modes = {"vm", "split", "inplace"}
SPECIFICATION FairSpec
INVARIANTS
    MemorySafe
PROPERTIES
    Returns
    ImplementsTransformCall
