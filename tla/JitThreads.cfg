\* Three threads of one process, two fused pipelines, which stay off the disk.
CONSTANTS
    p1 = p1
    p2 = p2
    a = a
    b = b
    c = c
    t1 = t1
    t2 = t2
    t3 = t3
    t4 = t4
    t5 = t5
    h1 = h1
    h2 = h2
    h3 = h3
    h4 = h4
    h5 = h5
    i1 = i1
    i2 = i2
    i3 = i3
    NULL = NULL
    Procs = {p1}
    Threads = {a, b, c}
    Transforms = {t1, t2}
    Handles = {h1, h2, h3, h4, h5}
    Inodes = {i1}
    Homes <- Homes1
    Prog <- ProgPipes
    Crashable = {}
    WritesFail = FALSE
SPECIFICATION Spec
SYMMETRY ThreadSymmetry
INVARIANTS
    TypeOK
    HandlesOwned
    RunsMappedKernel
    WastedBounded
    NoStalePointers
PROPERTIES
    ImplementsKernelPin
