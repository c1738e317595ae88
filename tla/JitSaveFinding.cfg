\* Two threads, two transforms with the same program.
CONSTANTS
    p1 = p1
    p2 = p2
    a = a
    b = b
    c = c
    t1 = t1
    t2 = t2
    t3 = t3
    t4 = t4
    t5 = t5
    h1 = h1
    h2 = h2
    h3 = h3
    h4 = h4
    h5 = h5
    i1 = i1
    i2 = i2
    i3 = i3
    NULL = NULL
    Procs = {p1}
    Threads = {a, b}
    Transforms = {t1, t2}
    Handles = {h1, h2, h3, h4}
    Inodes = {i1, i2}
    Homes <- Homes1
    Prog <- ProgDwts
    Crashable = {}
    WritesFail = FALSE
SPECIFICATION Spec
INVARIANTS
    RunsOwnProgram
