\* Pipelines of all kinds, compiled and run.
CONSTANTS
    P = 15121
    Generator = 11
    MaxInst = 200
    MaxFft = 64
    RegAlign = 8
    Transforms = {}
    Programs <- AnyPipeline
    Modes = {"vm", "split", "inplace"}
SPECIFICATION RunSpec
INVARIANTS
    SafeRun
    RunsMeaningful
