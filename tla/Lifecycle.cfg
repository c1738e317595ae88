SPECIFICATION FairSpec
CONSTANTS
    MaxInst = 64
    MaxFft = 64
    Requests <- Transforms
    MaxHandles = 1
    MaxBlocks = 90
    Scales = 2
    JitThreshold = 8
INVARIANTS Owned NullExplained LegalRequestsMade
INVARIANTS SafeCalls WorkApart NoReentry LegalCallsServed AdviceHolds
PROPERTIES CallsEnd
