\* Pipelines whose forms inherit only settled state.
CONSTANTS
    MaxInst = 1000
    MaxFft = 1000
    Programs <- SettledPrograms
SPECIFICATION Spec
INVARIANTS
    TypeOK
    CodeInBounds
    PassesInStep
    ComputesAgreeing
    TablesFitAgreeing
