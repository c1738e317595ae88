\* Registrations, cleanups, compilations and executions in every order.
CONSTANTS
    MaxBuiltins = 11
    MaxVecs = 2
    MaxTapSets = 1
    Slots = 2
    MaxRequests = 3
    Standard <- Library
    Requests <- UserRequests
    FilterRequests <- Filters
    Programs <- UserPrograms
SPECIFICATION RegSpec
INVARIANTS
    TypeOK
    CallFits
    CallServed
    LetsMean
PROPERTIES
    StandardAgain
CHECK_DEADLOCK FALSE
