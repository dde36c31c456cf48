CONSTANTS
    Id <- AllIds
    Jobs <- AnyOrderJobs
SPECIFICATION MemorySpec
INVARIANTS
    UnsortedOnlyLoses
PROPERTIES
    ReadsTheLayer
CHECK_DEADLOCK FALSE
