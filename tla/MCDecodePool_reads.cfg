CONSTANTS
    MaxBlobs = 4
    MaxWorkers = 3
    MaxWeight = 1
    TargetBytes = 2
    MaxCopies = 1
    MaxFaults = 2
SPECIFICATION Spec
INVARIANTS
    NoStrayWriter
    NothingLeft
    RowsInFileOrder
PROPERTIES
    ReadEnds
CHECK_DEADLOCK FALSE
