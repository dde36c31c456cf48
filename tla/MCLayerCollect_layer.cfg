CONSTANTS
    Id <- AllIds
    Jobs <- SortedJobs
    ChunkSize = 1
SPECIFICATION CollectSpec
INVARIANT CollectTypeOK
PROPERTY CollectsTheLayer
CHECK_DEADLOCK FALSE
