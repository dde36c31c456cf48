CONSTANTS
    Id <- AllIds
    Key <- AllKeys
    Value = {"x", "y"}
    Place = {"in", "there", "out", "far"}
    InBox = {"in", "there"}
    Sessions <- MCSessions
    FirstChangeset = 2
    MaxClock = 4
    MaxFaults = 1
SPECIFICATION SessionSpec
INVARIANT MostUpToDate
CHECK_DEADLOCK FALSE
