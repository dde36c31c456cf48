SPECIFICATION ExportSpec
CONSTANTS
    Nodes <- AllNodes
    Classes = {1, 2}
    Families <- SmallNetworks
CHECK_DEADLOCK FALSE
INVARIANTS
    ReadsTheStreets
    EachRowOnce
    ChainsPassThrough
    SameReach
    MergedAsWalked
    LargestComponent
    NoRowPassedOver
PROPERTY ExportEnds
