CONSTANTS
    Id <- AllIds
    Word <- AllWords
    Blank = ""
    Schema = {"full", "bare"}
    Crops <- MCCrops
    MaxGroup = 2
    MaxWorkers = 2
    MaxDeaths = 1
SPECIFICATION CropSpec
INVARIANTS
    WritesInOrder
    SparesTheOutput
    WritesTheCrop
    RereadMatches
PROPERTIES
    CropEnds
CHECK_DEADLOCK FALSE
