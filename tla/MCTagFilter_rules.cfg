CONSTANTS
    Key <- AllKeys
    Value = {"yes", "no"}
    Pattern = {"y", "o"}
    Search <- SearchIn
    Tagged <- AllElements
    TagColumns <- KnownColumns
    Presets <- NetworkPresets
    Scripts <- AllScripts
SPECIFICATION FilterSpec
INVARIANTS
    OneRule
    SelectsTheLayer
    CustomMeans
CHECK_DEADLOCK FALSE
