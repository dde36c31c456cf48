CONSTANTS
    Key <- AllKeys
    Value = {"yes", "no"}
    Pattern = {"y", "o"}
    Search <- SearchIn
    Tagged <- AllElements
    TagColumns <- KnownColumns
    Presets <- NetworkPresets
    Scripts <- MinimalScripts
SPECIFICATION FilterSpec
INVARIANT SameElements
CHECK_DEADLOCK FALSE
