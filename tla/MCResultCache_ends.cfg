CONSTANTS
    p1 = p1  p2 = p2  c1 = c1  v1 = v1  v2 = v2  layer = layer  network = network
    Reader = {p1}
    Clearer = {c1}
    Version = {v1, v2}
    Read = {layer, network}
    PairRead = {network}
    EmptyRead <- NetworkEmptyInV2
    MaxReads = 2
    MaxFaults = 1
    MaxReplaced = 1
SPECIFICATION FairSpec
INVARIANTS
    KeyedOnSource
    MarkerSound
PROPERTIES
    ReadsEnd
CHECK_DEADLOCK FALSE
