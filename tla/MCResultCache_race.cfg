CONSTANTS
    p1 = p1  p2 = p2  c1 = c1  v1 = v1  v2 = v2  layer = layer  network = network
    Reader = {p1, p2}
    Clearer = {c1}
    Version = {v1, v2}
    Read = {layer, network}
    PairRead = {network}
    EmptyRead <- EmptyInV2
    MaxReads = 1
    MaxFaults = 1
    MaxReplaced = 0
SPECIFICATION Spec
SYMMETRY Symmetry
INVARIANTS
    NeverHalfWritten
    ReadReturnsItsVersion
    ErrorsAreExplained
    LeftoversAreExplained
CHECK_DEADLOCK FALSE
